----------------------------- MODULE StructuralDiff -----------------------------
(***************************************************************************)
(* DiffWithOptions of pkg/lens/diff.go: the walk that compares two trees   *)
(* and names every path at which they differ, and the passes around it.    *)
(* What a change displays is the sequence of texts before and after it.    *)
(***************************************************************************)
EXTENDS PathRules, SignerSets

CONSTANTS
  MaxAlignmentCells,
  FloatExact          \* 2^53: a float64 keeps only the even integers above it

NoOptions ==
  [align |-> FALSE, semantic |-> FALSE, unordered |-> FALSE, filter |-> NoFilter,
   mask |-> NoFilter, maskPaths |-> {}, threshold |-> 0, redaction |-> NoRedaction]

Change(path, op, before, after) == [path |-> path, op |-> op, before |-> before, after |-> after]
Nothing == << >>
Distance(x, y) == IF x < y THEN y - x ELSE x - y

-----------------------------------------------------------------------------
(***************************************************************************)
(* Equality of nodes.                                                      *)
(***************************************************************************)
\* extractListBytes: a list of numbers that fit in a byte.
ListBytes(n) ==
  IF n.kind = "list" /\ n.children # << >>
     /\ \A i \in DOMAIN n.children : n.children[i].kind = "scalar"
                                     /\ n.children[i].value.num \cap 0..255 # {}
    THEN {[i \in DOMAIN n.children |-> CHOOSE x \in n.children[i].value.num : TRUE]} ELSE {}

TextBytes(n) == IF n.value.sort = "string" THEN n.value.hex \cup n.value.base64 ELSE {}

\* nodesBinaryEqual: the same bytes in two notations.  Two texts that both read
\* only as base64 are not compared.
NodesBinaryEqual(a, b) ==
  IF a.kind = "scalar" /\ b.kind = "scalar" /\ a.value.sort = "string" /\ b.value.sort = "string"
    THEN \/ a.value.hex \cap (b.value.hex \cup b.value.base64) # {}
         \/ a.value.base64 \cap b.value.hex # {}
    ELSE \/ ListBytes(a) \cap ListBytes(b) # {}
         \/ ListBytes(a) \cap TextBytes(b) # {} \/ ListBytes(b) \cap TextBytes(a) # {}

\* notesCompatible, quotation marks aside.
NotesCompatible(a, b) == a.note = b.note \/ a.note = "" \/ b.note = ""

SameScalar(a, b, o) ==
  \/ a.note = b.note /\ a.value.text = b.value.text
  \/ o.threshold > 0 /\ \E x \in a.value.num, y \in b.value.num : Distance(x, y) <= o.threshold
  \/ NodesBinaryEqual(a, b) /\ NotesCompatible(a, b)

\* sameNodeWithOptions, by which list elements are matched: it looks at
\* children by position, and at masked paths too.
RECURSIVE SameNode(_, _, _)
SameNode(a, b, o) ==
  CASE a.name # b.name -> FALSE
    [] a.name = b.name /\ a.kind # b.kind -> NodesBinaryEqual(a, b)
    [] a.name = b.name /\ a.kind = b.kind /\ a.kind = "scalar" -> SameScalar(a, b, o)
    [] OTHER -> /\ Len(a.children) = Len(b.children)
                /\ \A i \in DOMAIN a.children : SameNode(a.children[i], b.children[i], o)

-----------------------------------------------------------------------------
(***************************************************************************)
(* Memos and ledger entries.                                               *)
(***************************************************************************)
MemoArm(n) ==
  LET arms == SelectSeq(n.children, LAMBDA c : /\ c.kind = "scalar" /\ c.value # NoValue
                                               /\ c.name \in {"Text", "Id", "Hash", "Return", "HashX"})
  IN  IF arms = << >> THEN NoNode ELSE Head(arms)

\* memoValuesEquivalent: a number as a text, and as an id that is read through a
\* float64, which rounds to even.
AsFloat(n) ==
  CASE n <= FloatExact \/ n % 2 = 0 -> n
    [] n > FloatExact /\ n % 4 = 1   -> n - 1
    [] OTHER                        -> n + 1
MemoEquivalent(x, y) ==
  LET text == IF x.name = "Text" THEN x ELSE y
      id == IF x.name = "Text" THEN y ELSE x
  IN  {x.name, y.name} = {"Text", "Id"} /\ \E n \in id.value.num : AsFloat(n) \in text.value.num

\* SemanticMemoComparison compares the texts instead.
SemanticMemoComparison(x, y) == {x.name, y.name} = {"Text", "Id"} /\ x.value.text = y.value.text

HasEntryData(n) ==
  LET data == Child(n, "Data") IN data.kind = "struct" /\ Child(data, "Type").value # NoValue
Transition(a, b) ==
  CASE HasEntryData(a) /\ HasEntryData(b) -> "UPDATED"
    [] HasEntryData(a) /\ ~HasEntryData(b) -> "DELETED"
    [] ~HasEntryData(a) /\ HasEntryData(b) -> "CREATED"
    [] OTHER -> "UNKNOWN"

\* Where extractLedgerKey looks for the parts of a key: the arm of the entry's
\* type and fields of it.
KeyFields ==
  [Account |-> <<"Account", "AccountId">>, Trustline |-> <<"Trustline", "AccountId", "Asset">>,
   Offer |-> <<"Offer", "SellerID", "OfferID">>, Data |-> <<"Data", "AccountId", "DataName">>,
   ClaimableBalance |-> <<"ClaimableBalance", "BalanceId">>,
   LiquidityPool |-> <<"LiquidityPool", "LiquidityPoolId">>,
   ContractData |-> <<"ContractData", "Contract", "Key">>, ContractCode |-> <<"ContractCode", "Hash">>,
   ConfigSetting |-> <<"ConfigSetting", "ConfigSettingId">>, TTL |-> <<"TTL", "KeyHash">>]

ValueText(n) == IF n.value = NoValue THEN "" ELSE n.value.text

\* extractScValSummary and scValNodeSummary: the first of these arms that is a
\* scalar; a vector, a map or a wider integer has none.
SummaryArms == <<"Sym", "Str", "Address", "U32", "U64", "I32", "I64", "U128", "I128", "Bool", "Bytes">>
SummaryArm(n) == SelectSeq(SummaryArms, LAMBDA arm : Child(n, arm).value # NoValue)
ScValSummary(n) ==
  IF SummaryArm(n) = << >> THEN ValueText(n)
  ELSE Head(SummaryArm(n)) \o ":" \o ValueText(Child(n, Head(SummaryArm(n))))
TopicSummary(n) ==
  IF SummaryArm(n) = << >> THEN ValueText(n) ELSE ValueText(Child(n, Head(SummaryArm(n))))

\* extractAssetSummary: native, the code and the issuer, or else the type.
AssetSummary(n) ==
  LET arms == SelectSeq(n.children, LAMBDA c : c.name \in {"AlphaNum4", "AlphaNum12"} /\ c.kind = "struct")
      arm == IF arms = << >> THEN NoNode ELSE Last(arms)
      code == ValueText(Child(arm, "AssetCode")) issuer == ValueText(Child(arm, "Issuer"))
      type == ValueText(Child(n, "Type"))
  IN  CASE type = "AssetTypeNative" -> "native"
        [] type # "AssetTypeNative" /\ code # "" /\ issuer # "" -> code \o ":" \o issuer
        [] OTHER -> type

\* A part of a key; the number of an offer is zero when it has none.
KeyPart(arm, field) ==
  LET n == Child(arm, field)
  IN  CASE field = "OfferID" -> ToString(IF n.value.num = {} THEN 0 ELSE AsFloat(CHOOSE id \in n.value.num : TRUE))
        [] field = "Asset" -> IF n.kind = "struct" THEN AssetSummary(n) ELSE ""
        [] field = "Key" -> IF n.kind = "struct" THEN ScValSummary(n) ELSE ""
        [] OTHER -> ValueText(n)

LedgerKey(n) ==
  LET data == Child(n, "Data")
      type == Child(data, "Type").value.text
      fields == KeyFields[type]
      arm == Child(data, fields[1])
      parts == [i \in 1..(Len(fields) - 1) |-> KeyPart(arm, fields[i + 1])]
  IN  IF ~HasEntryData(n) \/ type \notin DOMAIN KeyFields THEN << >>
      ELSE IF \E i \in DOMAIN parts : parts[i] = "" THEN <<type, "<unknown>">> ELSE <<type>> \o parts

-----------------------------------------------------------------------------
(***************************************************************************)
(* Matching the elements of lists.                                         *)
(***************************************************************************)
CollectionName(path, a, b) ==
  LET last == IF path = << >> THEN Field("") ELSE path[Len(path)]
      named == IF last.index >= 0 /\ Len(path) > 1 THEN path[Len(path) - 1] ELSE last
  IN  CASE a.name # "" -> a.name
        [] a.name = "" /\ b.name # "" -> b.name
        [] OTHER -> named.name

\* The greedy passes: each left element, in order, takes the first right
\* element that matches and is not yet taken.
Paired(pairs, side) == {p[side] : p \in ToSet(pairs)}
GreedyPairs(m, n, pairs, Matches(_, _)) ==
  LET take(acc, i) ==
        LET free == {j \in 1..n : j \notin Paired(acc, 2) /\ Matches(i, j)}
        IN  IF i \in Paired(acc, 1) \/ free = {} THEN acc
            ELSE Append(acc, <<i, CHOOSE j \in free : \A k \in free : j <= k>>)
  IN  FoldLeft(take, pairs, [i \in 1..m |-> i])

Unpaired(n, pairs, side) == SelectSeq([i \in 1..n |-> i], LAMBDA i : i \notin Paired(pairs, side))

\* Pass 1 of diffOperationLists: operations that stayed where they were.
StayedPut(left, right, o) ==
  LET both == IF Len(left) < Len(right) THEN Len(left) ELSE Len(right)
      same(i) == SameNode(left[i], right[i], o)
      kept == SelectSeq([i \in 1..both |-> i], same)
  IN  [k \in DOMAIN kept |-> <<kept[k], kept[k]>>]

\* Contract events: who emitted them, and their topics.
Topics(n) ==
  LET event == IF HasChild(n, "Event") THEN Child(n, "Event") ELSE n
      topics == Child(Child(Child(event, "Body"), "V0"), "Topics").children
  IN  [i \in DOMAIN topics |-> TopicSummary(topics[i])]
Emitter(n) ==
  LET event == IF HasChild(n, "Event") THEN Child(n, "Event") ELSE n
  IN  Child(event, "ContractId").value.text
IsEventNode(n) ==
  n.type \in {"ContractEvent", "DiagnosticEvent"} \/ HasChild(n, "ContractId") \/ HasChild(n, "Event")
IsEventCollection(name, a, b) ==
  \/ name \in {"Events", "DiagnosticEvents"}
  \/ a.children # << >> /\ IsEventNode(a.children[1])
  \/ b.children # << >> /\ IsEventNode(b.children[1])

\* Both passes of diffEventLists: all topics, then the first.
EventPairs(left, right) ==
  LET alike(i, j) == Emitter(left[i]) = Emitter(right[j]) /\ Topics(left[i]) = Topics(right[j])
      first(n) == IF Topics(n) = << >> THEN "" ELSE Head(Topics(n))
      similar(i, j) == Emitter(left[i]) = Emitter(right[j]) /\ first(left[i]) # ""
                       /\ first(left[i]) = first(right[j])
  IN  GreedyPairs(Len(left), Len(right), GreedyPairs(Len(left), Len(right), << >>, alike), similar)

\* diffAlignedLists: <<i, j>> pairs a left and a right element; 0 is none.
LCSLength(left, right, o) ==
  LET f[i \in 1..(Len(left) + 1), j \in 1..(Len(right) + 1)] ==
        IF i > Len(left) \/ j > Len(right) THEN 0
        ELSE IF SameNode(left[i], right[j], o) THEN 1 + f[i + 1, j + 1]
        ELSE IF f[i + 1, j] > f[i, j + 1] THEN f[i + 1, j] ELSE f[i, j + 1]
  IN  f

RECURSIVE AlignGreedily(_, _, _, _, _, _)
AlignGreedily(left, right, o, lcs, i, j) ==
  CASE i > Len(left) /\ j > Len(right) -> << >>
    [] i <= Len(left) /\ j <= Len(right) /\ SameNode(left[i], right[j], o) ->
         <<<<i, j>>>> \o AlignGreedily(left, right, o, lcs, i + 1, j + 1)
    [] j <= Len(right) /\ (i > Len(left) \/ ~SameNode(left[i], right[j], o)) ->
         <<<<0, j>>>> \o AlignGreedily(left, right, o, lcs, i, j + 1)
    [] OTHER -> <<<<i, 0>>>> \o AlignGreedily(left, right, o, lcs, i + 1, j)

RECURSIVE Align(_, _, _, _, _, _)
Align(left, right, o, lcs, i, j) ==
  CASE i > Len(left) /\ j > Len(right) -> << >>
    [] i <= Len(left) /\ j <= Len(right) /\ SameNode(left[i], right[j], o) ->
         <<<<i, j>>>> \o Align(left, right, o, lcs, i + 1, j + 1)
    [] i <= Len(left) /\ j <= Len(right) /\ ~SameNode(left[i], right[j], o) ->
         IF lcs[i, j + 1] >= lcs[i + 1, j]
           THEN <<<<0, j>>>> \o Align(left, right, o, lcs, i, j + 1)
           ELSE <<<<i, 0>>>> \o Align(left, right, o, lcs, i + 1, j)
    [] i <= Len(left) /\ j > Len(right) -> <<<<i, 0>>>> \o Align(left, right, o, lcs, i + 1, j)
    [] OTHER -> <<<<0, j>>>> \o Align(left, right, o, lcs, i, j + 1)

Aligned(left, right, o) == Align(left, right, o, LCSLength(left, right, o), 1, 1)
ByPosition(left, right) ==
  LET n == IF Len(left) < Len(right) THEN Len(right) ELSE Len(left)
  IN  [i \in 1..n |-> <<IF i <= Len(left) THEN i ELSE 0, IF i <= Len(right) THEN i ELSE 0>>]

\* diffListsWithOptions: alignment has a size limit.
ListPairs(left, right, o) ==
  IF o.align /\ left # << >> /\ right # << >> /\ Len(left) <= MaxAlignmentCells \div Len(right)
    THEN Aligned(left, right, o) ELSE ByPosition(left, right)

-----------------------------------------------------------------------------
(***************************************************************************)
(* The walk.                                                               *)
(***************************************************************************)
At(list, i) == IF i = 0 THEN NoNode ELSE list[i]

RECURSIVE DiffNodes(_, _, _, _)

\* Fields in the order of the left side, then those only the right side has.
DiffFields(a, b, path, o) ==
  LET new == SelectSeq(b.children, LAMBDA c : ~HasChild(a, c.name))
      below(x, y, name) == DiffNodes(x, y, JoinPath(path, name), o)
  IN  FlattenSeq([i \in DOMAIN a.children |->
                    below(a.children[i], Child(b, a.children[i].name), a.children[i].name)])
      \o FlattenSeq([i \in DOMAIN new |-> below(NoNode, new[i], new[i].name)])

DiffMemo(a, b, path, o) ==
  LET x == MemoArm(a) y == MemoArm(b)
  IN  IF x.name # y.name /\ MemoEquivalent(x, y)
        THEN <<Change(path, "modified", <<x.value.text>>, <<y.value.text>>)>>
        ELSE DiffFields(a, b, path, o)

\* A ledger entry that changed gets a header that says how, and its key.
DiffLedgerEntry(a, b, path, o) ==
  LET detailed == DiffFields(a, b, path, o)
      transition == <<Transition(a, b)>>
      key == LedgerKey(a)
      header == <<Change(path, "modified", transition, transition)>>
                \o IF key = << >> THEN << >>
                   ELSE <<Change(JoinPath(path, "LedgerKey"), "modified", key, key)>>
  IN  IF detailed # << >> \/ transition[1] \in {"CREATED", "DELETED"} THEN header \o detailed ELSE detailed

DiffSignerLists(a, b, path) ==
  LET key(list) == [i \in DOMAIN list |-> CanonicalNodeKey(list[i])]
      d == SignerSetDiff(key(a.children), key(b.children))
  IN  [k \in DOMAIN d.removed |-> Change(path, "removed", Label(a.children[d.removed[k]]), Nothing)]
      \o [k \in DOMAIN d.added |-> Change(path, "added", Nothing, Label(b.children[d.added[k]]))]

\* Elements that are paired, then those that are not; a change is located at
\* the element's place on the right where it has one.
DiffPairAtLeft(left, right, pair, path, o) ==
  DiffNodes(At(left, pair[1]), At(right, pair[2]),
            AtIndex(path, (IF pair[1] = 0 THEN pair[2] ELSE pair[1]) - 1), o)
DiffPair(left, right, pair, path, o) ==
  DiffNodes(At(left, pair[1]), At(right, pair[2]),
            AtIndex(path, (IF pair[2] = 0 THEN pair[1] ELSE pair[2]) - 1), o)
DiffPairs(left, right, pairs, path, o) ==
  FlattenSeq([k \in DOMAIN pairs |-> DiffPair(left, right, pairs[k], path, o)])

DiffEventLists(a, b, path, o) ==
  LET pairs == EventPairs(a.children, b.children)
      gone == Unpaired(Len(a.children), pairs, 1)
      new == Unpaired(Len(b.children), pairs, 2)
  IN  DiffPairs(a.children, b.children,
                pairs \o [k \in DOMAIN gone |-> <<gone[k], 0>>] \o [k \in DOMAIN new |-> <<0, new[k]>>], path, o)

\* Operations: those that stayed, those that only moved, and the rest paired in
\* order; the changes are then sorted by the place they are reported at.
DiffOperationLists(a, b, path, o) ==
  LET left == a.children right == b.children
      stayed == StayedPut(left, right, o)
      moved == GreedyPairs(Len(left), Len(right), stayed, LAMBDA i, j : SameNode(left[i], right[j], o))
      gone == Unpaired(Len(left), moved, 1)
      new == Unpaired(Len(right), moved, 2)
      longest == IF Len(gone) < Len(new) THEN Len(new) ELSE Len(gone)
      rest == [k \in 1..longest |-> <<IF k <= Len(gone) THEN gone[k] ELSE 0, IF k <= Len(new) THEN new[k] ELSE 0>>]
      reordered(p) == <<Change(AtIndex(path, p[2] - 1), "reordered",
                               <<ToString(p[1] - 1)>>, <<ToString(p[2] - 1)>>)>>
      reported == [k \in 1..(Len(moved) - Len(stayed)) |-> moved[Len(stayed) + k]] \o rest
      place(p) == IF p[2] = 0 THEN p[1] ELSE p[2]
      isMove(k) == k <= Len(moved) - Len(stayed)
      changesOf(k) == IF isMove(k) THEN reordered(reported[k]) ELSE DiffPair(left, right, reported[k], path, o)
      atPlace(n) == FlattenSeq([k \in DOMAIN reported |-> IF place(reported[k]) = n THEN changesOf(k) ELSE << >>])
  IN  FlattenSeq([n \in 1..(Len(left) + Len(right)) |-> atPlace(n)])

DiffLists(a, b, path, o) ==
  LET name == CollectionName(path, a, b)
  IN  CASE o.unordered /\ IsSignerCollection(name) -> DiffSignerLists(a, b, path)
        [] name = "Operations" -> DiffOperationLists(a, b, path, o)
        [] name # "Operations" /\ ~(o.unordered /\ IsSignerCollection(name)) /\ IsEventCollection(name, a, b) ->
             DiffEventLists(a, b, path, o)
        [] OTHER -> DiffPairs(a.children, b.children, ListPairs(a.children, b.children, o), path, o)

DiffStructs(a, b, path, o) ==
  CASE a.type = "Memo" /\ b.type = "Memo" -> DiffMemo(a, b, path, o)
    [] a.type = "LedgerEntry" /\ b.type = "LedgerEntry" -> DiffLedgerEntry(a, b, path, o)
    [] OTHER -> DiffFields(a, b, path, o)

DiffNodes(a, b, path, o) ==
  CASE Masked(o.mask, path) \/ (IsNil(a) /\ IsNil(b)) -> << >>
    [] ~Masked(o.mask, path) /\ IsNil(a) /\ ~IsNil(b) -> <<Change(path, "added", Nothing, <<LeafValue(b)>>)>>
    [] ~Masked(o.mask, path) /\ ~IsNil(a) /\ IsNil(b) -> <<Change(path, "removed", <<LeafValue(a)>>, Nothing)>>
    [] ~Masked(o.mask, path) /\ ~IsNil(a) /\ ~IsNil(b) /\ a.kind # b.kind ->
         IF NodesBinaryEqual(a, b) THEN << >>
         ELSE <<Change(path, "type_changed", <<LeafValue(a)>>, <<LeafValue(b)>>)>>
    [] OTHER ->
         CASE a.kind = "list" -> DiffLists(a, b, path, o)
           [] a.kind = "struct" -> DiffStructs(a, b, path, o)
           [] OTHER -> IF SameScalar(a, b, o) THEN << >>
                       ELSE <<Change(path, "modified", <<a.value.text>>, <<b.value.text>>)>>

\* DiffContractEvents: two logs by themselves.
DiffContractEvents(left, right) ==
  DiffEventLists(List("Events", "", left), List("Events", "", right), <<Field("Events")>>, NoOptions)

-----------------------------------------------------------------------------
(***************************************************************************)
(* Trees for comparing Soroban values: scval_diff.go and semantic_diff.go. *)
(* An ScVal is a record of its type, the limbs of a wide integer (most     *)
(* significant first), the items of a vector, the entries of a map and the *)
(* text of anything else.  The arm of a vector or a map may be absent.     *)
(***************************************************************************)
CONSTANT LimbBase  \* 2^64

ScVal(type, text, limbs, items, entries) ==
  [type |-> type, text |-> text, limbs |-> limbs, items |-> items, entries |-> entries]

IntegerUnsigned(type, limbs) == FoldLeft(LAMBDA sum, limb : sum * LimbBase + limb, 0, limbs)

\* unsignedLimbs and signedLimbs: the high limb of a signed integer counts in
\* two's complement, the others do not.
Integer(type, limbs) ==
  LET high == Head(limbs)
      signed == type \in {"I128", "I256"} /\ high >= LimbBase \div 2
  IN  FoldLeft(LAMBDA sum, limb : sum * LimbBase + limb, IF signed THEN high - LimbBase ELSE high, Tail(limbs))

WideTypes == {"U128", "I128", "U256", "I256"}

\* The key of a map entry is its canonical encoding, which names the child.
TypeName(key) == key.type
KeyName(key) == ToString(key)

Absent == "absent"
RECURSIVE Malformed(_)
Malformed(v) ==
  \/ v.type \in {"Vec", "Map"} /\ v.text = Absent
  \/ \E i \in DOMAIN v.items : Malformed(v.items[i])
  \/ \E i \in DOMAIN v.entries : Malformed(v.entries[i].val)

LimbNodes(limbs) ==
  [i \in DOMAIN limbs |-> Scalar(IF i = 1 THEN "Hi" ELSE "Lo" \o ToString(i), "Uint64", Number(limbs[i]))]

PlainArm(v) ==
  CASE v.type \in WideTypes -> <<Struct(v.type, "Parts", LimbNodes(v.limbs))>>
    [] v.type = "Void"      -> << >>
    [] OTHER                -> <<Scalar(v.type, v.type, Text(v.text))>>

RECURSIVE ScValNode(_, _, _)
ScValNode(name, v, semantic) ==
  LET items == [i \in DOMAIN v.items |-> ScValNode("", v.items[i], semantic)]
      entries == [i \in DOMAIN v.entries |->
                    ScValNode(KeyName(v.entries[i].key), v.entries[i].val, semantic)]
      arm == CASE v.type \in WideTypes /\ semantic -> <<Scalar(v.type, "integer", Text(ToString(Integer(v.type, v.limbs))))>>
               [] v.type = "Vec" -> <<List("Vec", "ScVec", items)>>
               [] v.type = "Map" -> <<Struct("Map", "ScMap", entries)>>
               [] OTHER -> PlainArm(v)
  IN  Struct(name, "ScVal", <<Scalar("Type", "ScValType", Text(v.type))>> \o arm)

\* DiffScVal: an absent arm is an error.
DiffScVal(left, right) ==
  {DiffNodes(ScValNode("", pair[1], FALSE), ScValNode("", pair[2], FALSE), << >>, NoOptions) :
     pair \in {p \in {<<left, right>>} : ~Malformed(p[1]) /\ ~Malformed(p[2])}}

\* The tree every decoded value has (node.go): a map is a list of entries, and an
\* absent arm is left out.
RECURSIVE DecodedNode(_, _)
DecodedNode(name, v) ==
  LET items == [i \in DOMAIN v.items |-> DecodedNode("", v.items[i])]
      entries == [i \in DOMAIN v.entries |->
                    Struct("", "ScMapEntry", <<DecodedNode("Key", v.entries[i].key), DecodedNode("Val", v.entries[i].val)>>)]
      arm == CASE v.type \in {"Vec", "Map"} /\ v.text = Absent -> << >>
               [] v.type = "Vec" /\ v.text # Absent -> <<List("Vec", "ScVec", items)>>
               [] v.type = "Map" /\ v.text # Absent -> <<List("Map", "ScMap", entries)>>
               [] OTHER -> PlainArm(v)
  IN  Struct(name, "ScVal", <<Scalar("Type", "ScValType", Text(v.type))>> \o arm)

\* A decoded value: its type, its tree, whether it still has its decoded XDR,
\* and the ScVal it is, if it is one.
Decoded(type, node) == [type |-> type, node |-> node, raw |-> TRUE, scval |-> {}]
DecodedScVal(v) == [Decoded("ScVal", DecodedNode("", v)) EXCEPT !.scval = {v}]

\* scValNodeForValue: no tree when an arm is absent.
NodeForValue(v) ==
  IF v.raw /\ v.scval # {} THEN {ScValNode("", s, TRUE) : s \in {x \in v.scval : ~Malformed(x)}} ELSE {v.node}
=============================================================================
