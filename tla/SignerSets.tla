------------------------------- MODULE SignerSets -------------------------------
(***************************************************************************)
(* Collections whose order means nothing: signers and signatures as        *)
(* multisets (pkg/lens/signer_diff.go), footprint keys as sets             *)
(* (pkg/lens/footprint_diff.go), and the signing power of an account       *)
(* (AnalyzeAccountSigners of diff.go, signer_thresholds.go).               *)
(***************************************************************************)
EXTENDS NodeTree

CONSTANT WeightModulus  \* weights are added in words of this many values

\* Is this item beyond those that the other side can match?
Unmatched(items, i, others) ==
  Cardinality({j \in 1..i : items[j] = items[i]}) > Cardinality({j \in DOMAIN others : others[j] = items[i]})

\* signerSetDiff, on the items' keys: positions keep the order of each side.
Positions(items, Test(_)) == SelectSeq([i \in DOMAIN items |-> i], Test)
SignerSetDiff(left, right) ==
  LET removed(i) == Unmatched(left, i, right)
      common(i) == ~Unmatched(left, i, right)
      added(i) == Unmatched(right, i, left)
  IN  [removed |-> Positions(left, removed), common |-> Positions(left, common), added |-> Positions(right, added)]

\* A node's identity in such a collection: its notes and its own name are not
\* part of it, the Go type of its value is.
RECURSIVE CanonicalNodeKey(_)
CanonicalNodeKey(n) ==
  [n EXCEPT !.name = "", !.note = "",
            !.children = [i \in DOMAIN n.children |->
                            [CanonicalNodeKey(n.children[i]) EXCEPT !.name = n.children[i].name]]]

\* The label of an element: its scalars, or itself when it has none.
Label(n) ==
  LET scalars == SelectSeq(n.children, LAMBDA c : c.kind = "scalar")
  IN  IF n.kind = "scalar" \/ scalars = << >> THEN <<NodeString(n)>>
      ELSE [i \in DOMAIN scalars |-> NodeString(scalars[i])]

IsSignerCollection(name) == name \in {"Signatures", "Signers", "ExtraSigners"}

-----------------------------------------------------------------------------
\* footprintKeys collapses duplicates, keeping first-seen order.
Distinct(keys) ==
  LET first(i) == ~\E j \in 1..(i - 1) : keys[j] = keys[i]
  IN  [p \in DOMAIN Positions(keys, first) |-> keys[Positions(keys, first)[p]]]
DiffFootprintKeys(left, right) ==
  LET l == Distinct(left) r == Distinct(right)
  IN  [common |-> SelectSeq(l, LAMBDA k : Contains(r, k)),
       removed |-> SelectSeq(l, LAMBDA k : ~Contains(r, k)),
       added |-> SelectSeq(r, LAMBDA k : ~Contains(l, k))]

\* A footprint is [readOnly, readWrite]; an envelope without one is an error.
DiffFootprints(left, right) ==
  [readOnly |-> DiffFootprintKeys(left.readOnly, right.readOnly),
   readWrite |-> DiffFootprintKeys(left.readWrite, right.readWrite)]
FootprintEqual(d) == \A half \in DOMAIN d : d[half].added = << >> /\ d[half].removed = << >>

\* sorobanDataFromEnvelope: where an envelope keeps its footprint.
FootprintOf(envelope) ==
  CASE envelope.type = "Tx" -> envelope.footprint
    [] envelope.type = "TxFeeBump" -> envelope.inner
    [] OTHER -> {}
DiffEnvelopeFootprints(left, right) ==
  {DiffFootprints(l, r) : l \in FootprintOf(left), r \in FootprintOf(right)}

-----------------------------------------------------------------------------
\* An account entry: thresholds <<master, low, medium, high>> and the weights
\* of its signers.
SumOf(weights) == FoldLeft(LAMBDA sum, w : sum + w, 0, weights)
SigningPower(account) == (account.thresholds[1] + SumOf(account.weights)) % WeightModulus

\* A warning for each threshold above zero that the right side cannot reach.
QuorumWarnings(account) ==
  {level \in {"medium", "high"} :
     SigningPower(account) < account.thresholds[IF level = "medium" THEN 3 ELSE 4]}

\* enrichSignerThresholds: the note on an account's thresholds.
ThresholdNote(account) ==
  [thresholds |-> account.thresholds, locked |-> account.thresholds[1] = 0,
   unmet |-> QuorumWarnings(account), power |-> SigningPower(account)]

\* extractAccountEntry from a tree.
AccountOf(n) ==
  LET thresholds == Child(n, "Thresholds").value.hex
      signers == Child(n, "Signers").children
      weight(i) == LET w == Child(signers[i], "Weight").value.num IN IF w = {} THEN 0 ELSE CHOOSE x \in w : TRUE
  IN  [thresholds |-> IF \E t \in thresholds : Len(t) = 4 THEN CHOOSE t \in thresholds : TRUE ELSE <<0, 0, 0, 0>>,
       weights |-> [i \in DOMAIN signers |-> weight(i)]]
HasAccount(n) == n.type = "AccountEntry" \/ HasChild(n, "Thresholds")
=============================================================================
