------------------------------ MODULE MCValueDiff ------------------------------
(***************************************************************************)
(* The families of values on which ValueDiff is checked, each with the     *)
(* options that concern it.                                                *)
(***************************************************************************)
EXTENDS ValueDiff

Tree(children) == Decoded("Tree", Struct("", "Tree", children))
Bytes(text, hex, base64) == [Text(text) EXCEPT !.hex = hex, !.base64 = base64]
Opt(scalars) == {<< >>} \cup {<<s>> : s \in scalars}

\* Fields that are there or not, in two notations, with lists and structs.
Hex == Bytes("0a01", {<<10, 1>>}, {})
Base64 == Bytes("CgE=", {}, {<<10, 1>>})
As == {Scalar("A", "t", Hex), Scalar("A", "t", Base64), List("A", "t", <<Scalar("", "t", Number(10)), Scalar("", "t", Number(1))>>),
       Scalar("A", "t", Text("x")), [Scalar("A", "t", Text("x")) EXCEPT !.note = "noted"]}
Elements(names) == [i \in DOMAIN names |-> Scalar("", "t", Number(names[i]))]
Ls == {List("L", "", Elements(e)) : e \in {<< >>, <<1>>, <<1, 2>>, <<2, 4>>, <<2, 1, 3>>}}
Ss == {Struct("S", "s", a \o b) : a \in Opt({Scalar("A", "t", Text("x")), Scalar("A", "t", Text("y"))}),
                                  b \in Opt({Scalar("B", "t", Number(1))})}
Trees == {Tree(a \o <<l>>) : a \in Opt(As), l \in Ls}
Structs == {Tree(s \o l) : s \in Opt(Ss), l \in Opt({List("L", "", Elements(<<1, 3>>))})}
Masks == {{<<Field("S")>>}, {<<AnyPath, Field("A")>>}, {<<AnySegment, Index(0)>>}, {<<Field("S"), Field("B")>>, <<Field("A")>>}}
Family(values, opts) == [values |-> values, options |-> opts]
Masking(masks) == {[NoOptions EXCEPT !.mask = [includes |-> m, excludes |-> {}]] : m \in masks}
Filtering == {[NoOptions EXCEPT !.filter = [includes |-> {<<Field("S")>>}, excludes |-> {<<AnyPath, Field("B")>>}]],
              [NoOptions EXCEPT !.maskPaths = {<<Field("L")>>}]}

Generic == {Family(Trees, {NoOptions}), Family(Structs, {NoOptions} \cup Masking(Masks) \cup Filtering),
            Family({Tree(<<l>>) : l \in Ls}, {[NoOptions EXCEPT !.threshold = 1]})}

\* Lists by themselves, aligned.
Lists == {Decoded("List", List("", "", Elements(e))) : e \in BoundedSeq({1, 2}, 3) \cup {<<1, 2, 1, 3>>, <<3, 1, 2, 1>>, <<2, 3, 1, 1>>}}
AlignedLists == {Family(Lists, {[NoOptions EXCEPT !.align = TRUE]})}

\* Transactions.
Operation(type, field) == Struct("", "Operation", <<Struct("Body", "body", <<Scalar("Type", "t", Text(type)), field>>)>>)
Transaction(ops) == Tree(<<List("Operations", "", ops)>>)
Payment == Operation("payment", Scalar("Amount", "t", Number(1)))
Larger == Operation("payment", Scalar("Amount", "t", Number(3)))
Merge == Operation("merge", Scalar("Destination", "AccountId", Text("g")))
Create == Operation("create", Scalar("Starting", "t", Number(1)))
Transactions == {Transaction(ops) : ops \in BoundedSeq({Payment, Larger, Merge, Create}, 3)}
Few == {Transaction(ops) : ops \in {<<Payment, Merge>>, <<Merge, Payment>>, <<Larger, Merge, Payment>>}}
OperationLists == {Family(Transactions, {NoOptions}), Family(Few, Masking({{<<Field("Operations"), Index(0)>>}}))}

\* Event logs.
Event(contract, topics, data) ==
  Struct("", "ContractEvent",
         <<Scalar("ContractId", "ContractId", Text(contract)),
           Struct("Body", "b", <<Struct("V0", "v", <<List("Topics", "", [i \in DOMAIN topics |-> Struct("", "ScVal", <<Scalar("Sym", "t", Text(topics[i]))>>)]),
                                                     Scalar("Data", "t", Number(data))>>)>>)>>)
Events == {Event("c", <<"transfer", "a">>, 1), Event("c", <<"transfer", "b">>, 1), Event("c", <<"transfer", "a">>, 2),
           Event("d", <<"mint">>, 1), Event("d", << >>, 1), Event("d", << >>, 2)}
Log(events) == Decoded("Events", List("Events", "", events))
Logs == {Log(e) : e \in BoundedSeq(Events, 2) \cup {<<Event("d", << >>, 1), Event("c", <<"transfer", "b">>, 1), Event("c", <<"transfer", "a">>, 2)>>}}
EventLogs == {Family(Logs, {NoOptions})}

\* Accounts.
Signer(key, weight) ==
  Struct("", "Signer", <<[Scalar("Key", "SignerKey", Text(key)) EXCEPT !.note = "key"], Scalar("Weight", "Uint32", Number(weight))>>)
Account(t, signers) ==
  Struct("", "AccountEntry", <<Scalar("Thresholds", "Thresholds", Bytes(ToString(t), {t}, {})), List("Signers", "", signers)>>)
Signers == {Signer("g", 1), Signer("g", 2), Signer("h", 3), Signer("k", 6)}
Accounts == {Tree(<< >>)} \cup {Decoded("AccountEntry", Account(t, s)) : t \in {<<1, 0, 2, 4>>}, s \in BoundedSeq(Signers, 2)}
            \cup {Decoded("AccountEntry", Account(<<0, 0, 2, 4>>, s)) : s \in {<< >>, <<Signer("g", 1), Signer("g", 2)>>}}
            \cup {[Decoded("AccountEntry", Account(<<1, 0, 0, 0>>, << >>)) EXCEPT !.raw = FALSE]}
            \cup {Decoded("AccountEntry", Account(<<1, 0, 2, 4>>, s)) :
                    s \in {<<Signer("g", 1), Signer("h", 3), Signer("g", 1)>>, <<Signer("h", 3), Signer("g", 1), Signer("h", 3)>>}}
            \cup {Decoded("AccountEntry", Account(<<2, 0, 2, 4>>, <<Signer("k", 6)>>))}
Unordered == [NoOptions EXCEPT !.unordered = TRUE]
AccountPairs == {Family(Accounts, {NoOptions, Unordered, [NoOptions EXCEPT !.filter = [includes |-> {<<Field("Signers")>>}, excludes |-> {}]]}
                                     \cup Masking({{<<Field("Thresholds")>>, <<Field("Signers")>>}}))}

\* Memos and ledger entries.
Sym(text) == ScVal("Sym", text, << >>, << >>, << >>)
Memo(arm, value) == Decoded("Memo", Struct("", "Memo", <<Scalar("Type", "MemoType", Text("Memo" \o arm)), Scalar(arm, "t", value)>>))
Memos == {Memo("Text", [Text("7") EXCEPT !.num = {7}]), Memo("Text", [Text("07") EXCEPT !.num = {7}]), Memo("Text", Text("seven")),
          Memo("Id", Number(7)), Memo("Id", Number(8)), Memo("Id", Number(9)), Memo("Text", [Text("8") EXCEPT !.num = {8}]), Memo("Hash", Bytes("0707", {<<7, 7>>}, {})),
          Decoded("Memo", Struct("", "Memo", <<Scalar("Type", "MemoType", Text("MemoNone"))>>))}
Entry(type, arm, fields) ==
  Decoded("LedgerEntry", Struct("", "LedgerEntry",
    <<Scalar("Seq", "Uint32", Number(1)), Struct("Data", "d", <<Scalar("Type", "t", Text(type)), Struct(arm, arm, fields)>>)>>))
Entries ==
  {Entry("Account", "Account", <<Scalar("AccountId", "AccountId", Text(id)), Scalar("Thresholds", "Thresholds", Bytes(ToString(<<w, 0, 1, 2>>), {<<w, 0, 1, 2>>}, {}))>>) :
     id \in {"g", "h"}, w \in {1, 2}}
  \cup {Entry("Trustline", "TrustLine", <<Scalar("AccountId", "AccountId", Text("g"))>>),
        Entry("TTL", "TTL", <<Scalar("KeyHash", "Hash", Text("k"))>>)}
  \cup {Entry("Offer", "Offer", <<Scalar("SellerID", "AccountId", Text("g")), Scalar("OfferID", "Int64", Number(id))>>) : id \in {1, 2}}
  \cup {Entry("ContractData", "ContractData", <<Scalar("Contract", "ScAddress", Text("c")), ScValNode("Key", k, FALSE)>>) :
          k \in {Sym("a"), ScVal("Vec", "", << >>, <<Sym("a")>>, << >>)}}
Special == {Family(Memos, {NoOptions}), Family(Entries, {NoOptions})}

\* Soroban values.
Wide(type) == {ScVal(type, "", l, << >>, << >>) : l \in [1..2 -> 0..(LimbBase - 1)]}
Void == ScVal("Void", "", << >>, << >>, << >>)
KeyVal(k, v) == [key |-> Sym(k), val |-> v]
Maps == {ScVal("Map", "", << >>, << >>, e) :
           e \in {<< >>, <<KeyVal("a", Void)>>, <<KeyVal("a", Void), KeyVal("b", Void)>>, <<KeyVal("b", Void), KeyVal("a", Void)>>,
                  <<KeyVal("b", Sym("z")), KeyVal("a", Void)>>}}
Vectors == {ScVal("Vec", "", << >>, i, << >>) : i \in {<<Void>>, <<Sym("a"), Void>>, <<Void, Sym("a")>>}}
           \cup {ScVal("Vec", Absent, << >>, << >>, << >>), ScVal("Map", "", << >>, << >>, <<KeyVal("a", ScVal("Map", Absent, << >>, << >>, << >>))>>)}
ScVals(vs) == {DecodedScVal(v) : v \in vs}
Semantic == [NoOptions EXCEPT !.semantic = TRUE]
SorobanValues == {Family(ScVals(Wide("U128")), {Semantic}), Family(ScVals(Wide("I128")), {Semantic}),
                  Family(ScVals(Maps \cup Vectors), {Semantic, NoOptions}),
                  Family(ScVals({ScVal("I256", "", l, << >>, << >>) : l \in [1..4 -> {0, LimbBase - 1}]}), {Semantic})}

\* Values to redact.
Secret(h, s, f, p) ==
  Tree(<<Scalar("Tx", "Hash", Text(h)), Scalar("Hint", "", Text(s)), Scalar("Pool", "PoolId", Text(p)), Scalar("Fee", "Uint32", Number(f)),
         List("Signatures", "", <<Struct("", "DecoratedSignature", <<Scalar("Hint", "SignatureHint", Text(s)), Scalar("Weight", "u", Number(f + 1))>>)>>)>>)
SecretValues == {Secret(h, s, f, p) : h \in {"h1", "h2"}, s \in {"s1", "s2"}, f \in {100, 200}, p \in {"p1", "p2"}}
Policies == {PolicyFromNames(n) : n \in {{"hashes"}, {"sigs"}, {"all"}, {"ids", "hash"}}}
            \cup {[NoRedaction EXCEPT !.fields = {f}] : f \in {"Fee", "Hint", "Signatures"}}
Redactions == {Family(SecretValues, {[NoOptions EXCEPT !.redaction = p, !.unordered = (p.fields = {})] : p \in Policies})}

MCFamilies ==
  Generic \cup AlignedLists \cup OperationLists \cup EventLogs \cup AccountPairs \cup Special \cup SorobanValues \cup Redactions
=============================================================================
