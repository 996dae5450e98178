------------------------------- MODULE MCAnalyses -------------------------------
(***************************************************************************)
(* The inputs on which Analyses is checked.                                *)
(***************************************************************************)
EXTENDS Analyses

\* Transactions of up to two operations and results of up to two, plain and
\* wrapped, and those that failed before any operation ran.
Succeeds(type) == OperationResult("opInner", type, "success")
Results == {Succeeds("payment"), Succeeds("invokeHostFunction"), OperationResult("opInner", "payment", "underfunded"),
            OperationResult("opInner", "invokeHostFunction", "resourceLimitExceeded"), OperationResult("opBadAuth", "", "")}
Bare == {TransactionResult(code, results, {}) : code \in {"txSuccess", "txFailed"}, results \in BoundedSeq(Results, 2)}
Refused == {TransactionResult(code, << >>, {}) : code \in {"txBadSeq", "txSorobanInvalid", "txBadSponsorship"}}
Wrapped2(res) == TransactionResult(IF res.code = "txSuccess" THEN "txFeeBumpInnerSuccess" ELSE "txFeeBumpInnerFailed", << >>, {res})
OnResult(ops, results) == [kind : {"result"}, ops : ops, result : results]
Transactions == OnResult(BoundedSeq({"payment", "invokeHostFunction"}, 2), Bare \cup Refused \cup {Wrapped2(r) : r \in Bare \cup Refused})

\* Sponsorships, refused as a whole or one by one.
NotSponsored(type) == OperationResult("opInner", type, "malformed")
Sponsorships ==
  OnResult(BoundedSeq({"beginSponsoring", "endSponsoring", "payment"}, 4),
           {TransactionResult("txBadSponsorship", << >>, {}),
            TransactionResult("txFailed", <<Succeeds("beginSponsoring"), NotSponsored("endSponsoring")>>, {}),
            Wrapped2(TransactionResult("txFailed", <<NotSponsored("beginSponsoring")>>, {}))})

\* Accounts with and without the extensions, and with keys that share a hint.
Ext(selling, counts) == {[selling |-> selling, counts |-> counts]}
Counts(sponsoring, sponsored) == {[sponsoring |-> sponsoring, sponsored |-> sponsored]}
Exts == {{}, Ext(0, {}), Ext(3, {}), Ext(3, Counts(2, 1)), Ext(0, Counts(0, 3)), Ext(1, Counts(0, 4))}
Funded ==
  [balance : {0, 6, 12}, subEntries : {0, 1}, ext : Exts,
   thresholds : {<<1, 0, 1, 2>>}, weights : {<<1>>}, masterHint : {"m"}, hints : {<<"a">>}]
Signing ==
  {a \in [balance : {6}, subEntries : {0}, ext : {{}}, thresholds : {<<0, 1, 2, 3>>, <<1, 0, 2, 4>>, <<2, 1, 3, 6>>},
          weights : {<< >>, <<1>>, <<1, 2>>, <<2, 1>>, <<1, 3>>}, masterHint : {"m"}, hints : {<< >>, <<"a">>, <<"m">>, <<"a", "a">>, <<"m", "a">>}] :
     Len(a.weights) = Len(a.hints)}
Minus == -1
Spends == [kind : {"account"}, account : Funded, baseReserve : {0, 1, 2}, amount : {Minus, 0, 1, 2, 5}, ops : {<< >>}, signatures : {<< >>}]
Signed ==
  [kind : {"account"}, account : Signing, baseReserve : {0}, amount : {1},
   ops : {<< >>, <<"payment">>, <<"bumpSequence", "accountMerge">>, <<"setOptions">>}, signatures : BoundedSeq({"m", "a", "x"}, 3)]

\* Preconditions around the reference ledger, which is the third and closes at 5,
\* and times beyond the signed ones.
Bounds(mins, maxs) == {{}} \cup {{[min |-> min, max |-> max]} : min \in mins, max \in maxs}
Preconditions == [kind : {"time"}, timeBounds : Bounds({0, 2, 6, 20}, {0, 4, 7, 16, 20}), ledgerBounds : Bounds({0, 2, 3, 4}, {0, 1, 3, 5}), now : {0}]

\* Predicates, of which some could not be stored, and chains of negations.
Leaf(type, time) == Predicate(type, time, << >>)
Leaves == {Leaf("unconditional", 0), Leaf("absolute", 2), Leaf("absolute", Minus), Leaf("relative", 1), Leaf("relative", 3), Leaf("relative", Minus)}
Not(p) == Predicate("not", 0, <<p>>)
Inner == Leaves \cup {Not(p) : p \in Leaves} \cup {Predicate("not", 0, << >>), Predicate("or", 0, << >>)}
Pairs == {Predicate(type, 0, <<p, q>>) : type \in {"and", "or"}, p \in Inner, q \in Leaves}
Chain[n \in 0..4] == IF n = 0 THEN Leaf("absolute", 2) ELSE Not(Chain[n - 1])
Claimants(destination, predicates) == {<<[destination |-> destination, predicate |-> p]>> : p \in predicates}
OneClaimant == Claimants("a", Inner \cup Pairs \cup {Not(p) : p \in Pairs} \cup {Chain[n] : n \in 0..4})
Claims ==
  [kind : {"claim"}, amount : {1}, now : 0..4, created : {1}, claimants : OneClaimant]
    \cup [kind : {"claim"}, amount : {Minus, 0, 2}, now : {Minus, 1}, created : {0, 2},
          claimants : {<< >>} \cup {x \o y : x \in Claimants("a", Leaves), y \in Claimants("a", Leaves) \cup Claimants("b", Leaves)}]

\* Simulation responses.
Counters == [used : {0, 2}, limit : {0, 1, 2}]
Words == {{w} : w \in {"footprint", "cpu", "limit", "memory", "fee", "archived", "auth", "trapped", "invalid"}}
           \cup {{}, {"cpu", "memory"}, {"limit", "memory"}, {"fee", "auth"}, {"footprint", "invalid"}}
Simulations == [kind : {"simulation"}, error : {{}} \cup {{w} : w \in Words}, missingKeys : {{}, {"k"}}, cpu : Counters, memory : Counters]

\* Envelopes with and without a footprint.
Halves == {<< >>, <<"k">>, <<"k", "l">>, <<"l", "k", "l">>}
Prints == [readOnly : Halves, readWrite : Halves]
Envelopes ==
  {[type |-> "Tx", footprint |-> {p}, inner |-> {}] : p \in Prints} \cup {[type |-> "TxV0", footprint |-> {}, inner |-> {}]}
    \cup {[type |-> "TxFeeBump", footprint |-> {}, inner |-> {[readOnly |-> <<"l">>, readWrite |-> <<"k", "k">>]}]}
FootprintPairs == [kind : {"footprints"}, left : Envelopes, right : Envelopes]

\* Soroban values.
Symbol(text) == ScVal("Sym", text, << >>, << >>, << >>)
Wide(hi, lo) == ScVal("I128", "", <<hi, lo>>, << >>, << >>)
Entry(key, val) == [key |-> key, val |-> val]
Map(entries) == ScVal("Map", "", << >>, << >>, entries)
Vec(items) == ScVal("Vec", "", << >>, items, << >>)
Values == {Symbol("a"), Symbol("b"), Wide(0, 1), Wide(3, 1), Vec(<<Symbol("a")>>), Vec(<<Symbol("b"), Symbol("a")>>), Vec(<<Symbol("a"), Symbol("b")>>)}
Maps ==
  {Map(<<Entry(Symbol("a"), v)>>) : v \in Values}
    \cup {Map(<<Entry(Symbol("a"), v), Entry(Symbol("b"), w)>>) : v, w \in {Symbol("a"), Wide(0, 1)}}
    \cup {Map(<<Entry(Symbol("b"), v), Entry(Symbol("a"), w)>>) : v, w \in {Symbol("a"), Wide(0, 1)}}
KeyedByVectors == {Map(<<Entry(Vec(<<Symbol(k)>>), v)>>) : k \in {"a", "b"}, v \in {Symbol("a"), Wide(0, 1)}}
Nested == {Vec(<<m>>) : m \in Maps} \cup KeyedByVectors \cup {ScVal("Map", Absent, << >>, << >>, << >>), Vec(<<ScVal("Vec", Absent, << >>, << >>, << >>)>>)}
ScVals == [kind : {"scval"}, left : Values \cup Maps \cup Nested, right : Values \cup Maps \cup Nested]

\* Trees with accounts and operations in several places.
Account(name, text) == Scalar(name, "AccountId", Text(text))
Operation(type, account) ==
  Struct("", "Operation", <<Account("SourceAccount", account), Struct("Body", "OperationBody", <<Scalar("Type", "OperationType", Text(type))>>)>>)
Operations == {Operation(type, account) : type \in {"OperationTypePayment", "OperationTypeManageData"}, account \in {"G1", "G2"}}
MCSnakeOf == ("OperationTypePayment" :> "payment") @@ ("OperationTypeManageData" :> "manage_data")
Noted == [Scalar("Payer", "MuxedAccount", Text("M1")) EXCEPT !.note = "G1"]
Trees ==
  {Struct("", "Tx", extra \o <<List("Operations", "", ops)>>) :
     extra \in {<< >>, <<Noted>>, <<Scalar("Fee", "Uint32", Number(1)), List("Signatures", "", <<Account("", "G2")>>)>>,
                <<Struct("Inner", "Tx", <<List("Operations", "Operation", <<Operation("OperationTypePayment", "G1")>>)>>),
                  Operation("OperationTypeManageData", "G2")>>},
     ops \in BoundedSeq(Operations, 2)}
Filters == [kind : {"filter"}, tree : Trees, account : {"", "G1", "M1"}, type : {"", "payment", "bump_sequence"}]

MCRequests == <<Transactions, Sponsorships, Spends, Signed, Preconditions, Claims, Simulations, FootprintPairs, ScVals, Filters>>
=============================================================================
