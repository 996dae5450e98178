------------------------------ MODULE MCJsonEncoding ------------------------------
(***************************************************************************)
(* The documents, templates and values on which JsonEncoding is checked.   *)
(***************************************************************************)
EXTENDS JsonEncoding

MCDenominators == <<1, 2>>
MCCallers == 1..2
MCLowerCase == ("U32" :> "u32" @@ "Bool" :> "bool" @@ "True" :> "true" @@ "Payment" :> "payment" @@ "V0" :> "v0" @@ "Text" :> "text")
MCFieldOrder ==
  <<"Type", "U32", "a", "account", "address", "amount", "args", "asset", "asset_a", "asset_b", "b", "bump_to", "buy_amount",
    "buying", "code", "contract_id", "d", "data_name", "data_value", "denominator", "destination", "entries", "error",
    "extraSigners", "extra_signers", "fee", "feeBump", "feeSource", "fee_bump", "fee_source", "function", "function_name", "hi", "hint", "i128", "id",
    "inner_tx", "issuer", "key", "ledgerBounds", "ledger_bounds", "limit", "lo", "max", "maxTime", "max_fee", "memo", "min", "minTime", "min_seq_age",
    "min_seq_ledger_gap", "min_seq_num", "n", "numerator", "offer_id", "operations", "payload", "poolId", "pool_id", "price",
    "read_only", "resource_fee", "selling", "seqNum", "sequance", "sequence", "sequenceNumber", "signature", "signatures", "soroban_data",
    "source", "sourceAccount", "source_account", "starting_balance", "timeBounds", "time_bounds", "type", "u128", "u32",
    "val", "value">>

Job(entry, type, input) == [entry |-> entry, type |-> type, input |-> input, xdr |-> {}, enum |-> Enum(<< >>, << >>)]
Jobs(entry, type, inputs) == {Job(entry, type, v) : v \in inputs}

\* Numbers in every notation.
IntText(n) == [JText("digits") EXCEPT !.int = {n}, !.real = {n * RealScale}, !.bytes = <<n>>]
Decimal(r) == [JText("decimal") EXCEPT !.real = {r}, !.dot = TRUE]
InUnit(v, unit) == [v EXCEPT !.unit = unit]
Numbers == {JNumber(n) : n \in {-40, -1, 0, 1, 8, 9, 31, 32, 33, 63, 64}} \cup {IntText(n) : n \in {-1, 0, 7, 16, 33, 64}}
Reals == {JReal("float", r) : r \in {0, 1, 5, 19, 20, 30, 43, 160, 620, 640}} \cup {Decimal(r) : r \in {0, 1, 2, 4, 20, 30, 62, 640}}
Amounts == Numbers \cup Reals \cup {InUnit(IntText(n), "stroops") : n \in {5}} \cup {InUnit(Decimal(30), "xlm"), InUnit(IntText(3), "xlm")}
Fraction(n, d) == [Parted("/", <<IntText(n), IntText(d)>>) EXCEPT !.text = "fraction"]
NumberAndDenominator(n, d) == JObject([n |-> JNumber(n), d |-> IntText(d)])
Prices == Numbers \cup Reals \cup {Fraction(n, d) : n \in {-1, 0, 3, 8}, d \in {0, 1, 7, 8}}
          \cup {NumberAndDenominator(n, d) : n \in {1, 9}, d \in {0, 2}} \cup {JObject([numerator |-> JNumber(1), denominator |-> JNumber(3)])}

\* Accounts, assets and bytes.
KeyA == <<1, 2, 3, 4>>
KeyB == <<5, 6, 7, 8>>
GA == [KeyText("G", KeyA) EXCEPT !.text = "GA", !.bytes = <<1>>]
GB == [KeyText("G", KeyB) EXCEPT !.text = "GB", !.bytes = <<2>>]
CA == [KeyText("C", KeyA) EXCEPT !.text = "CA", !.bytes = <<3>>]
MA == [KeyText("M", << >>) EXCEPT !.text = "MA", !.key = {}, !.muxed = {Muxed(KeyA, 7)}]
Bad == [JText("bad") EXCEPT !.bytes = <<9>>]
Hex(bytes) == [JText("hex") EXCEPT !.hex = {bytes}, !.bytes = HexCodes(bytes)]
Accounts == {GA, MA, Bad, Hex(KeyA), Null, JObject([account |-> GA]), JObject([address |-> GA, id |-> JNumber(7)]),
             JObject([account |-> GA, id |-> JNumber(-1)])}
Native1 == JText("native")
Credit == Parted(":", <<TextOf(<<48, 49>>), GA>>)
Assets == {Native1, Credit, Bad, JObject([code |-> TextOf(<<48, 48, 48, 48, 48>>), issuer |-> GA]), JObject([code |-> JText("xlm")])}
Lines == Assets \cup {JObject([type |-> JText("pool"), asset_a |-> Native1, asset_b |-> Credit]),
                      JObject([type |-> JText("pool"), asset_a |-> Native1, asset_b |-> Credit, fee |-> JNumber(3)]),
                      JObject([type |-> JText("pool"), pool_id |-> Hex(KeyA)]), JObject([type |-> JText("pool"), poolId |-> Bad])}
ByteTexts == {Hex(<<10>>), Base64Text(<<10>>), Bad, [JText("0x") EXCEPT !.prefix = "0x", !.prefixed = {<<1>>}],
              [JText("both") EXCEPT !.hex = {<<1>>}, !.base64 = {<<2>>}], JText(""), Null, JBool(TRUE),
              JArray(<<JNumber(1), JNumber(15)>>), JArray(<<JNumber(1), JNumber(-1)>>)}
Coercions ==
  <<Jobs("coerce", "amount", Amounts), Jobs("coerce", "price", Prices), Jobs("coerce", "int64", Numbers \cup Reals),
    Jobs("coerce", "uint32", Numbers \cup Reals), Jobs("coerce", "account", Accounts), Jobs("coerce", "line", Lines),
    Jobs("coerce", "bytes", ByteTexts)>>

\* Soroban literals.
Wide == {-4097, -4096, -2049, -2048, -65, -64, -1, 0, 1, 63, 64, 65, 2047, 2048, 4095, 4096}
Tag(tag, payload) == JObject([f \in {tag} |-> payload])
Tagged(tag, payload) == JObject([type |-> JText(tag), value |-> payload])
Symbol == [JText("sym") EXCEPT !.bytes = <<48>>]
Literals ==
  {Tag(tag, JNumber(n)) : tag \in {"u128", "i128", "u256", "i256"}, n \in Wide}
  \cup {Tag("i128", JObject([hi |-> JNumber(-1), lo |-> JNumber(63)])), JObject([u128 |-> Null, hi |-> JNumber(1), lo |-> JNumber(2)])}
  \cup {Tag("u32", JNumber(n)) : n \in {-1, 15, 16}} \cup {Tagged(tag, JNumber(5)) : tag \in {"u32", "timepoint", "nonsense"}}
  \cup {Tagged("bool", JBool(TRUE)), Tagged("Bool", JText("t")), Tagged("bool", JText("N")), Tagged("void", Null), Tagged("bytes", Hex(<<1>>)), Tagged("string", Symbol), Tagged("symbol", Symbol),
        Tagged("vec", JArray(<<JNumber(1)>>)), Tagged("address", GA), Tagged("address", Null), Tagged("contract_instance", Null),
        Tagged("map", JObject([b |-> Symbol, a |-> Null])), JObject([type |-> JText("error"), code |-> JNumber(3)])}
  \cup {JObject([b |-> JNumber(1), a |-> JObject([u32 |-> JNumber(2), lo |-> Null])]), JObject([payload |-> Symbol]),
        JObject([U32 |-> JNumber(1)]), JObject([a |-> JArray(<<Symbol, Null, JBool(FALSE)>>)]),
        JObject([entries |-> JArray(<<JObject([key |-> Symbol, val |-> JNumber(1)])>>)]),
        JObject([entries |-> JArray(<<JObject([key |-> Symbol])>>)]), Tagged("map", JArray(<<JObject([key |-> Symbol, value |-> CA])>>))}
Scalars == {JText("instance storage key"), Symbol, GA, JBool(TRUE), Null, JNumber(40), JArray(<<JNumber(1), GA>>)}
Documents == {JObject([type |-> JText("ScVal"), value |-> JObject([Type |-> JNumber(3), U32 |-> JNumber(5)])]),
              JObject([type |-> JText("ScVal"), value |-> JObject([Type |-> JNumber(3)])]),
              JObject([type |-> JText("ScVal"), value |-> JText("instance storage key")]), JObject([value |-> JNumber(1)]),
              JObject([type |-> JText("Other"), value |-> Null]), JObject([type |-> JText("ScVal"), Type |-> JNumber(1)])}
LiteralJobs == <<Jobs("document", "", Literals \cup Documents), Jobs("typed", "ScVal", Scalars \cup Literals),
    Jobs("strict", "ScVal", Scalars \cup Literals)>>

\* Templates.
Over(base, fields) == JObject([f \in DOMAIN base.fields \cup DOMAIN fields |-> IF f \in DOMAIN fields THEN fields[f] ELSE base.fields[f]])
Without(base, names) == JObject([f \in DOMAIN base.fields \ names |-> base.fields[f]])
Payment == JObject([type |-> JText("payment"), destination |-> GB, amount |-> IntText(5)])
Base == JObject([source_account |-> GA, fee |-> JNumber(7), sequence |-> IntText(9), operations |-> JArray(<<Payment>>)])
Bounds2(low, high) == JObject([min |-> low, max |-> high])
Sequences == {Over(Without(Base, {"sequence"}), s) : s \in
  {<< >>, [seqNum |-> JNumber(17)], [sequenceNumber |-> JNumber(19)], [sequence |-> JNumber(17)], [sequence |-> JNumber(16)],
   [sequence |-> JNumber(-1)], [sequence |-> Null, seqNum |-> IntText(17), sequenceNumber |-> JNumber(3)], [seqNum |-> Null], [sequence |-> JNumber(1), seqNum |-> JNumber(2)],
   [sequence |-> JNumber(-1), seqNum |-> JNumber(2)], [sequence |-> JNumber(31)], [seqNum |-> JNumber(31)], [sequence |-> IntText(31)]}}
Times == {<< >>, [time_bounds |-> Bounds2(IntText(1), JNumber(8))], [time_bounds |-> Bounds2(JNumber(-1), JNumber(3))], [timeBounds |-> Bounds2(JNumber(1), JNumber(2))],
          [time_bounds |-> JObject([max |-> JNumber(8)])], [time_bounds |-> JObject([minTime |-> JNumber(1), maxTime |-> JNumber(2)])]}
Seqs == {<< >>, [min_seq_num |-> IntText(9)], [min_seq_num |-> JNumber(-1)], [min_seq_age |-> IntText(4)], [min_seq_ledger_gap |-> JNumber(16)], [extra_signers |-> JArray(<<GB, Bad>>)]}
Ledgers == {<< >>, [ledger_bounds |-> Bounds2(JNumber(1), IntText(8))], [ledger_bounds |-> Bounds2(JNumber(1), Bad)], [ledger_bounds |-> Bounds2(JNumber(1), JNumber(16))]}
Types == {<< >>, [type |-> JText("v0")], [type |-> JText("v1")]}
ConditionTemplates == {Over(Over(Over(Over(Base, t), s), l), k) : t \in Times, s \in Seqs, l \in Ledgers, k \in Types}
Ops2 == {Payment, Over(Payment, [amount |-> JNumber(3), source_account |-> GA]), Over(Payment, [destination |-> Bad]), Over(Payment, [asset |-> Bad]),
         Over(Payment, [type |-> JText("Payment")]), Over(Payment, [inflation_dest |-> JNumber(1)]), Null, Bad,
         JObject([type |-> JText("account_merge"), destination |-> MA]), JObject([type |-> JText("set_options")]),
         JObject([type |-> JText("bump_sequence"), bump_to |-> IntText(9)]), JObject([type |-> JText("change_trust"), asset |-> Credit, limit |-> Bad]),
         JObject([type |-> JText("create_account"), destination |-> GB, starting_balance |-> Decimal(30)]),
         JObject([type |-> JText("manage_data"), data_name |-> Symbol, data_value |-> Hex(<<1>>)]),
         JObject([type |-> JText("manage_sell_offer"), selling |-> Native1, buying |-> Credit, amount |-> IntText(1), price |-> Fraction(1, 2)]),
         JObject([type |-> JText("manage_buy_offer"), selling |-> Native1, buying |-> Credit, buy_amount |-> IntText(1), price |-> Decimal(30), offer_id |-> IntText(3)]),
         JObject([type |-> JText("invoke_host_function"), contract_id |-> CA, function_name |-> Symbol, args |-> JArray(<<Symbol, GA>>)]),
         JObject([type |-> JText("invoke_host_function"), contract_id |-> CA, args |-> JArray(<<JNumber(1)>>)]),
         JObject([type |-> JText("invoke_host_function"), contract_id |-> Bad]),
         JObject([type |-> JText("invoke_host_function"), function |-> JText("upload_wasm")])}
OpLists == {<< >>} \cup {<<o>> : o \in Ops2} \cup {<<Payment, o>> : o \in Ops2} \cup {<<o, JObject([type |-> JText("set_options")])>> : o \in Ops2}
OpTemplates == {Over(Base, [operations |-> JArray(o)]) : o \in OpLists}
Memos == {Over(Base, [memo |-> m]) : m \in {JText(""), JText("none"), Symbol, JNumber(3), JBool(TRUE)} \cup
           {JObject([type |-> JText(t), value |-> v]) : t \in {"none", "text", "id", "hash", "return", "odd"}, v \in {Hex(KeyA), JNumber(3), IntText(9)}}}
SignedBy(n) == JArray([i \in 1..n |-> JObject([hint |-> Hex(KeyB), signature |-> Hex(<<i>>)])])
BadSignature == JArray(<<JObject([hint |-> Bad, signature |-> JText("")])>>)
Bump(fields) == JObject([f \in DOMAIN fields \cup {"fee_source", "max_fee"} |-> IF f = "fee_source" THEN GB ELSE IF f = "max_fee" THEN JNumber(4) ELSE fields[f]])
BumpTemplates ==
  {Over(Over(Base, s), [fee_bump |-> Bump(i)]) : s \in {<< >>, [signatures |-> SignedBy(1)], [signatures |-> BadSignature]},
     i \in {<< >>, [inner_tx |-> Base], [inner_tx |-> Over(Base, [signatures |-> SignedBy(2)])]}}
  \cup {Over(Base, [type |-> JText("fee_bump")]), Over(Base, [fee_bump |-> JText("x")]), Over(Base, [source_account |-> Null, sourceAccount |-> GB]),
        Over(Without(Base, {"source_account"}), [source |-> GA]), Over(Base, [signatures |-> SignedBy(2)]), Over(Base, [soroban_data |-> JObject([resource_fee |-> IntText(9)])])}
Templates == <<Sequences, ConditionTemplates, OpTemplates, Memos, BumpTemplates>>
StrictOnly == {Over(Base, f) : f \in {[sequance |-> JNumber(1)], [fee |-> JNumber(-1)], [fee |-> Bad], [seqNum |-> JNumber(-1)],
                                      [fee_bump |-> JObject([feeSource |-> GA])], [type |-> JText("v9")], [operations |-> JArray(<<JObject([type |-> JText("payment")])>>)],
                                      [fee |-> JNumber(15)], [fee |-> JNumber(16)], [type |-> JText("V0")], [source_account |-> MA], [source_account |-> MA, type |-> JText("v0")],
                                      [source_account |-> Bad, source |-> GA], [source_account |-> Bad], [extraSigners |-> JArray(<<GB>>)], [ledgerBounds |-> Bounds2(JNumber(1), JNumber(2))],
                                      [feeBump |-> Bump(<< >>)], [fee_bump |-> JObject([feeSource |-> GA, max_fee |-> JNumber(3)])],
                                      [signatures |-> JArray(<<Null, JObject([signature |-> Bad, hint |-> JNumber(1)])>>)],
                                      [signatures |-> JArray(<<Null>>)], [soroban_data |-> JObject([read_only |-> JArray(<<JNumber(1)>>)])]}}
TemplateJobs == [i \in 1..10 |-> IF i <= 5 THEN Jobs("typed", "TransactionEnvelope", Templates[i]) ELSE Jobs("strict", "TransactionEnvelope", Templates[i - 5])]
                \o <<Jobs("strict", "TransactionEnvelope", StrictOnly), Jobs("document", "", Sequences)>>

-----------------------------------------------------------------------------
\* Types and their values.
Durability == Enum(<<"d">>, <<Constant("DTemporary", <<"d", "temporary">>, 0, <<"temporary">>), Constant("DPersistent", <<"d", "persistent">>, 1, <<"persistent">>)>>)
Message == Enum(<<"m">>, <<Constant("MGetTxSet", <<"m", "get", "tx", "set">>, 6, << >>), Constant("MGeneralizedTxSet", <<"m", "generalized", "tx", "set">>, 17, <<"set">>),
                           Constant("MTxSet", <<"m", "tx", "set">>, 7, << >>), Constant("MHello", <<"m", "hello">>, 13, <<"tx", "greeting">>)>>)
ScType == Enum(<<"scv">>, <<Constant("ScvBool", <<"scv", "bool">>, 0, << >>), Constant("ScvVoid", <<"scv", "void">>, 1, << >>),
                            Constant("ScvU32", <<"scv", "u32">>, 3, << >>), Constant("ScvInstance", <<"scv", "instance">>, 5, << >>),
                            Constant("ScvNonce", <<"scv", "nonce">>, 6, << >>)>>)
U32 == IntType(0, MaxUint32)
I64 == IntType(MinInt64, MaxInt64)
ScArms == (0 :> "B" @@ 1 :> "" @@ 3 :> "U32" @@ 5 :> "Instance" @@ 6 :> "NonceKey")
ScValType == UnionType(ScType, [B |-> IntType(0, 1), U32 |-> U32, NonceKey |-> I64], ScArms)
Footprint == Deriving(StructType([ReadOnly |-> ListType(ScValType), Hash |-> [ArrayType(HashLen) EXCEPT !.kind = "hash"]]), <<"Persistent">>)
Deep == StructType([A |-> StructType([B |-> StructType([C |-> StructType([D |-> U32])])])])
Optional == StructType([Durability |-> EnumType(Durability), Limit |-> PointerTo(I64), Owners |-> ListType(PointerTo(Type("account"))), Price |-> Type("price")])
EnvelopeType == UnionType(Enum(<<"e">>, <<Constant("ETxV0", <<"e", "tx", "v0">>, 0, << >>), Constant("ETx", <<"e", "tx">>, 2, << >>)>>),
                          [V0 |-> StructType([Fee |-> U32]), V1 |-> StructType([Fee |-> U32])], (0 :> "V0" @@ 2 :> "V1"))
Kinds == {"data", "signature", "upgrade", "price", "asset", "trustline", "changetrust", "pool", "address", "executable", "peer", "account", "muxed", "predicate", "bytes"}
MCRegistry ==
  [k \in Kinds |-> Type(k)] @@ ("ScVal" :> ScValType) @@ ("Footprint" :> Footprint) @@ ("Optional" :> Optional) @@ ("Deep" :> Deep)
  @@ ("TransactionEnvelope" :> EnvelopeType) @@ ("Message" :> EnumType(Message))

RoundTrips(type, values) == {[Job("round trip", type, Null) EXCEPT !.xdr = x] : x \in values}
Codes == BoundedSeq({40, 41, 48, 3}, 3)
AssetValues == {Native, AssetRecord("alphanum4", <<48, 49>>, KeyA, << >>), AssetRecord("alphanum12", <<48, 49, 48, 49, 48>>, KeyA, << >>),
                AssetRecord("alphanum12", <<48>>, KeyB, << >>), AssetRecord("alphanum4", << >>, KeyB, << >>)}
ScValue(type, arm, x) == [Zero(ScValType) EXCEPT !["Type"] = type, ![arm] = {x}]
ScValues == {ScValue(3, "U32", 5), ScValue(6, "NonceKey", -3), [ScValue(5, "B", 0) EXCEPT !["B"] = {}], [ScValue(1, "B", 0) EXCEPT !["B"] = {}], ScValue(0, "B", 1)}
Addresses == {Address(p, KeyA) : p \in {"G", "C", "B", "M"}}
Ips == {[version |-> 4, address |-> <<1, 2>>, mapped |-> FALSE], [version |-> 6, address |-> <<1, 2, 3>>, mapped |-> FALSE], [version |-> 6, address |-> <<1, 2>>, mapped |-> TRUE]}
RoundTripJobs ==
  <<RoundTrips("data", Codes), RoundTrips("signature", Codes), RoundTrips("bytes", Codes), RoundTrips("upgrade", {<<0, 1>>, <<9, 9>>, <<1>>}),
    RoundTrips("price", {Price(n, d) : n \in {-1, 0, 7}, d \in {0, 1, 3}}), RoundTrips("asset", AssetValues),
    RoundTrips("trustline", AssetValues \cup {PoolShare(Pool(Native, Native, 3))}), RoundTrips("changetrust", AssetValues \cup {PoolShare(Pool(Native, Native, 3))}),
    RoundTrips("pool", {Pool(a, b, f) : a, b \in AssetValues, f \in {0, 3, 7}}), RoundTrips("address", Addresses),
    RoundTrips("executable", {Executable("wasm", KeyA, NoAddress, << >>), Executable("asset", << >>, NoAddress, << >>)} \cup
                             {Executable("external", << >>, a, t) : a \in Addresses, t \in {<< >>, <<40, 41>>}}),
    RoundTrips("peer", {[ip |-> i, port |-> p, failures |-> f] : i \in Ips, p \in {0, 15}, f \in {0, 2}}),
    RoundTrips("account", {KeyA, KeyB}), RoundTrips("muxed", {Plain(KeyA), Muxed(KeyA, 63)}), RoundTrips("predicate", {0}),
    RoundTrips("ScVal", ScValues \cup {FillMinimal(ScValType)}), RoundTrips("Message", {6, 7, 13, 17}),
    RoundTrips("Footprint", {[ReadOnly |-> l, Hash |-> KeyB] : l \in BoundedSeq({ScValue(3, "U32", 5), ScValue(6, "NonceKey", 1)}, 2)}),
    RoundTrips("Optional", {[Durability |-> d, Limit |-> l, Owners |-> o, Price |-> p] :
                              d \in {0, 1}, l \in {{}, {-32}, {31}}, o \in {<< >>, <<{KeyA}, {}>>}, p \in {Price(1, 2), Price(3, 0)}}
                           \cup {FillMinimal(Optional)}),
    RoundTrips("Deep", {FillMinimal(Deep)}), RoundTrips("TransactionEnvelope", {FillMinimal(EnvelopeType)})>>

\* Lookups.
Renderings(enum) == {EnumText(enum, c.value) : c \in ToSet(enum.constants)}
Names(enum) == Renderings(enum) \cup {[JText("words") EXCEPT !.bytes = w] : w \in {<<"tx", "set">>, <<"set">>, <<"hello">>, <<"none">>}}
LookupJobs == <<{[Job("lookup", "", JArray(<< >>)) EXCEPT !.enum = e, !.input.parts = <<a, b>>] : e \in {Message}, a, b \in Names(Message)}>>

MCFamilies == Coercions \o LiteralJobs \o TemplateJobs \o RoundTripJobs \o LookupJobs
MCUpgrades == {<<0, 1>>}
=============================================================================
