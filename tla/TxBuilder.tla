-------------------------------- MODULE TxBuilder --------------------------------
(***************************************************************************)
(* pkg/lens/tx_builder.go: a transaction envelope from a JSON template.    *)
(*                                                                         *)
(* A template is a JSON object of Coerce.  It reaches the builder through  *)
(* a Go struct filled by encoding/json, which turns its numbers into       *)
(* floats; the two fallbacks for the sequence number read the object       *)
(* itself and keep it exact.                                               *)
(***************************************************************************)
EXTENDS ScValLiterals

\* TxSpec: the fields of a template by the sort Go gives them.
TextFields == {"type", "source_account"}
ObjectFields == {"time_bounds", "ledger_bounds", "soroban_data", "fee_bump"}
ListFields == {"operations", "extra_signers", "signatures"}
OperationTexts ==
  {"type", "source_account", "destination", "data_name", "inflation_dest", "home_domain", "function", "contract_id",
   "function_name", "trustor"}
OperationLists == {"path", "args", "auth"}

Empty(v) == IsNull(v) \/ (v.sort = "text" /\ v.text = "")
TextField(v, f) == IF IsNull(FieldOf(v, f)) THEN JText("") ELSE FieldOf(v, f)
Items(v, f) == FieldOf(v, f).items
SortOrNull(v, f, sort) == FieldOf(v, f).sort \in {"null", sort}

\* The template as a Go map holds it: its numbers are floats.
RECURSIVE WithoutUseNumber(_)
WithoutUseNumber(v) ==
  CASE v.sort = "number" -> [v EXCEPT !.sort = "float", !.int = {}, !.real = {AsFloat(n) * RealScale : n \in v.int} \cup
                                                                             (IF v.int = {} THEN v.real ELSE {})]
    [] v.sort = "array" -> [v EXCEPT !.items = [i \in DOMAIN v.items |-> WithoutUseNumber(v.items[i])]]
    [] v.sort = "object" -> [v EXCEPT !.fields = [f \in DOMAIN v.fields |-> WithoutUseNumber(v.fields[f])]]
    [] OTHER -> v

\* Null fits every sort, and leaves the field empty.
ObjectOrNull(v) == v.sort \in {"object", "null"}
OperationFits(v) ==
  ObjectOrNull(v) /\ (\A f \in OperationTexts : SortOrNull(v, f, "text")) /\ (\A f \in OperationLists : SortOrNull(v, f, "array"))
SignatureFits(v) == ObjectOrNull(v) /\ SortOrNull(v, "hint", "text") /\ SortOrNull(v, "signature", "text")
TextsFit(v, f) == SortOrNull(v, f, "array") /\ \A i \in DOMAIN Items(v, f) : Items(v, f)[i].sort \in {"text", "null"}
SorobanFits(v) == TextsFit(v, "read_only") /\ TextsFit(v, "read_write")

RECURSIVE Unmarshals(_)
Unmarshals(v) ==
  /\ \A f \in TextFields : SortOrNull(v, f, "text")
  /\ \A f \in ObjectFields : SortOrNull(v, f, "object")
  /\ \A f \in ListFields : SortOrNull(v, f, "array")
  /\ \A i \in DOMAIN Items(v, "operations") : OperationFits(Items(v, "operations")[i])
  /\ \A i \in DOMAIN Items(v, "signatures") : SignatureFits(Items(v, "signatures")[i])
  /\ TextsFit(v, "extra_signers") /\ SorobanFits(FieldOf(v, "soroban_data"))
  /\ LET bump == FieldOf(v, "fee_bump") inner == FieldOf(bump, "inner_tx")
     IN  SortOrNull(bump, "fee_source", "text") /\ SortOrNull(bump, "inner_tx", "object") /\ (~IsNull(inner) => Unmarshals(inner))

With(v, f, x) == JObject([g \in DOMAIN v.fields \cup {f} |-> IF g = f THEN x ELSE v.fields[g]])
FirstOf(v, names, Fits(_)) ==
  LET there == SelectSeq(names, LAMBDA f : HasField(v, f) /\ Fits(v.fields[f]))
  IN  IF there = << >> THEN Null ELSE v.fields[Head(there)]
IsText(v) == v.sort = "text"
Given(v) == TRUE
UnmarshalOwnNames(v) == IF Unmarshals(v) THEN {WithoutUseNumber(v)} ELSE {}
UnmarshalTxSpec(v) ==
  LET spec == WithoutUseNumber(v)
      source == FirstOf(v, <<"sourceAccount", "source">>, IsText)
      sequence == FirstOf(v, <<"seqNum", "sequenceNumber">>, Given)
      sourced == IF Empty(FieldOf(spec, "source_account")) /\ ~IsNull(source) THEN With(spec, "source_account", source) ELSE spec
  IN  IF ~Unmarshals(v) THEN {}
      ELSE IF IsNull(FieldOf(spec, "sequence")) /\ ~IsNull(sequence) THEN {With(sourced, "sequence", sequence)} ELSE {sourced}

-----------------------------------------------------------------------------
\* Preconditions.  An absent part is the empty set; the whole is of type
\* "none", "time" or "v2".
Conditions(type) == [type |-> type, time |-> {}, ledger |-> {}, minSeq |-> {}, age |-> 0, gap |-> 0, signers |-> << >>]
BoundsOf(v, f, Coerce(_)) ==
  IF IsNull(FieldOf(v, f)) THEN {{}}
  ELSE {{<<low, high>>} : low \in Coerce(FieldOf(FieldOf(v, f), "min")), high \in Coerce(FieldOf(FieldOf(v, f), "max"))}
OrZero(v, Coerce(_)) == IF IsNull(v) THEN {0} ELSE Coerce(v)
MinSeqNum(v) == IF IsNull(FieldOf(v, "min_seq_num")) THEN {{}} ELSE {{n} : n \in CoerceInt64(FieldOf(v, "min_seq_num"))}

IsV2(v) ==
  \/ \E f \in {"ledger_bounds", "min_seq_num", "min_seq_age", "min_seq_ledger_gap"} : ~IsNull(FieldOf(v, f))
  \/ Items(v, "extra_signers") # << >>

\* An extra signer that is not an account is passed over.
ExtraSigners(v) ==
  LET good == SelectSeq(Items(v, "extra_signers"), LAMBDA s : CoerceAccountID(s) # {})
  IN  [i \in DOMAIN good |-> CHOOSE k \in CoerceAccountID(good[i]) : TRUE]

BuildPreconditions(v) ==
  CASE IsV2(v) ->
         {[Conditions("v2") EXCEPT !.time = t, !.ledger = l, !.minSeq = s, !.age = a, !.gap = g, !.signers = ExtraSigners(v)] :
            t \in BoundsOf(v, "time_bounds", CoerceUint64), l \in BoundsOf(v, "ledger_bounds", CoerceUint32), s \in MinSeqNum(v),
            a \in OrZero(FieldOf(v, "min_seq_age"), CoerceUint64), g \in OrZero(FieldOf(v, "min_seq_ledger_gap"), CoerceUint32)}
    [] ~IsNull(FieldOf(v, "time_bounds")) ->
         {[Conditions("time") EXCEPT !.time = t] : t \in BoundsOf(v, "time_bounds", CoerceUint64)}
    [] OTHER -> {Conditions("none")}

\* V0 keeps its time bounds only if they are good, and has no other condition.
BuildPreconditionsV0(v) ==
  LET bounds == BoundsOf(v, "time_bounds", CoerceUint64)
  IN  {[Conditions("v0") EXCEPT !.time = t] : t \in IF bounds = {} THEN {{}} ELSE bounds}

-----------------------------------------------------------------------------
\* Memos.
Memo(type, number, bytes) == [type |-> type, number |-> number, bytes |-> bytes]
NoMemo == Memo("none", 0, << >>)
MemoText(v) == {Memo("text", 0, s) : s \in {x \in CoerceString(v) : Len(x) <= 28}}
MemoHash(type, v) == {Memo(type, 0, h) : h \in CoerceHash(v)}
BuildMemo(v) ==
  LET type == FieldOf(v, "type") value == FieldOf(v, "value")
      kind == Lower(type.text)
  IN  CASE Empty(v) \/ (v.sort = "text" /\ Lower(v.text) = "none") -> {NoMemo}
        [] v.sort = "text" -> MemoText(v)
        [] v.sort = "int" -> {Memo("id", n, << >>) : n \in CoerceUint64(v)}
        [] v.sort # "object" \/ type.sort # "text" -> {}
        [] kind = "none" -> {NoMemo}
        [] kind = "text" -> MemoText(value)
        [] kind = "id" -> {Memo("id", n, << >>) : n \in CoerceUint64(value)}
        [] kind \in {"hash", "return"} -> MemoHash(kind, value)
        [] OTHER -> {}

-----------------------------------------------------------------------------
\* Operations.
Body(type) ==
  [type |-> type, source |-> {}, to |-> {}, assets |-> << >>, amount |-> 0, price |-> Price(0, 1), offer |-> 0,
   data |-> {}, call |-> {}]

OrNative(v) == IF CoerceAsset(v) = {} THEN {Native} ELSE CoerceAsset(v)
LimitOf(v) ==
  IF IsNull(FieldOf(v, "limit")) \/ CoerceAmount(FieldOf(v, "limit")) = {} THEN {MaxInt64} ELSE CoerceAmount(FieldOf(v, "limit"))
LineOf(v) == FieldOf(v, IF IsNull(FieldOf(v, "line")) THEN "asset" ELSE "line")
DataOf(v) == IF IsNull(FieldOf(v, "data_value")) THEN {{}} ELSE {{b} : b \in CoerceBytes(FieldOf(v, "data_value"))}
Offers(v, type, amount) ==
  {[Body(type) EXCEPT !.assets = <<s, b>>, !.amount = a, !.price = p, !.offer = id] :
     s \in CoerceAsset(FieldOf(v, "selling")), b \in CoerceAsset(FieldOf(v, "buying")), a \in CoerceAmount(FieldOf(v, amount)),
     p \in CoercePrice(FieldOf(v, "price")), id \in OrZero(FieldOf(v, "offer_id"), CoerceInt64)}

\* The contract's address is read as a literal.  One that is not an address
\* has no address to follow, which stops the program.
ArgumentsOf(v) == LET arg(i) == ParseScVal(Items(v, "args")[i]) IN Each(Len(Items(v, "args")), arg)
Calls(v) ==
  LET contract == ParseScVal(TextField(v, "contract_id"))
      function == Lower(TextField(v, "function").text)
  IN  CASE function \notin {"", "invoke_contract"} -> {Body("invoke_host_function")}
        [] \E c \in contract : c.type \notin {"Account", "Contract"} -> {Body("stops")}
        [] OTHER -> {[Body("invoke_host_function") EXCEPT !.call = {[contract |-> c, name |-> TextField(v, "function_name").text, args |-> a]}] :
                       c \in contract, a \in ArgumentsOf(v)}

BodiesOf(v, type) ==
  LET Dest(Coerce(_)) == Coerce(TextField(v, "destination"))
  IN  CASE type = "payment" -> {[Body(type) EXCEPT !.to = {d}, !.assets = <<a>>, !.amount = n] :
                                  d \in Dest(CoerceMuxedAccount), a \in OrNative(FieldOf(v, "asset")), n \in CoerceAmount(FieldOf(v, "amount"))}
        [] type = "create_account" -> {[Body(type) EXCEPT !.to = {Plain(d)}, !.amount = n] :
                                         d \in Dest(CoerceAccountID), n \in CoerceAmount(FieldOf(v, "starting_balance"))}
        [] type = "change_trust" -> {[Body(type) EXCEPT !.assets = <<a>>, !.amount = n] : a \in CoerceChangeTrustAsset(LineOf(v)), n \in LimitOf(v)}
        [] type = "manage_data" -> IF Len(TextField(v, "data_name").bytes) > 64 THEN {}
                                   ELSE {[Body(type) EXCEPT !.data = d] : d \in DataOf(v)}
        [] type = "bump_sequence" -> {[Body(type) EXCEPT !.amount = n] : n \in CoerceInt64(FieldOf(v, "bump_to"))}
        [] type = "account_merge" -> {[Body(type) EXCEPT !.to = {d}] : d \in Dest(CoerceMuxedAccount)}
        [] type = "manage_buy_offer" -> Offers(v, type, "buy_amount")
        [] type = "manage_sell_offer" -> Offers(v, type, "amount")
        [] type = "invoke_host_function" -> Calls(v)
        [] OTHER -> {}

SourceOf(v) ==
  IF Empty(FieldOf(v, "source_account")) THEN {{}} ELSE {{s} : s \in CoerceMuxedAccount(FieldOf(v, "source_account"))}
OperationType(v) == Lower(TextField(v, "type").text)
BuildOperation(v) == {[b EXCEPT !.source = s] : s \in SourceOf(v), b \in BodiesOf(v, OperationType(v))}
BuildOperations(v) ==
  LET ops == Items(v, "operations") built(i) == BuildOperation(ops[i]) IN Each(Len(ops), built)

-----------------------------------------------------------------------------
\* Soroban data: its fees and sizes; the footprint of the template is unused.
BuildExt(v) ==
  IF IsNull(v) THEN {{}}
  ELSE {{<<fee, read, write>>} : fee \in OrZero(FieldOf(v, "resource_fee"), CoerceInt64),
          read \in OrZero(FieldOf(v, "disk_read_bytes"), CoerceUint32), write \in OrZero(FieldOf(v, "write_bytes"), CoerceUint32)}

HintLen == 4
HintOf(s) == IF \E h \in CoerceBytes(s) : Len(h) = HintLen THEN CHOOSE h \in CoerceBytes(s) : Len(h) = HintLen ELSE << >>
BuildSignatures(v) ==
  LET s == Items(v, "signatures")
      signed(i) == {[hint |-> HintOf(TextField(s[i], "hint")), signature |-> b] : b \in CoerceBytes(TextField(s[i], "signature"))}
  IN  Each(Len(s), signed)

\* The three kinds of envelope.
Transactions(v, source, conditions) ==
  {[source |-> a, fee |-> f, seq |-> n, cond |-> c, memo |-> m, ops |-> o, ext |-> e] :
     a \in source, f \in CoerceUint32(FieldOf(v, "fee")), n \in CoerceInt64(FieldOf(v, "sequence")), c \in conditions,
     m \in BuildMemo(FieldOf(v, "memo")), o \in BuildOperations(v), e \in BuildExt(FieldOf(v, "soroban_data"))}
BuildTransaction(v) == Transactions(v, CoerceMuxedAccount(TextField(v, "source_account")), BuildPreconditions(v))
BuildTransactionV0(v) ==
  {[t EXCEPT !.ext = {}] : t \in Transactions([v EXCEPT !.fields = [f \in DOMAIN v.fields \ {"soroban_data"} |-> v.fields[f]]],
                                             {Plain(k) : k \in CoerceAccountID(TextField(v, "source_account"))}, BuildPreconditionsV0(v))}

Envelope(type, tx, inner, signatures) == [type |-> type, tx |-> tx, inner |-> inner, signatures |-> signatures]
Envelopes(type, txs, signatures) == {Envelope(type, {t}, {}, s) : t \in txs, s \in signatures}

\* The inner transaction is the nested one, or the template itself, which
\* then goes in without its signatures.
InnerOfSigned(v) ==
  LET nested == FieldOf(FieldOf(v, "fee_bump"), "inner_tx")
      tx == IF IsNull(nested) THEN v ELSE nested
  IN  Envelopes("v1", BuildTransaction(tx), BuildSignatures(tx))
InnerOf(v) ==
  LET nested == FieldOf(FieldOf(v, "fee_bump"), "inner_tx")
  IN  IF IsNull(nested) THEN Envelopes("v1", BuildTransaction(v), {<< >>})
      ELSE Envelopes("v1", BuildTransaction(nested), BuildSignatures(nested))
BuildFeeBump(v) ==
  {Envelope("fee_bump", {[source |-> a, fee |-> f]}, {i}, s) :
     a \in CoerceMuxedAccount(TextField(FieldOf(v, "fee_bump"), "fee_source")), f \in CoerceInt64(FieldOf(FieldOf(v, "fee_bump"), "max_fee")),
     i \in InnerOf(v), s \in BuildSignatures(v)}

BuildTransactionEnvelope(v) ==
  LET type == Lower(TextField(v, "type").text)
      bump == ~IsNull(FieldOf(v, "fee_bump"))
  IN  CASE type = "fee_bump" \/ (type = "" /\ bump) -> IF bump THEN BuildFeeBump(v) ELSE {}
        [] type = "v0" -> Envelopes("v0", BuildTransactionV0(v), BuildSignatures(v))
        [] OTHER -> Envelopes("v1", BuildTransaction(v), BuildSignatures(v))

\* What an envelope holds that MarshalBinary cannot write: a host function
\* that was not filled in.
Transaction(e) == IF e.type = "fee_bump" THEN (CHOOSE i \in e.inner : TRUE).tx ELSE e.tx
Ops(e) == (CHOOSE t \in Transaction(e) : TRUE).ops
Marshals(e) == \A i \in DOMAIN Ops(e) : Ops(e)[i].type = "invoke_host_function" => Ops(e)[i].call # {}
Stops(e) == \E i \in DOMAIN Ops(e) : Ops(e)[i].type = "stops"
=============================================================================
