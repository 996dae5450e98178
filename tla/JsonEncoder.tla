------------------------------- MODULE JsonEncoder -------------------------------
(***************************************************************************)
(* pkg/lens/encode.go against node.go and the enrichers: how a decoded     *)
(* value is rendered as JSON and how JSON is read back into the Go type.   *)
(*                                                                         *)
(* A type is a record of its kind and what the kind needs.  A text is a    *)
(* record of Coerce; where a reading of it depends on its characters they  *)
(* are numbers, of which some stand for hexadecimal digits.  Pointers are  *)
(* sets of at most one value.                                              *)
(***************************************************************************)
EXTENDS Coerce

CONSTANTS
  DigitZero, DigitBase,  \* the character of digit 0, and how many digits there are
  Printable,             \* the printable characters, digits among them
  MaxDepth,              \* deepest level of the walk
  LedgerUpgrades         \* the bytes that are a ledger upgrade

HexCodes(bytes) == FlattenSeq([i \in DOMAIN bytes |-> <<DigitZero + bytes[i] \div DigitBase, DigitZero + (bytes[i] % DigitBase)>>])
HexReading(codes) ==
  IF Len(codes) % 2 = 0 /\ ToSet(codes) \subseteq DigitZero..(DigitZero + DigitBase - 1)
    THEN {[i \in 1..(Len(codes) \div 2) |-> DigitBase * (codes[2 * i - 1] - DigitZero) + codes[2 * i] - DigitZero]}
    ELSE {}
TextOf(codes) == [JText("text") EXCEPT !.bytes = codes, !.hex = HexReading(codes)]
HexText(bytes) == TextOf(HexCodes(bytes))
Base64Text(bytes) == [JText("text") EXCEPT !.base64 = {bytes}]
KeyText(prefix, key) == [JText("text") EXCEPT !.prefix = prefix, !.key = {key}]
Parted(separator, parts) == [JText("text") EXCEPT !.separator = separator, !.parts = parts]

-----------------------------------------------------------------------------
\* Types.
Type(kind) == [kind |-> kind, low |-> 0, high |-> 0, len |-> 0, elem |-> << >>, fields |-> << >>, arms |-> << >>, enum |-> << >>, derived |-> << >>]
IntType(low, high) == [Type("int") EXCEPT !.low = low, !.high = high]
EnumType(enum) == [Type("enum") EXCEPT !.enum = <<enum>>]
ArrayType(len) == [Type("array") EXCEPT !.len = len]
PointerTo(t) == [Type("pointer") EXCEPT !.elem = <<t>>]
ListType(t) == [Type("list") EXCEPT !.elem = <<t>>]
StructType(fields) == [Type("struct") EXCEPT !.fields = fields]
Deriving(t, derived) == [t EXCEPT !.derived = derived]
UnionType(enum, fields, arms) ==
  [Type("union") EXCEPT !.fields = [f \in DOMAIN fields \cup {"Type"} |-> IF f = "Type" THEN EnumType(enum) ELSE PointerTo(fields[f])],
                        !.arms = arms]

RECURSIVE Zero(_)
Zero(t) ==
  CASE t.kind \in {"int", "enum"} -> 0
    [] t.kind \in {"array", "hash"} -> [i \in 1..t.len |-> 0]
    [] t.kind = "price" -> Price(0, 0)
    [] t.kind = "pointer" -> {}
    [] t.kind \in {"struct", "union"} -> [f \in DOMAIN t.fields |-> Zero(t.fields[f])]
    [] OTHER -> << >>

\* What the wire can carry of a value, and what it then carries: an enum has a
\* constant, the arm of a union is there, and the other arms are not written.
ArmOf(t, x) == IF x["Type"] \in DOMAIN t.arms THEN t.arms[x["Type"]] ELSE "unknown"
RECURSIVE Writable(_, _)
Writable(t, x) ==
  CASE t.kind = "enum" -> x \in {t.enum[1].constants[i].value : i \in DOMAIN t.enum[1].constants}
    [] t.kind = "pointer" -> \A y \in x : Writable(t.elem[1], y)
    [] t.kind = "list" -> \A i \in DOMAIN x : Writable(t.elem[1], x[i])
    [] t.kind = "struct" -> \A f \in DOMAIN t.fields : Writable(t.fields[f], x[f])
    [] t.kind = "union" -> /\ Writable(t.fields["Type"], x["Type"])
                           /\ LET arm == ArmOf(t, x)
                              IN  arm # "unknown" /\ (arm \in DOMAIN t.fields => x[arm] # {} /\ Writable(t.fields[arm], x[arm]))
    [] OTHER -> TRUE
RECURSIVE Wire(_, _)
Wire(t, x) ==
  CASE t.kind = "pointer" -> {Wire(t.elem[1], y) : y \in x}
    [] t.kind = "list" -> [i \in DOMAIN x |-> Wire(t.elem[1], x[i])]
    [] t.kind = "struct" -> [f \in DOMAIN x |-> Wire(t.fields[f], x[f])]
    [] t.kind = "union" -> [f \in DOMAIN x |-> IF f \in {"Type", ArmOf(t, x)} THEN Wire(t.fields[f], x[f]) ELSE {}]
    [] OTHER -> x

-----------------------------------------------------------------------------
\* Rendering: NodeToGeneric of buildNode; the empty set is a pruned node.
AssetText(a) ==
  IF a.type = "native" THEN [JText("native") EXCEPT !.bytes = <<"native">>]
  ELSE Parted(":", <<TextOf(a.code), KeyText("G", a.issuer)>>)
AddressText(x) == KeyText(x.prefix, x.key)
DataText(x) == IF x # << >> /\ ToSet(x) \subseteq Printable THEN TextOf(x) ELSE HexText(x)
ExecutableText(x) ==
  CASE x.type = "wasm" -> HexText(x.hash)
    [] x.type = "asset" -> JText("stellar_asset")
    [] x.tag = << >> -> AddressText(x.owner)
    [] OTHER -> Parted(" tag: ", <<AddressText(x.owner), TextOf(x.tag)>>)
PriceJSON(x) == IF x.d = 0 THEN JObject([N |-> JNumber(x.n), D |-> JNumber(x.d)]) ELSE Parted("/", <<JNumber(x.n), JNumber(x.d)>>)

\* An IPv4 address inside an IPv6 one prints as the IPv4 address it holds.
PeerText(x) == Parted("host:port", <<TextOf(IF x.ip.mapped THEN <<4>> \o x.ip.address ELSE <<x.ip.version>> \o x.ip.address), JNumber(x.port)>>)

Scalar(t, x) ==
  CASE t.kind = "int" -> JNumber(x)
    [] t.kind = "enum" -> EnumText(t.enum[1], x)
    [] t.kind \in {"bytes", "array"} -> HexText(x)
    [] t.kind = "hash" -> JArray([i \in DOMAIN x |-> JNumber(x[i])])
    [] t.kind = "string" -> TextOf(x)
    [] t.kind = "account" -> KeyText("G", x)
    [] t.kind = "muxed" -> IF x.id = {} THEN KeyText("G", x.key) ELSE [KeyText("M", << >>) EXCEPT !.muxed = {x}]
    [] t.kind = "asset" -> AssetText(x)
    [] t.kind = "address" -> AddressText(x)
    [] t.kind = "price" -> PriceJSON(x)
    [] t.kind = "signature" -> Base64Text(x)
    [] t.kind = "upgrade" -> HexText(x)
    [] t.kind = "data" -> DataText(x)
    [] t.kind = "executable" -> ExecutableText(x)
    [] t.kind = "peer" -> PeerText(x)
    [] t.kind = "pool" -> Parted("@", <<AssetText(x.assetA), AssetText(x.assetB), JNumber(x.fee)>>)
    [] OTHER -> JText("sentence")

IsScVal(t) == t.kind = "union" /\ "NonceKey" \in DOMAIN t.fields
IsStorageKey(t, x) == IsScVal(t) /\ ArmOf(t, x) \in {"Instance", "NonceKey"}
StorageKeyText(t, x) ==
  IF ArmOf(t, x) = "Instance" THEN JText("instance storage key")
  ELSE Parted("nonce key: ", <<JNumber(CHOOSE n \in x["NonceKey"] : TRUE)>>)

RECURSIVE Render(_, _, _)
Render(t, x, depth) ==
  CASE depth > MaxDepth -> {JText("<max depth exceeded>")}
    [] t.kind = "pointer" -> UNION {Render(t.elem[1], y, depth) : y \in x}
    [] t.kind \in {"changetrust", "trustline"} /\ x.type = "pool" -> {JObject([Type |-> JText("pool"), Pool |-> JText("pool")])}
    [] t.kind \in {"changetrust", "trustline"} -> {AssetText(x)}
    [] IsStorageKey(t, x) -> {StorageKeyText(t, x)}
    [] t.kind = "list" ->
         {JArray([i \in DOMAIN x |-> LET r == Render(t.elem[1], x[i], depth + 1) IN IF r = {} THEN Null ELSE CHOOSE v \in r : TRUE])}
    [] t.kind \in {"struct", "union"} ->
         LET shown == {f \in DOMAIN t.fields : Render(t.fields[f], x[f], depth + 1) # {}}
         IN  {JObject([f \in shown \cup ToSet(t.derived) |->
                         IF f \in shown THEN CHOOSE v \in Render(t.fields[f], x[f], depth + 1) : TRUE ELSE JText("derived")])}
    [] OTHER -> {Scalar(t, x)}

-----------------------------------------------------------------------------
\* Reading back.  An outcome is the values it may be, or the errors.
Ok(values) == [values |-> values, errors |-> {}]
Err(error) == [values |-> {}, errors |-> {error}]
OkOr(values, error) == IF values = {} THEN Err(error) ELSE Ok(values)
MapOk(o, F(_)) == IF o.errors # {} THEN o ELSE Ok({F(x) : x \in o.values})

InputInteger(v, low, high) == {n \in v.int : IsTextual(v) /\ Between(n, low, high)}

\* decodeJSONBytes.
JSONBytes(v, base64) ==
  CASE v.sort = "text" -> IF base64 /\ v.base64 # {} THEN v.base64 ELSE v.hex
    [] v.sort = "array" -> LET byte(w) == InputInteger(w, 0, MaxByte) IN ByteItems(v.items, byte)
    [] OTHER -> {}
DecodeUpgrade(v) ==
  CASE v.base64 \cap LedgerUpgrades # {} -> v.base64
    [] v.sort = "text" -> IF v.hex # {} THEN v.hex ELSE v.base64
    [] OTHER -> JSONBytes(v, FALSE)

\* parseDataValueInput: text that reads as hexadecimal is taken as that.
ParseDataValueAsText(v) == IF v.sort = "text" THEN {v.bytes} ELSE JSONBytes(v, FALSE)
ParseDataValue(v) ==
  CASE v.sort = "text" /\ v.bytes # << >> /\ v.hex # {} -> v.hex
    [] v.sort = "text" -> {v.bytes}
    [] OTHER -> JSONBytes(v, FALSE)

Address(prefix, key) == [prefix |-> prefix, key |-> key]
ParseAddress(v) == IF v.sort = "text" /\ v.prefix \in {"G", "C"} THEN {Address(v.prefix, k) : k \in v.key} ELSE {}
ParsePriceText(v) == IF v.separator = "/" THEN {Price(n, d) : n \in v.parts[1].int, d \in v.parts[2].int} ELSE {}
Executable(type, hash, owner, tag) == [type |-> type, hash |-> hash, owner |-> owner, tag |-> tag]
NoAddress == Address("", << >>)
ParseExecutable(v) ==
  LET owner == IF v.separator = " tag: " THEN v.parts[1] ELSE v
      tag == IF v.separator = " tag: " THEN v.parts[2].bytes ELSE << >>
  IN  CASE v.sort # "text" -> {}
        [] v.text = "stellar_asset" -> {Executable("asset", << >>, NoAddress, << >>)}
        [] CoerceHash(v) # {} -> {Executable("wasm", h, NoAddress, << >>) : h \in CoerceHash(v)}
        [] OTHER -> {Executable("external", << >>, a, tag) : a \in ParseAddress(owner)}
ParsePeer(v) ==
  IF v.separator # "host:port" THEN {}
  ELSE {[ip |-> [version |-> Head(v.parts[1].bytes), address |-> Tail(v.parts[1].bytes), mapped |-> FALSE], port |-> p, failures |-> 0] :
          p \in v.parts[2].int}
ParsePool(v) ==
  IF v.separator # "@" THEN {}
  ELSE {Pool(a, b, fee) : a \in CoerceAsset(v.parts[1]), b \in CoerceAsset(v.parts[2]), fee \in v.parts[3].int}

\* encodeSpecialJSON: the kinds it handles whatever the input.
Specials == {"account", "muxed", "asset", "changetrust", "address", "signature", "upgrade", "data", "peer", "pool", "executable", "predicate"}
EncodeSpecial(t, v) ==
  CASE t.kind = "predicate" -> Err("unsupported")
    [] OTHER -> OkOr(CASE t.kind = "account" -> CoerceAccountID(v)
                       [] t.kind = "muxed" -> CoerceMuxedAccount(v)
                       [] t.kind = "asset" -> CoerceAsset(v)
                       [] t.kind = "changetrust" -> CoerceChangeTrustAsset(v)
                       [] t.kind = "address" -> ParseAddress(v)
                       [] t.kind = "signature" -> JSONBytes(v, TRUE)
                       [] t.kind = "upgrade" -> DecodeUpgrade(v)
                       [] t.kind = "data" -> ParseDataValue(v)
                       [] t.kind = "peer" -> ParsePeer(v)
                       [] t.kind = "pool" -> ParsePool(v)
                       [] OTHER -> ParseExecutable(v), "invalid")

\* Those it leaves to the structural encoder when the input is an object.
EncodePrice(v) ==
  CASE HasField(v, "N") -> OkOr({Price(n, d) : n \in InputInteger(FieldOf(v, "N"), MinInt32, MaxInt32),
                                              d \in InputInteger(FieldOf(v, "D"), MinInt32, MaxInt32)}, "invalid")
    [] v.sort = "text" -> OkOr(ParsePriceText(v), "invalid")
    [] OTHER -> OkOr(CoercePrice(v), "invalid")
EncodeTrustLine(v) ==
  IF v.sort = "object" THEN Ok({PoolShare(Pool(Native, Native, 0))}) ELSE OkOr(CoerceAsset(v), "invalid")
ParseStorageKey(t, v) ==
  LET zero == Zero(t)
      typeOf(arm) == CHOOSE n \in DOMAIN t.arms : t.arms[n] = arm
  IN  CASE v.text = "instance storage key" -> Ok({[zero EXCEPT !["Type"] = typeOf("Instance")]})
        [] v.separator = "nonce key: " -> Ok({[zero EXCEPT !["Type"] = typeOf("NonceKey"), !["NonceKey"] = {n}] : n \in v.parts[1].int})
        [] OTHER -> Err("invalid")

\* Number and bytes by the width of their type; an enum by its number or one
\* of its names.
EncodeBasic(t, v) ==
  CASE t.kind = "int" -> OkOr(InputInteger(v, t.low, t.high), "invalid")
    [] t.kind = "enum" -> OkOr(IF v.int # {} THEN InputInteger(v, MinInt32, MaxInt32) ELSE EnumValueForName(t.enum[1], v), "invalid")
    [] t.kind \in {"array", "hash"} -> OkOr({b \in JSONBytes(v, FALSE) : Len(b) = t.len}, "invalid")
    [] t.kind = "bytes" -> OkOr(JSONBytes(v, FALSE), "invalid")
    [] OTHER -> OkOr(IF v.sort = "text" THEN {v.bytes} ELSE {}, "invalid")

RECURSIVE EncodeInto(_, _)

\* encodeStruct meets the fields of the object in any order, and reports the
\* first that fails; a field it has no place for is an error unless derived.
EncodeStruct(t, v) ==
  LET unknown == DOMAIN v.fields \ (DOMAIN t.fields \cup ToSet(t.derived))
      parts == [f \in DOMAIN t.fields |-> EncodeInto(t.fields[f], FieldOf(v, f))]
      errors == UNION {parts[f].errors : f \in DOMAIN parts} \cup (IF unknown = {} THEN {} ELSE {"invalid"})
  IN  CASE v.sort # "object" -> Err("invalid")
        [] errors # {} -> [values |-> {}, errors |-> errors]
        [] OTHER -> Ok({[f \in DOMAIN parts |-> CHOOSE x \in parts[f].values : TRUE]})

EncodeList(t, v) ==
  LET parts == [i \in DOMAIN v.items |-> EncodeInto(t.elem[1], v.items[i])]
      bad == {i \in DOMAIN parts : parts[i].errors # {}}
  IN  CASE v.sort # "array" -> Err("invalid")
        [] bad # {} -> parts[CHOOSE i \in bad : \A j \in bad : i <= j]
        [] OTHER -> Ok({[i \in DOMAIN parts |-> CHOOSE x \in parts[i].values : TRUE]})

EncodeInto(t, v) ==
  LET single(x) == {x}
  IN  CASE IsNull(v) -> Ok({Zero(t)})
        [] t.kind = "pointer" -> MapOk(EncodeInto(t.elem[1], v), single)
        [] t.kind \in Specials -> EncodeSpecial(t, v)
        [] t.kind = "price" -> EncodePrice(v)
        [] t.kind = "trustline" -> EncodeTrustLine(v)
        [] IsScVal(t) /\ v.sort # "object" -> ParseStorageKey(t, v)
        [] t.kind \in {"struct", "union"} -> EncodeStruct(t, v)
        [] t.kind = "list" -> EncodeList(t, v)
        [] OTHER -> EncodeBasic(t, v)

\* EncodeJSONValue: a value that cannot be written is an error as well.
EncodeJSONValue(t, v) ==
  LET o == EncodeInto(t, v)
  IN  IF o.errors # {} THEN o ELSE OkOr({Wire(t, x) : x \in {y \in o.values : Writable(t, y)}}, "invalid")

\* Encode, and roundTripFrom along the JSON route.
StableJSON(t, x) == Render(t, x, 0)
RoundTripJSON(t, x) == LET v == CHOOSE w \in StableJSON(t, x) : TRUE IN EncodeJSONValue(t, v)

\* fillMinimal: optional parts are there, enums have their first constant, a
\* union its first arm.
RECURSIVE FillMinimal(_)
FillMinimal(t) ==
  CASE t.kind = "pointer" -> {FillMinimal(t.elem[1])}
    [] t.kind = "enum" -> t.enum[1].constants[1].value
    [] t.kind = "struct" -> [f \in DOMAIN t.fields |-> FillMinimal(t.fields[f])]
    [] t.kind = "union" ->
         LET values == [i \in DOMAIN t.fields["Type"].enum[1].constants |-> t.fields["Type"].enum[1].constants[i].value]
             first == Head(SelectSeq(values, LAMBDA n : n \in DOMAIN t.arms))
         IN  [f \in DOMAIN t.fields |-> CASE f = "Type" -> first
                                          [] f = t.arms[first] -> FillMinimal(t.fields[f])
                                          [] OTHER -> {}]
    [] OTHER -> Zero(t)
=============================================================================
