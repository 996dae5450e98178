--------------------------------- MODULE Coerce ---------------------------------
(***************************************************************************)
(* pkg/lens/coerce.go: what a JSON value becomes where the XDR asks for a  *)
(* number, bytes, an account, an asset or a price; and the constant of an  *)
(* enum that a name stands for (pkg/lens/encode.go).                       *)
(*                                                                         *)
(* A text is a record of what it reads as: every reading is a set, empty   *)
(* when the text does not read that way.  Reals are counted in parts of    *)
(* RealScale.  A coercion returns the set of its possible results, the     *)
(* empty set for an error and several where Go leaves the result of an     *)
(* out-of-range conversion to the processor.                               *)
(***************************************************************************)
EXTENDS Integers, Sequences, SequencesExt, FiniteSets

CONSTANTS
  MaxInt64, MaxUint64, MaxInt32, MaxUint32,  \* the widths, scaled down
  FloatExact,    \* 2^53: integers above it are rounded by a float64
  Stroops,       \* stroops in one unit of an amount
  RealScale,     \* parts of one in which reals are counted
  HashLen,       \* bytes of a hash or a key
  MaxByte,
  Denominators,  \* those floatToPrice tries, in order
  LowerCase,     \* the names that are spelt with capitals, and their lower case
  LastDenominator

ASSUME CoerceAssumption == RealScale % Stroops = 0 /\ MaxUint32 < FloatExact /\ FloatExact < MaxInt64

MinInt64 == -MaxInt64 - 1
MinInt32 == -MaxInt32 - 1

-----------------------------------------------------------------------------
\* JSON values.
Null ==
  [sort |-> "null", text |-> "", int |-> {}, hexInt |-> {}, real |-> {}, dot |-> FALSE, unit |-> "", hex |-> {},
   prefixed |-> {}, base64 |-> {}, bytes |-> << >>, prefix |-> "", key |-> {}, muxed |-> {}, separator |-> "",
   parts |-> << >>, items |-> << >>, fields |-> << >>]
JText(text) == [Null EXCEPT !.sort = "text", !.text = text]
JNumber(n) == [Null EXCEPT !.sort = "number", !.text = "n", !.int = {n}, !.real = {n * RealScale}]
JReal(sort, r) == [Null EXCEPT !.sort = sort, !.text = "r", !.real = {r}, !.dot = TRUE]
JBool(b) == [Null EXCEPT !.sort = "bool", !.text = IF b THEN "true" ELSE "false"]
JArray(items) == [Null EXCEPT !.sort = "array", !.items = items]
JObject(fields) == [Null EXCEPT !.sort = "object", !.fields = fields]
HasField(v, f) == v.sort = "object" /\ f \in DOMAIN v.fields
FieldOf(v, f) == IF HasField(v, f) THEN v.fields[f] ELSE Null
IsNull(v) == v.sort = "null"
IsTextual(v) == v.sort \in {"text", "number"}
Lower(name) == IF name \in DOMAIN LowerCase THEN LowerCase[name] ELSE name

\* What encoding/json makes of a number when it is not asked to keep it.
AsFloat(n) ==
  CASE n <= FloatExact \/ n % 2 = 0 -> n
    [] n > FloatExact /\ n % 4 = 1   -> n - 1
    [] OTHER                        -> n + 1

-----------------------------------------------------------------------------
\* Numbers.
Between(n, low, high) == low <= n /\ n <= high
Whole(r) == r % RealScale = 0
Truncate(r) == IF r >= 0 THEN r \div RealScale ELSE -((-r) \div RealScale)
RoundTo(r, parts) ==
  (2 * r * parts + RealScale) \div (2 * RealScale)

\* float64(MaxInt64) is 2^63, so the range check lets 2^63 through.
FloatInRange(r, low, high) == Between(r, low * RealScale, (high + 1) * RealScale)
ConvertFloat(r, low, high) ==
  IF Between(Truncate(r), low, high) THEN {Truncate(r)} ELSE {low, high}

FromFloat(reals, low, high) ==
  UNION {ConvertFloat(r, low, high) : r \in {x \in reals : FloatInRange(x, low, high)}}
FromText(v, low, high) ==
  LET whole == {n \in v.int : Between(n, low, high)}
  IN  CASE v.hexInt # {} -> {n \in v.hexInt : Between(n, low, high)}
        [] whole # {} -> whole
        [] OTHER -> FromFloat({r \in v.real : Whole(r)}, low, high)

CoerceInteger(v, low, high) ==
  CASE v.sort = "int" -> {n \in v.int : Between(n, low, high)}
    [] v.sort = "float" -> FromFloat(v.real, low, high)
    [] IsTextual(v) -> FromText(v, low, high)
    [] OTHER -> {}
CoerceInt64(v) == CoerceInteger(v, MinInt64, MaxInt64)
CoerceUint64(v) == CoerceInteger(v, 0, MaxUint64)
CoerceInt32(v) == {n \in CoerceInt64(v) : Between(n, MinInt32, MaxInt32)}
CoerceUint32(v) == {n \in CoerceUint64(v) : n <= MaxUint32}
CoerceBigInt(v) ==
  CASE v.sort = "int" -> v.int
    [] IsTextual(v) -> IF v.hexInt # {} THEN v.hexInt ELSE v.int
    [] OTHER -> {}

CoerceBool(v) ==
  CASE v.sort = "bool" -> {v.text = "true"}
    [] v.sort = "int" -> {n = 1 : n \in v.int \cap {0, 1}}
    [] v.sort = "text" /\ (Lower(v.text) \in {"true", "t", "yes", "y"} \/ v.int = {1}) -> {TRUE}
    [] v.sort = "text" /\ (Lower(v.text) \in {"false", "f", "no", "n"} \/ v.int = {0}) -> {FALSE}
    [] OTHER -> {}
CoerceString(v) == IF IsNull(v) THEN {} ELSE {v.bytes}

\* CoerceAmount: stroops, unless the text has a decimal point.
ParseAmount(reals) ==
  {n \in {(r * Stroops) \div RealScale : r \in {x \in reals : (x * Stroops) % RealScale = 0}} : Between(n, MinInt64, MaxInt64)}
CoerceAmountInUnits(v) == IF IsTextual(v) THEN ParseAmount(v.real) ELSE CoerceInt64(v)
CoerceAmount(v) ==
  CASE v.sort = "float" -> {n \in {RoundTo(r, Stroops) : r \in v.real} : Between(n, MinInt64, MaxInt64)}
    [] IsTextual(v) /\ v.unit \in {"stroop", "stroops"} -> CoerceInt64(v)
    [] IsTextual(v) /\ v.dot -> ParseAmount(v.real)
    [] OTHER -> CoerceInt64(v)

-----------------------------------------------------------------------------
\* Bytes: explicit hexadecimal, hexadecimal, base64, and the text itself.
BytesOfText(v) ==
  CASE v.text = "" -> {<< >>}
    [] v.prefix = "0x" -> v.prefixed
    [] v.hex # {} -> v.hex
    [] v.base64 # {} -> v.base64
    [] OTHER -> {v.bytes}
ByteItems(items, Coerce(_)) ==
  IF \A i \in DOMAIN items : \E n \in Coerce(items[i]) : n <= MaxByte
    THEN {[i \in DOMAIN items |-> CHOOSE n \in Coerce(items[i]) : n <= MaxByte]}
    ELSE {}
CoerceBytes(v) ==
  CASE IsNull(v) -> {<< >>}
    [] v.sort = "text" -> BytesOfText(v)
    [] v.sort = "array" -> ByteItems(v.items, CoerceUint32)
    [] OTHER -> {}
CoerceHash(v) == {b \in CoerceBytes(v) : Len(b) = HashLen}

-----------------------------------------------------------------------------
\* Accounts.
CoerceAccountID(v) ==
  CASE v.sort # "text" -> {}
    [] v.prefix = "G" -> v.key
    [] OTHER -> {b \in CoerceBytes(v) : Len(b) = HashLen}

Plain(key) == [key |-> key, id |-> {}]
Muxed(key, id) == [key |-> key, id |-> {id}]
MuxedFromMap(v) ==
  LET account == IF HasField(v, "account") THEN FieldOf(v, "account") ELSE FieldOf(v, "address")
      id == FieldOf(v, "id")
  IN  IF IsNull(id) THEN {Plain(k) : k \in CoerceAccountID(account)}
      ELSE {Muxed(k, n) : k \in CoerceAccountID(account), n \in CoerceUint64(id)}
CoerceMuxedAccount(v) ==
  CASE v.sort = "text" /\ v.prefix = "M" -> v.muxed
    [] v.sort = "text" -> {Plain(k) : k \in CoerceAccountID(v)}
    [] v.sort = "object" -> MuxedFromMap(v)
    [] OTHER -> {}

-----------------------------------------------------------------------------
\* Assets.
AssetRecord(type, code, issuer, pool) == [type |-> type, code |-> code, issuer |-> issuer, pool |-> pool]
Native == AssetRecord("native", << >>, << >>, << >>)
SaysNative(v) == Lower(v.text) \in {"native", "xlm"}

BuildAlphaNumAsset(code, issuer) ==
  CASE Len(code) \in 1..4 -> {AssetRecord("alphanum4", code, issuer, << >>)}
    [] Len(code) \in 5..12 -> {AssetRecord("alphanum12", code, issuer, << >>)}
    [] OTHER -> {}
CreditAssets(code, issuer) ==
  UNION {BuildAlphaNumAsset(c, i) : c \in CoerceString(code), i \in CoerceAccountID(issuer)}

CoerceAsset(v) ==
  CASE v.sort = "text" /\ SaysNative(v) -> {Native}
    [] v.sort = "text" /\ v.separator = ":" /\ Len(v.parts) = 2 -> CreditAssets(v.parts[1], v.parts[2])
    [] v.sort = "object" /\ (SaysNative(FieldOf(v, "code")) \/ Lower(FieldOf(v, "type").text) = "native") -> {Native}
    [] v.sort = "object" /\ HasField(v, "code") -> CreditAssets(FieldOf(v, "code"), FieldOf(v, "issuer"))
    [] OTHER -> {}

\* A pool share names its two assets, or only a pool identifier, which the
\* operation has no place for: its parameters are then left at zero.
Pool(a, b, fee) == [assetA |-> a, assetB |-> b, fee |-> fee]
PoolShare(pool) == AssetRecord("pool", << >>, << >>, <<pool>>)
CoercePoolShare(v) ==
  LET id == IF HasField(v, "pool_id") THEN FieldOf(v, "pool_id") ELSE FieldOf(v, "poolId")
      fee == IF IsNull(FieldOf(v, "fee")) THEN {0} ELSE CoerceInt32(FieldOf(v, "fee"))
      noAssets == IsNull(FieldOf(v, "asset_a")) /\ IsNull(FieldOf(v, "asset_b"))
  IN  CASE ~IsNull(id) /\ CoerceHash(id) = {} -> {}
        [] ~IsNull(id) /\ noAssets -> {PoolShare(Pool(Native, Native, 0))}
        [] OTHER -> {PoolShare(Pool(a, b, f)) :
                       a \in CoerceAsset(FieldOf(v, "asset_a")), b \in CoerceAsset(FieldOf(v, "asset_b")), f \in fee}
CoerceChangeTrustAsset(v) ==
  CASE CoerceAsset(v) # {} -> CoerceAsset(v)
    [] v.sort = "object" /\ Lower(FieldOf(v, "type").text) = "pool" -> CoercePoolShare(v)
    [] OTHER -> {}

-----------------------------------------------------------------------------
\* Prices.
Price(n, d) == [n |-> n, d |-> d]
ToInt32(n) == IF Between(n, MinInt32, MaxInt32) THEN {n} ELSE {MinInt32, MaxInt32}
FloatToPrice(r) ==
  LET exact(i) == (r * Denominators[i]) % RealScale = 0 /\ RoundTo(r, Denominators[i]) <= MaxInt32
      tried == {i \in DOMAIN Denominators : exact(i)}
      first == CHOOSE i \in tried : \A j \in tried : i <= j
  IN  CASE r <= 0 -> {}
        [] tried # {} -> {Price(RoundTo(r, Denominators[first]), Denominators[first])}
        [] OTHER -> {Price(n, LastDenominator) : n \in ToInt32(RoundTo(r, LastDenominator))}
Fractions(n, d) == {Price(a, b) : a \in CoerceInt32(n), b \in CoerceInt32(d) \ {0}}

CoercePrice(v) ==
  LET short == HasField(v, "n") /\ HasField(v, "d")
      n == FieldOf(v, IF short THEN "n" ELSE "numerator")
      d == FieldOf(v, IF short THEN "d" ELSE "denominator")
  IN  CASE v.sort = "object" -> Fractions(n, d)
        [] v.sort = "text" /\ v.separator = "/" -> Fractions(v.parts[1], v.parts[2])
        [] v.sort \in {"text", "float"} -> UNION {FloatToPrice(r) : r \in v.real}
        [] v.sort = "int" -> {Price(k, 1) : k \in CoerceInt32(v)}
        [] OTHER -> {}

-----------------------------------------------------------------------------
(***************************************************************************)
(* Enum constants (pkg/lens/encode.go).  An enum is a record of its        *)
(* normalised name and its constants; a normalised name is the sequence of *)
(* its words.  A constant has an exact name, its normalisation, its value, *)
(* and the label an enricher shows in place of the name, if there is one.  *)
(* A text carries its normalisation in bytes.                              *)
(***************************************************************************)
Constant(name, words, value, label) == [name |-> name, words |-> words, value |-> value, label |-> label]
Enum(words, constants) == [words |-> words, constants |-> constants]

\* The rendering of a constant.
EnumText(enum, value) ==
  LET c == CHOOSE k \in ToSet(enum.constants) : k.value = value
  IN  IF c.label = << >> THEN [JText(c.name) EXCEPT !.bytes = c.words] ELSE [JText("label") EXCEPT !.bytes = c.label]

TrimPrefix(words, prefix) == IF IsPrefix(prefix, words) THEN SubSeq(words, Len(prefix) + 1, Len(words)) ELSE words
SuffixOf(enum, c) == TrimPrefix(c.words, enum.words)
FirstValue(constants) == IF constants = << >> THEN {} ELSE {Head(constants).value}

\* Each pass takes the first constant that fits, except that later constants
\* of the same exact name or the same enriched label overwrite earlier ones.
NamesOf(enum) == [n \in {c.name : c \in ToSet(enum.constants)} |-> SelectLastInSeq(enum.constants, LAMBDA c : c.name = n)]
ByExactName(enum, text) == {enum.constants[NamesOf(enum)[n]].value : n \in DOMAIN NamesOf(enum) \cap {text.text}}
ByLabel(enum, wanted) == FirstValue(SelectSeq(enum.constants, LAMBDA c : c.words = wanted \/ (SuffixOf(enum, c) # << >> /\ SuffixOf(enum, c) = wanted)))
LabelsOf(enum) == {<<c.label, c.value>> : c \in {k \in ToSet(enum.constants) : k.label # << >>}}
ByEnrichedLabel(labels, wanted) == {l[2] : l \in {k \in labels : k[1] = wanted}}
ByPartialSuffix(enum, wanted) ==
  FirstValue(SelectSeq(enum.constants, LAMBDA c : SuffixOf(enum, c) # << >> /\ IsSuffix(wanted, SuffixOf(enum, c))))

FirstFound(passes) ==
  LET found == {i \in DOMAIN passes : passes[i] # {}}
  IN  IF found = {} THEN {} ELSE passes[CHOOSE i \in found : \A j \in found : i <= j]
EnumValueForName(enum, text) ==
  IF text.sort # "text" THEN {}
  ELSE FirstFound(<<ByExactName(enum, text), ByLabel(enum, text.bytes), ByEnrichedLabel(LabelsOf(enum), text.bytes),
                    ByPartialSuffix(enum, text.bytes)>>)
=============================================================================
