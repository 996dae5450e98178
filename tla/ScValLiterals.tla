------------------------------ MODULE ScValLiterals ------------------------------
(***************************************************************************)
(* pkg/lens/scval_encode.go: a Soroban value from a JSON literal, a tagged *)
(* object, or a plain object that becomes a map.                           *)
(***************************************************************************)
EXTENDS Coerce

CONSTANT FieldOrder  \* the field names that occur, in the order of sort.Strings

LimbBase == MaxUint64 + 1

Sc(type) == [type |-> type, num |-> 0, bytes |-> << >>, limbs |-> << >>, items |-> << >>, entries |-> << >>]
ScNumber(type, n) == [Sc(type) EXCEPT !.num = n]
ScBytes(type, bytes) == [Sc(type) EXCEPT !.bytes = bytes]
ScLimbs(type, limbs) == [Sc(type) EXCEPT !.limbs = limbs]

\* One result for each position, in order; none when a position has none.
Each(n, Results(_)) == IF \E i \in 1..n : Results(i) = {} THEN {} ELSE {[i \in 1..n |-> CHOOSE x \in Results(i) : TRUE]}

IsSymbol(v) == v.separator = "" /\ Len(v.bytes) \in 1..32
ParseString(v) ==
  CASE v.prefix = "G" /\ v.key # {} -> {ScBytes("Account", k) : k \in v.key}
    [] v.prefix = "C" /\ v.key # {} -> {ScBytes("Contract", k) : k \in v.key}
    [] IsSymbol(v) -> {ScBytes("Symbol", v.bytes)}
    [] OTHER -> {ScBytes("String", v.bytes)}

-----------------------------------------------------------------------------
\* Wide integers.  big.Int.Uint64 and Int64 keep the low 64 bits; And and Rsh
\* work on the two's complement.
Low(n) == n % LimbBase
High(n) == (n \div LimbBase) % LimbBase
HiLo(type, v, Coerce(_)) ==
  {ScLimbs(type, <<hi % LimbBase, lo>>) : hi \in Coerce(FieldOf(v, "hi")), lo \in CoerceUint64(FieldOf(v, "lo"))}

ParseU128(payload, tagged) ==
  IF HiLo("U128", tagged, CoerceUint64) # {} THEN HiLo("U128", tagged, CoerceUint64)
  ELSE {ScLimbs("U128", <<High(n), Low(n)>>) : n \in {x \in CoerceBigInt(payload) : x >= 0}}
ParseI128(payload, tagged) ==
  IF HiLo("I128", tagged, CoerceInt64) # {} THEN HiLo("I128", tagged, CoerceInt64)
  ELSE {ScLimbs("I128", <<High(n), Low(n)>>) : n \in CoerceBigInt(payload)}

\* 256 bits come from 32 bytes, if the payload reads as that, and otherwise
\* from the magnitude of an integer.
Abs(n) == IF n < 0 THEN -n ELSE n
Magnitude(n) == [i \in 1..4 |-> (Abs(n) \div (LimbBase ^ (4 - i))) % LimbBase]
Parse256(type, payload) ==
  IF CoerceHash(payload) # {} THEN {ScLimbs(type, b) : b \in CoerceHash(payload)}
  ELSE {ScLimbs(type, Magnitude(n)) : n \in {x \in CoerceBigInt(payload) : Abs(x) < LimbBase ^ 4}}

-----------------------------------------------------------------------------
NumberTags == {"u32", "i32", "u64", "i64", "timepoint", "duration"}
ParseNumber(tag, v) ==
  {ScNumber(tag, n) : n \in CASE tag = "u32" -> CoerceUint32(v)
                              [] tag = "i32" -> CoerceInt32(v)
                              [] tag = "i64" -> CoerceInt64(v)
                              [] OTHER -> CoerceUint64(v)}
ShortcutTags ==
  NumberTags \cup {"u128", "i128", "u256", "i256", "symbol", "string", "bytes", "address", "vec", "bool", "void"}

RECURSIVE ParseScVal(_)

ParseVec(items) ==
  LET element(i) == ParseScVal(items[i]) IN {[Sc("Vec") EXCEPT !.items = e] : e \in Each(Len(items), element)}

EntryValue(item) == IF HasField(item, "val") THEN FieldOf(item, "val") ELSE FieldOf(item, "value")
IsEntry(item) == HasField(item, "key") /\ (HasField(item, "val") \/ HasField(item, "value"))
ParseEntries(items) ==
  LET entry(i) == IF ~IsEntry(items[i]) THEN {}
                  ELSE {[key |-> k, val |-> x] : k \in ParseScVal(FieldOf(items[i], "key")), x \in ParseScVal(EntryValue(items[i]))}
  IN  {[Sc("Map") EXCEPT !.entries = e] : e \in Each(Len(items), entry)}

\* An object without a tag: its keys are symbols, sorted.
ParseObject(v) ==
  LET names == SelectSeq(FieldOrder, LAMBDA f : HasField(v, f))
      entry(i) == {[key |-> ScBytes("Symbol", <<names[i]>>), val |-> x] : x \in ParseScVal(v.fields[names[i]])}
  IN  {[Sc("Map") EXCEPT !.entries = e] : e \in Each(Len(names), entry)}

RECURSIVE ParseMapOrTagged(_)

\* The whole object comes along: some tags read other fields of it.
ParseTagged(tag, payload, object) ==
  CASE tag \in NumberTags -> ParseNumber(tag, payload)
    [] tag = "void" -> {Sc("Void")}
    [] tag = "bool" -> {ScNumber("Bool", IF b THEN 1 ELSE 0) : b \in CoerceBool(payload)}
    [] tag = "u128" -> ParseU128(payload, object)
    [] tag = "i128" -> ParseI128(payload, object)
    [] tag = "u256" -> Parse256("U256", payload)
    [] tag = "i256" -> Parse256("I256", payload)
    [] tag = "bytes" -> {ScBytes("Bytes", b) : b \in CoerceBytes(payload)}
    [] tag = "string" -> {ScBytes("String", s) : s \in CoerceString(payload)}
    [] tag = "symbol" -> {ScBytes("Symbol", s) : s \in {x \in CoerceString(payload) : Len(x) <= 32}}
    [] tag = "vec" -> IF payload.sort = "array" THEN ParseVec(payload.items) ELSE {}
    [] tag = "map" /\ payload.sort = "array" -> ParseEntries(payload.items)
    [] tag = "map" /\ payload.sort = "object" -> ParseMapOrTagged(payload)
    [] tag = "address" -> IF IsNull(payload) THEN {} ELSE ParseString(payload)
    [] tag = "contract_instance" -> {Sc("LedgerKeyContractInstance")}
    [] tag = "error" -> {ScNumber("Error", n) : n \in CoerceUint32(FieldOf(object, "code"))}
    [] OTHER -> {}

ParseMapOrTagged(v) ==
  LET tags == {"type", "Type"} \cap DOMAIN v.fields
      shortcut == Cardinality(DOMAIN v.fields) = 1 /\ \A f \in DOMAIN v.fields : Lower(f) \in ShortcutTags
      tag == FieldOf(v, IF "type" \in tags THEN "type" ELSE "Type")
      only == CHOOSE f \in DOMAIN v.fields : TRUE
  IN  CASE tags # {} -> IF tag.sort = "text" THEN ParseTagged(Lower(tag.text), EntryValue(v), v) ELSE {}
        [] shortcut -> ParseTagged(Lower(only), v.fields[only], v)
        [] FieldOf(v, "entries").sort = "array" -> ParseEntries(FieldOf(v, "entries").items)
        [] OTHER -> ParseObject(v)

ParseScVal(v) ==
  CASE IsNull(v) -> {Sc("Void")}
    [] v.sort = "bool" -> {ScNumber("Bool", IF v.text = "true" THEN 1 ELSE 0)}
    [] v.sort \in {"int", "number"} /\ CoerceInt64(v) # {} /\ v.int # {} -> {ScNumber("i64", n) : n \in CoerceInt64(v)}
    [] v.sort = "int" -> {ScNumber("u64", n) : n \in CoerceUint64(v)}
    [] IsTextual(v) -> ParseString(v)
    [] v.sort = "array" -> ParseVec(v.items)
    [] v.sort = "object" -> ParseMapOrTagged(v)
    [] OTHER -> {}

=============================================================================
