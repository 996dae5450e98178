------------------------------- MODULE JsonEncoding -------------------------------
(***************************************************************************)
(* EncodeJSON and its relatives from a document to XDR: the text that is   *)
(* passed through, the encoder that follows the Go types, the two builders *)
(* it falls back to, and strict building, which validates first.  Next to  *)
(* them the coercions by themselves, the JSON round trip of a value, and   *)
(* two goroutines that look up names of one enum.                          *)
(***************************************************************************)
EXTENDS TxSchema, JsonEncoder, EnumCaches

CONSTANTS
  Families,  \* the documents: a sequence of sets of jobs
  Registry   \* the registered types by name

VARIABLES
  job,      \* what is encoded
  stage,    \* where it stands
  typeName, value,  \* the type it is encoded as and the JSON that is read
  problems, \* what validation found
  result    \* the value, and the way it came about

vars == <<job, stage, typeName, value, problems, result, cacheVars>>

NoResult == [by |-> "", value |-> {}, errors |-> {}]
Idle == [c \in Callers |-> Call("done", Enum(<< >>, << >>), Null)]
Init ==
  /\ \E i \in DOMAIN Families : job \in Families[i]
  /\ stage = job.entry /\ typeName = job.type /\ value = job.input
  /\ problems = {} /\ result = NoResult
  /\ IF job.entry = "lookup" THEN LookupsInit([c \in Callers |-> job.enum], job.input.parts) ELSE CachesInit(Idle)

Goes(next) == stage' = next
Succeed(by, v) == stage' = "done" /\ result' = [by |-> by, value |-> {v}, errors |-> {}]
Fail(errors) == stage' = "failed" /\ \E e \in errors : result' = [by |-> "", value |-> {}, errors |-> {e}]

-----------------------------------------------------------------------------
\* EncodeJSON and EncodeJSONAs.
PassThroughKeys == <<"xdr", "base64", "payload", "raw">>
PassedThrough(doc) ==
  LET there == SelectSeq(PassThroughKeys, LAMBDA k : FieldOf(doc, k).sort = "text" /\ FieldOf(doc, k).text # "")
  IN  IF there = << >> THEN {} ELSE {FieldOf(doc, Head(there))}
DetectJSONEncodeType(doc) ==
  IF HasAny(doc, {"source_account", "sourceAccount", "operations", "fee_bump"}) THEN "TransactionEnvelope" ELSE "ScVal"

PassThrough ==
  /\ stage \in {"document", "typed"}
  /\ PassedThrough(value) # {}
  /\ \E x \in PassedThrough(value) : Succeed("passed", x)
  /\ UNCHANGED <<job, typeName, value, problems, cacheVars>>

\* A document with a value needs a type, and gets no second chance.
ReadDocument ==
  LET named == FieldOf(value, "type")
      type == IF named.sort = "text" THEN named.text ELSE ""
  IN  /\ stage = "document" /\ PassedThrough(value) = {}
      /\ CASE HasField(value, "value") /\ type = "" -> Fail({"invalid"}) /\ UNCHANGED <<typeName, value>>
           [] HasField(value, "value") -> /\ Goes("structural only") /\ typeName' = type
                                          /\ value' = FieldOf(value, "value") /\ UNCHANGED result
           [] OTHER -> /\ Goes("typed") /\ typeName' = IF type = "" THEN DetectJSONEncodeType(value) ELSE type
                       /\ UNCHANGED <<value, result>>
      /\ UNCHANGED <<job, problems, cacheVars>>

Unwrap ==
  /\ stage = "typed" /\ PassedThrough(value) = {}
  /\ Goes("structural") /\ value' = IF HasField(value, "value") THEN FieldOf(value, "value") ELSE value
  /\ UNCHANGED <<job, typeName, problems, result, cacheVars>>

Builder == IF typeName = "ScVal" THEN "literal" ELSE IF typeName = "TransactionEnvelope" THEN "unmarshal" ELSE "none"
EncodeStructurally ==
  LET known == typeName \in DOMAIN Registry
      outcome == IF known THEN EncodeJSONValue(Registry[typeName], value) ELSE Err("unknown type")
  IN  /\ stage \in {"structural", "structural only"}
      /\ \/ \E x \in outcome.values : Succeed("structural", x) /\ UNCHANGED value
         \/ /\ outcome.errors # {}
            /\ IF stage = "structural" /\ Builder # "none"
                 THEN Goes(Builder) /\ value' = job.input /\ UNCHANGED result
                 ELSE Fail(outcome.errors) /\ UNCHANGED value
      /\ UNCHANGED <<job, typeName, problems, cacheVars>>

\* The builders read the whole document again.
EncodeLiteral ==
  /\ stage = "literal"
  /\ IF ParseScVal(value) = {} THEN Fail({"invalid"}) ELSE \E x \in ParseScVal(value) : Succeed("literal", x)
  /\ UNCHANGED <<job, typeName, value, problems, cacheVars>>

-----------------------------------------------------------------------------
\* Strict encoding, which validates a document as what it is to become, and
\* the transaction builder, which it shares with the rest.
Validate ==
  /\ stage = "strict"
  /\ problems' \in IF typeName = "ScVal" THEN ValidateScVal(value) ELSE ValidateTx(value)
  /\ IF problems' = {} THEN Goes(Builder) /\ UNCHANGED result ELSE Fail({"refused"})
  /\ UNCHANGED <<job, typeName, value, cacheVars>>
UnmarshalTx ==
  /\ stage = "unmarshal"
  /\ IF UnmarshalTxSpec(value) = {} THEN Fail({"invalid"}) /\ UNCHANGED value
     ELSE Goes("build") /\ value' \in UnmarshalTxSpec(value) /\ UNCHANGED result
  /\ UNCHANGED <<job, typeName, problems, cacheVars>>
BuildTx ==
  /\ stage = "build"
  /\ \/ BuildTransactionEnvelope(value) = {} /\ Fail({"invalid"})
     \/ \E e \in BuildTransactionEnvelope(value) :
          CASE Stops(e) -> Goes("stopped") /\ UNCHANGED result
            [] ~Marshals(e) -> Fail({"invalid"})
            [] OTHER -> Succeed("template", e)
  /\ UNCHANGED <<job, typeName, value, problems, cacheVars>>

-----------------------------------------------------------------------------
\* Coercions, literals and round trips that are called by themselves.
Coerced(kind, v) ==
  CASE kind = "amount" -> CoerceAmount(v)
    [] kind = "price" -> CoercePrice(v)
    [] kind = "int64" -> CoerceInt64(v)
    [] kind = "uint32" -> CoerceUint32(v)
    [] kind = "account" -> CoerceMuxedAccount(v)
    [] kind = "line" -> CoerceChangeTrustAsset(v)
    [] OTHER -> CoerceBytes(v)
Coercion ==
  /\ stage = "coerce"
  /\ LET values == Coerced(typeName, value)
     IN  IF values = {} THEN Fail({"invalid"}) ELSE \E x \in values : Succeed("coerced", x)
  /\ UNCHANGED <<job, typeName, value, problems, cacheVars>>

\* roundTripFrom: what comes back is reported; a route that cannot carry the
\* value is skipped.
RoundTrip ==
  /\ stage = "round trip"
  /\ LET outcome == RoundTripJSON(Registry[typeName], job.xdr)
     IN  \/ \E x \in outcome.values : Succeed("round trip", x)
         \/ outcome.errors # {} /\ Fail(outcome.errors)
  /\ UNCHANGED <<job, typeName, value, problems, cacheVars>>

Lookup ==
  /\ stage = "lookup" /\ LookupNext
  /\ UNCHANGED <<job, stage, typeName, value, problems, result>>

Finished == stage \in {"done", "failed", "stopped"} \/ (stage = "lookup" /\ \A c \in Callers : At(c, "done"))
Stopped == Finished /\ UNCHANGED vars

Next ==
  \/ PassThrough \/ ReadDocument \/ Unwrap \/ EncodeStructurally \/ EncodeLiteral
  \/ Validate \/ UnmarshalTx \/ BuildTx
  \/ Coercion \/ RoundTrip \/ Lookup \/ Stopped
Spec == Init /\ [][Next]_vars

-----------------------------------------------------------------------------
(***************************************************************************)
(* Properties.                                                             *)
(***************************************************************************)
Done(by) == stage = "done" /\ result.by = by
TheValue == CHOOSE x \in result.value : TRUE

\* Type invariant: what has ended has a value or an error, and only that.
EncodingTypeOK ==
  /\ stage \in {"document", "typed", "structural", "structural only", "literal", "strict", "unmarshal", "build", "coerce",
                "round trip", "lookup", "done", "failed", "stopped"}
  /\ (result.value # {}) = (stage = "done")
  /\ (result.errors # {}) = (stage = "failed")

\* coerce.go 409-411: a whole number is stroops, a number with a decimal point
\* is units, to the last stroop, whether it comes as a number or as text.  (The
\* whole number 2^63 passes the range check and is what the processor makes it.)
AmountsExact ==
  Done("coerced") /\ typeName = "amount" =>
    \A r \in value.real \ {(MaxInt64 + 1) * RealScale} :
      IF value.sort = "float" THEN Abs(TheValue * RealScale - r * Stroops) * 2 <= RealScale
      ELSE TheValue * RealScale = IF value.dot /\ value.unit \notin {"stroop", "stroops"} THEN r * Stroops ELSE r

\* coerce.go floatToPrice: a fraction is kept as it is given; a decimal comes
\* as near as the last denominator allows, unless that leaves 32 bits.
PricesExact ==
  Done("coerced") /\ typeName = "price" =>
    /\ TheValue.d # 0
    /\ value.separator = "/" => TheValue.n \in value.parts[1].int /\ TheValue.d \in value.parts[2].int
    /\ \A r \in value.real : RoundTo(r, LastDenominator) <= MaxInt32 =>
         2 * LastDenominator * Abs(TheValue.n * RealScale - r * TheValue.d) <= RealScale * TheValue.d

\* scval_encode.go: an integer that fits the width of its tag is accepted and
\* written as that integer, in two's complement when the tag is signed.
Power(n) == LimbBase ^ n
Meaning(limbs, signed) ==
  LET n == Len(limbs)
      sum == FoldLeft(LAMBDA acc, i : acc + limbs[i] * Power(n - i), 0, [i \in 1..n |-> i])
  IN  IF signed /\ sum >= Power(n) \div 2 THEN sum - Power(n) ELSE sum
WideIntegersExact ==
  stage \in {"done", "failed"} /\ job.entry \in {"document", "typed"} =>
    \A tag \in {"u128", "i128", "u256"} \cap DOMAIN job.input.fields : \A n \in FieldOf(job.input, tag).int :
      LET top == LimbBase ^ (IF tag = "u256" THEN 4 ELSE 2)
          fits == IF tag = "i128" THEN Between(n, -(top \div 2), (top \div 2) - 1) ELSE Between(n, 0, top - 1)
      IN  fits => Done("literal") /\ Meaning(TheValue.limbs, tag = "i128") = n

\* scval_encode.go: the map that an object without a tag becomes has every
\* field once, in the order of its keys, whatever the order in the document,
\* at every level.
RECURSIVE SortedMaps(_)
SortedMaps(sc) ==
  /\ sc.type = "Map" => LET at(i) == CHOOSE k \in DOMAIN FieldOrder : sc.entries[i].key = ScBytes("Symbol", <<FieldOrder[k]>>)
                        IN  \A i \in DOMAIN sc.entries : i > 1 => at(i - 1) < at(i)
  /\ \A i \in DOMAIN sc.entries : SortedMaps(sc.entries[i].val)
  /\ \A i \in DOMAIN sc.items : SortedMaps(sc.items[i])
HasEntryList(v) == v.sort = "object" /\ \E f \in DOMAIN v.fields : f = "entries" \/ v.fields[f].sort = "array"
MapKeysSorted == Done("literal") /\ ~HasEntryList(job.input) => SortedMaps(TheValue)

\* tx_builder.go: the sequence number of a template is that of the envelope,
\* if it is text or under one of the two other names.  (A number above 2^53
\* under its own name is rounded on the way, the largest out of the range.)
TheTx == CHOOSE t \in Transaction(TheValue) : TRUE
Template == job.input
SequenceExact ==
  Done("template") /\ TheValue.type # "fee_bump" =>
    LET own == FieldOf(Template, "sequence") other == FirstOf(Template, <<"seqNum", "sequenceNumber">>, Given)
    IN  /\ own.sort = "text" => TheTx.seq \in CoerceInt64(own)
        /\ IsNull(own) => TheTx.seq \in CoerceInt64(other)
        /\ own.sort = "number" => \E n \in own.int : TheTx.seq = AsFloat(n) \/ AsFloat(n) > MaxInt64

\* tx_builder.go: a v1 envelope has every condition of its template, or is not
\* built; an extra signer that is no account is left out.
ConditionsKept ==
  Done("template") /\ TheValue.type = "v1" =>
    LET kept == TheTx.cond
        bounds(f) == LET b == FieldOf(Template, f) IN IF IsNull(b) THEN {} ELSE {<<n, m>> : n \in FieldOf(b, "min").int, m \in FieldOf(b, "max").int}
    IN  /\ kept.time = bounds("time_bounds")
        /\ kept.ledger = bounds("ledger_bounds")
        /\ kept.minSeq = FieldOf(Template, "min_seq_num").int
        /\ kept.age = (IF IsNull(FieldOf(Template, "min_seq_age")) THEN 0 ELSE CHOOSE n \in FieldOf(Template, "min_seq_age").int : TRUE)

\* tx_builder.go 458-468: the operations of the envelope are those of the
\* template, one for one and in order: none is skipped because it is wrong.
OperationsKept ==
  Done("template") =>
    LET specs == Items(Template, "operations") ops == Ops(TheValue)
    IN  /\ Len(ops) = Len(specs)
        /\ \A i \in DOMAIN ops : ops[i].type = OperationType(specs[i])
                                 /\ (ops[i].source # {}) = ~Empty(FieldOf(specs[i], "source_account"))

\* tx_builder.go 330-377: a signature of a template is in one place of the
\* envelope, the outer one unless it is given with the inner transaction.
SignaturesInOnePlace ==
  Done("template") =>
    LET outer == Len(Items(Template, "signatures"))
        inner == Len(Items(FieldOf(FieldOf(Template, "fee_bump"), "inner_tx"), "signatures"))
    IN  /\ Len(TheValue.signatures) = outer
        /\ \A i \in TheValue.inner : Len(i.signatures) = inner

\* What strict validation lets through and the builder may still refuse: the
\* parts the schema does not look into, numbers wider than their field, bounds
\* of which one end is missing, a fee bump that is announced and missing, and
\* the version 0 of a transaction from a multiplexed account.
Above(v, limit) == \E n \in CoerceInt64(v) : n > limit
Unlooked(v) ==
  LET spec == WithoutUseNumber(v) ops == Items(spec, "operations") soroban == FieldOf(spec, "soroban_data")
  IN  \/ \E i \in DOMAIN ops : LET type == OperationType(ops[i])
                               IN  ~OperationFits(ops[i]) \/ BodiesOf(ops[i], type) = {}
                                   \/ (type = "invoke_host_function" /\ \E b \in BodiesOf(ops[i], type) : b.call = {})
      \/ BuildMemo(FieldOf(spec, "memo")) = {} \/ BuildSignatures(spec) = {}
      \/ ~SorobanFits(soroban) \/ BuildExt(soroban) = {}
      \/ ~IsNull(FieldOf(FieldOf(v, "fee_bump"), "inner_tx"))
TooWide(v) ==
  Above(FieldOf(v, "fee"), MaxUint32) \/ Above(FieldOf(v, "min_seq_ledger_gap"), MaxUint32)
  \/ \E f \in {"min", "max"} : Above(FieldOf(FieldOf(v, "ledger_bounds"), f), MaxUint32)
HalfBounds(v) ==
  \E b \in {"time_bounds", "ledger_bounds"} : \E f \in {"min", "max"} : ~IsNull(FieldOf(v, b)) /\ IsNull(FieldOf(FieldOf(v, b), f))
LeftToBuilder(v) ==
  \/ Unlooked(v) \/ TooWide(v) \/ HalfBounds(v)
  \/ FieldOf(v, "type").text = "fee_bump" /\ IsNull(FieldOf(v, "fee_bump"))
  \/ FieldOf(v, "type").text = "v0" /\ \E f \in {"source_account", "sourceAccount", "source"} : FieldOf(v, f).prefix = "M"

\* The schema and the builder mean the same field by a name that is the
\* field's own, or that of a fallback; the other aliases of the schema pass
\* validation and are dropped.
Fallbacks == {"sourceAccount", "source", "seqNum", "sequenceNumber"}
NamesShared(v) ==
  /\ \A f \in DOMAIN v.fields \ Fallbacks : Canonical(StrictTxSpecSchema, f) = f
  /\ \A f, g \in DOMAIN v.fields : Canonical(StrictTxSpecSchema, f) = Canonical(StrictTxSpecSchema, g) => f = g
  /\ LET bump == FieldOf(v, "fee_bump") IN \A f \in {"fee_source", "max_fee"} : ~IsNull(bump) => HasField(bump, f)

\* validate.go 175-183 and tx_builder.go 865-900: a template that names each
\* field once, by a name the two share, and passes strict validation, is built
\* or refused for what validation leaves to the builder; and the fee, source
\* and sequence number of the envelope are the ones that were validated, so
\* none is negative.  (The number 2^63 - 1 becomes 2^63 on its way.)
ValidatedTemplatesBuild ==
  job.entry = "strict" /\ job.type # "ScVal" /\ problems = {} /\ NamesShared(Template) =>
    /\ stage = "failed" => LeftToBuilder(Template)
    /\ Done("template") /\ IsNull(FieldOf(FieldOf(Template, "fee_bump"), "inner_tx")) =>
         LET given(p) == Template.fields[CHOOSE f \in DOMAIN Template.fields : Canonical(StrictTxSpecSchema, f) = p]
             sequence == given("sequence")
             largest == sequence.sort = "number" /\ Above(sequence, MaxInt64 - 1)
         IN  /\ TheTx.source \in CoerceMuxedAccount(given("source_account"))
             /\ TheTx.fee \in CoerceUint32(given("fee"))
             /\ largest \/ (TheTx.seq >= 0 /\ \E n \in CoerceInt64(sequence) : TheTx.seq \in {n, AsFloat(n)})

\* encode.go 26-32: encoding what decode prints gives the value again.  What is
\* known to be lost: data that is printable and reads as hexadecimal, the
\* failures of a peer and the family of an IPv4 address in IPv6 form, the width
\* of a short asset code in a long field, and a pool in a trust line.
ShortInLong(a) == a.type = "alphanum12" /\ Len(a.code) <= 4
Lossy(t, x) ==
  CASE t.kind = "data" -> HexReading(x) # {} /\ x # << >> /\ ToSet(x) \subseteq Printable
    [] t.kind = "peer" -> x.failures # 0 \/ x.ip.mapped
    [] t.kind \in {"asset", "trustline", "changetrust"} -> ShortInLong(x) \/ x.type = "pool"
    [] t.kind = "pool" -> ShortInLong(x.assetA) \/ ShortInLong(x.assetB)
    [] OTHER -> FALSE
InverseUnlessKnown ==
  Done("round trip") => TheValue = Wire(Registry[typeName], job.xdr) \/ Lossy(Registry[typeName], job.xdr)

\* The round trip fails or is skipped only for what has no text that can be
\* read back: predicates, pool shares, assets without a code, addresses of
\* other kinds, and values deeper than the walk goes.
RECURSIVE Depth(_)
Depth(t) ==
  IF t.kind \in {"struct", "union"} THEN 1 + CHOOSE d \in 0..9 : \E f \in DOMAIN t.fields : Depth(t.fields[f]) = d
                                                                  /\ \A g \in DOMAIN t.fields : Depth(t.fields[g]) <= d
  ELSE IF t.elem # << >> THEN (IF t.kind = "list" THEN 1 ELSE 0) + Depth(t.elem[1]) ELSE 0
NoCode(a) == a.type \in {"alphanum4", "alphanum12"} /\ a.code = << >>
Unreadable(t, x) ==
  \/ t.kind = "predicate" \/ Depth(t) > MaxDepth
  \/ t.kind = "changetrust" /\ x.type = "pool"
  \/ t.kind \in {"asset", "trustline", "changetrust"} /\ NoCode(x)
  \/ t.kind = "pool" /\ (NoCode(x.assetA) \/ NoCode(x.assetB))
  \/ t.kind = "address" /\ x.prefix \notin {"G", "C"}
  \/ t.kind = "executable" /\ x.type = "external" /\ x.owner.prefix \notin {"G", "C"}
RoundTripFailsKnown == stage = "failed" /\ job.entry = "round trip" => Unreadable(Registry[typeName], job.xdr)

\* However the lookups of two goroutines interleave, each finds what it would
\* find alone, and the rendering of a constant finds that constant.
LookupsAsIfAlone ==
  stage = "lookup" =>
    /\ EachAsIfAlone
    /\ \A c \in Callers : \A k \in ToSet(EnumOf(c).constants) :
         At(c, "done") /\ TextOfCall(c) = EnumText(EnumOf(c), k.value) => calls[c].found = {k.value}

\* coerce.go and scval_encode.go: a template's value is encoded as the value it
\* denotes or refused; no amount, price, integer or map becomes another one.
CoercionsExact ==
  EncodingTypeOK /\ AmountsExact /\ PricesExact /\ WideIntegersExact /\ MapKeysSorted

\* tx_builder.go: the envelope says what the template says, in the version that
\* the code chooses for it.
EnvelopeAsTemplate ==
  SequenceExact /\ ConditionsKept /\ OperationsKept /\ SignaturesInOnePlace

\* roundtrip.go 287 and encode.go 799: a value written as JSON and read again is
\* the same value, but for the kinds listed above.
RoundTripsExact ==
  InverseUnlessKnown /\ RoundTripFailsKnown

\* encode.go 1048-1079: the caches of enum names may be filled by several
\* goroutines at once, and each of them finds what it would find alone.
CachesConsistent ==
  NamesBeforeEntries /\ LookupsAsIfAlone
=============================================================================
