-------------------------------- MODULE TxSchema --------------------------------
(***************************************************************************)
(* pkg/lens/validate.go: JSON checked against rules before it is built.    *)
(* A rule is a record of its sort, whether it is required or closed, the   *)
(* rules of its properties, the aliases of their names, the rule of its    *)
(* items, its allowed texts and its own check.  Errors are the paths       *)
(* where they were found.                                                  *)
(***************************************************************************)
EXTENDS TxBuilder

Rule(sort) ==
  [sort |-> sort, required |-> FALSE, closed |-> FALSE, properties |-> << >>, aliases |-> << >>, items |-> << >>,
   allowed |-> {}, check |-> ""]
Required(rule) == [rule EXCEPT !.required = TRUE]
Checked(rule, check) == [rule EXCEPT !.check = check]

\* Custom hooks.
ValidateAccountAddress(v) == v.sort = "text" /\ ((v.prefix = "G" /\ v.key # {}) \/ (v.prefix = "M" /\ v.muxed # {}))
ValidateContractAddress(v) == v.sort = "text" /\ v.prefix = "C" /\ v.key # {}
ValidateNonNegativeNumber(v) == \E n \in CoerceInt64(v) : n >= 0
ValidatePositiveAmount(v) == \E n \in CoerceAmount(v) : n > 0

HasAny(v, names) == \E f \in names : HasField(v, f)
RequiredNames ==
  [payment |-> {{"destination"}, {"amount"}}, create_account |-> {{"destination"}, {"starting_balance", "startingBalance"}},
   change_trust |-> {{"line", "asset"}}, manage_data |-> {{"data_name", "dataName", "name"}},
   bump_sequence |-> {{"bump_to", "bumpTo"}}, account_merge |-> {{"destination"}}]
ValidateOperationDetails(v) ==
  LET type == FieldOf(v, "type") kind == Lower(type.text)
  IN  v.sort = "object" /\ type.sort = "text" /\ kind \in DOMAIN RequiredNames =>
        \A names \in RequiredNames[kind] : HasAny(v, names)
ScValTypes ==
  NumberTags \cup {"bool", "void", "u128", "i128", "u256", "i256", "bytes", "string", "symbol", "vec", "map", "address",
                   "contract_instance", "error"}
ValidateScValTag(v) == HasField(v, "type") => FieldOf(v, "type").sort = "text" /\ Lower(FieldOf(v, "type").text) \in ScValTypes

Passes(check, v) ==
  CASE check = "account" -> ValidateAccountAddress(v)
    [] check = "nonnegative" -> ValidateNonNegativeNumber(v)
    [] check = "positive" -> ValidatePositiveAmount(v)
    [] check = "contract" -> ValidateContractAddress(v)
    [] check = "operation" -> ValidateOperationDetails(v)
    [] check = "scval" -> ValidateScValTag(v)
    [] OTHER -> TRUE

SortFits(sort, v) ==
  CASE sort = "string" -> v.sort = "text"
    [] sort = "integer" -> CoerceInt64(v) # {}
    [] sort = "number" -> v.sort \in {"int", "float", "number"} \/ (v.sort = "text" /\ CoerceInt64(v) # {})
    [] sort = "boolean" -> CoerceBool(v) # {}
    [] sort \in {"array", "object"} -> v.sort = sort
    [] OTHER -> TRUE

-----------------------------------------------------------------------------
\* ValidateValue.  When two names mean the same property, the one that comes
\* last in the iteration of the map is validated; order lists the names as the
\* iteration meets them.
Canonical(rule, f) == IF f \in DOMAIN rule.aliases THEN rule.aliases[f] ELSE f
Meant(v, rule, property, order) ==
  LET named == SelectSeq(order, LAMBDA f : HasField(v, f) /\ Canonical(rule, f) = property)
  IN  IF named = << >> THEN Null ELSE v.fields[Last(named)]
Unknown(v, rule, path) ==
  IF rule.closed THEN {Append(path, f) : f \in {g \in DOMAIN v.fields : Canonical(rule, g) \notin DOMAIN rule.properties}} ELSE {}

RECURSIVE Violations(_, _, _, _)
Violations(v, rule, path, order) ==
  LET properties == IF rule.sort = "object" THEN DOMAIN rule.properties ELSE {}
      elements == IF rule.sort = "array" /\ rule.items # << >> THEN DOMAIN v.items ELSE {}
      below == UNION {Violations(Meant(v, rule, p, order), rule.properties[p], Append(path, p), order) : p \in properties}
               \cup UNION {Violations(v.items[i], rule.items[1], Append(path, ToString(i - 1)), order) : i \in elements}
               \cup (IF rule.sort = "object" THEN Unknown(v, rule, path) ELSE {})
      refused == (rule.allowed # {} /\ v.text \notin rule.allowed) \/ ~Passes(rule.check, v)
  IN  CASE IsNull(v) -> IF rule.required THEN {path} ELSE {}
        [] ~SortFits(rule.sort, v) -> {path}
        [] OTHER -> below \cup (IF refused THEN {path} ELSE {})

-----------------------------------------------------------------------------
\* The schemas.
NonNegative == Checked(Rule("integer"), "nonnegative")
Properties(rule, properties) == [rule EXCEPT !.properties = properties]
Aliased(rule, aliases) == [rule EXCEPT !.aliases = aliases]
Closed(rule) == [rule EXCEPT !.closed = TRUE]
ListOf(rule) == [Rule("array") EXCEPT !.items = <<rule>>]

OperationSchema ==
  Aliased(Properties(Checked(Rule("object"), "operation"),
                     [type |-> Required(Rule("string")), source_account |-> Checked(Rule("string"), "account")]),
          [sourceAccount |-> "source_account", source |-> "source_account"])
Bounds == Closed(Properties(Rule("object"), [min |-> NonNegative, max |-> NonNegative]))
SignatureSchema == Closed(Properties(Rule("object"), [hint |-> Rule("string"), signature |-> Required(Rule("string"))]))
FeeBumpSchema ==
  Aliased(Closed(Properties(Rule("object"),
                            [fee_source |-> Required(Checked(Rule("string"), "account")),
                             max_fee |-> Required(Checked(Rule("number"), "nonnegative")), inner_tx |-> Rule("any")])),
          [feeSource |-> "fee_source", maxFee |-> "max_fee"])
StrictTxSpecSchema ==
  Aliased(Closed(Properties(Rule("object"),
    [source_account |-> Required(Checked(Rule("string"), "account")),
     fee |-> Required(Checked(Rule("number"), "nonnegative")),
     sequence |-> Required(NonNegative),
     memo |-> Rule("any"),
     time_bounds |-> Aliased(Bounds, [minTime |-> "min", maxTime |-> "max"]),
     ledger_bounds |-> Bounds,
     min_seq_num |-> NonNegative, min_seq_age |-> NonNegative, min_seq_ledger_gap |-> NonNegative,
     extra_signers |-> ListOf(Rule("string")),
     operations |-> Required(ListOf(OperationSchema)),
     signatures |-> ListOf(SignatureSchema),
     soroban_data |-> Rule("object"),
     type |-> [Rule("string") EXCEPT !.allowed = {"v1", "v0", "fee_bump"}],
     fee_bump |-> FeeBumpSchema])),
   [sourceAccount |-> "source_account", source |-> "source_account", seqNum |-> "sequence", sequenceNumber |-> "sequence",
    timeBounds |-> "time_bounds", ledgerBounds |-> "ledger_bounds", sorobanData |-> "soroban_data",
    extraSigners |-> "extra_signers", feeBump |-> "fee_bump"])
StrictScValSpecSchema == Checked(Rule("any"), "scval")

\* ValidateJSON: the sets of errors it may report.
Orders == {FieldOrder, Reverse(FieldOrder)}
ValidateTx(v) == {Violations(v, StrictTxSpecSchema, << >>, order) : order \in Orders}
ValidateScVal(v) == {Violations(v, StrictScValSpecSchema, << >>, order) : order \in Orders}
=============================================================================
