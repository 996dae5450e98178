----------------------------- MODULE ResultAnalyses -----------------------------
(***************************************************************************)
(* What the explain command and its library say of a TransactionResult,    *)
(* alone and beside its TransactionEnvelope, and of a simulated one:       *)
(* explain.go, op_isolator.go, feebump_explain.go,                         *)
(* envelope_result_diff.go, resource_explain.go, sponsorship_explain.go    *)
(* and simulation_explain.go. A reason is the family of a result code and  *)
(* the code; its wording and the hints drawn from an operation's body are  *)
(* left out. Operations are counted from 1.                                *)
(***************************************************************************)
EXTENDS Integers, Sequences, SequencesExt, FiniteSets

\* The XDR of a result: the inner pair of a fee bump as a set of one, and one
\* result an operation, which is that of an operation body ("opInner") or says
\* why there is none.
OperationResult(code, arm, armCode) == [code |-> code, arm |-> arm, armCode |-> armCode]
TransactionResult(code, results, inner) == [code |-> code, results |-> results, inner |-> inner]
ResultsOf(r) == IF r.code \in {"txSuccess", "txFailed"} THEN {r.results} ELSE {}
OperationResults(res) ==
  IF res.inner = {} THEN ResultsOf(res) ELSE UNION {ResultsOf(pair) : pair \in res.inner}
Successful(res) == res.code \in {"txSuccess", "txFeeBumpInnerSuccess"}

Reason(family, code) == [family |-> family, code |-> code]
TransactionReason(code) == Reason("transaction", code)
InnerReason(res) == {TransactionReason(pair.code) : pair \in res.inner}

\* explainOperationResult prefers the code of the operation's own result.
ExplainOperationResult(r) ==
  IF r.code = "opInner" THEN Reason(r.arm, r.armCode) ELSE Reason("operation", r.code)
Succeeded(r) == ExplainOperationResult(r).code = "success"

Indexes(s) == [i \in DOMAIN s |-> i]
FailedOpIndexes(res) ==
  UNION {ToSet(SelectSeq(Indexes(results), LAMBDA i : ~Succeeded(results[i]))) : results \in OperationResults(res)}
First(indexes) == IF indexes = {} THEN {} ELSE {CHOOSE i \in indexes : \A j \in indexes : i <= j}

-----------------------------------------------------------------------------
\* attachResult goes through the results itself; those beyond the operations are
\* listed as unknown ones.
AttachResult(ops, res) ==
  LET results == UNION {ToSet(<<r>>) : r \in OperationResults(res)}
      count == Len(ops) + Cardinality({i \in UNION {DOMAIN r : r \in results} : i > Len(ops)})
      result(i) == {ExplainOperationResult(r[i]) : r \in {x \in results : i \in DOMAIN x}}
  IN  [success |-> Successful(res), reason |-> TransactionReason(res.code), inner |-> InnerReason(res),
       failedOps |-> UNION {{i \in DOMAIN r : ExplainOperationResult(r[i]).code # "success"} : r \in results},
       operations |-> [i \in 1..count |-> [type |-> IF i <= Len(ops) THEN ops[i] ELSE "unknown", result |-> result(i)]]]

\* resultHeadline: what the first line is about, an operation or a reason.
ResultHeadline(s) ==
  CASE s.success                                   -> [about |-> "success", operation |-> {}, reason |-> {}]
    [] ~s.success /\ s.failedOps # {}              -> [about |-> "operation", operation |-> First(s.failedOps),
                                                       reason |-> UNION {s.operations[i].result : i \in First(s.failedOps)}]
    [] ~s.success /\ s.failedOps = {} /\ s.inner # {} /\ \A r \in s.inner : r.code # "txSuccess"
                                                   -> [about |-> "inner", operation |-> {}, reason |-> s.inner]
    [] OTHER                                       -> [about |-> "transaction", operation |-> {}, reason |-> {s.reason}]

\* IsolateFailure.  A failed transaction none of whose operations failed gets
\* its first operation.
ResolveOpType(ops, results, i) ==
  CASE i \in DOMAIN ops                                      -> ops[i]
    [] i \notin DOMAIN ops /\ results[i].code = "opInner"    -> results[i].arm
    [] OTHER                                                 -> "unknown"
Isolated(stage, index, type, reason, all) ==
  [stage |-> stage, index |-> index, type |-> type, reason |-> reason, all |-> all]
IsolateLastFailure(results, ops) ==
  LET failed == {i \in DOMAIN results : ~Succeeded(results[i])}
      index == IF failed = {} THEN 1 ELSE CHOOSE i \in failed : \A j \in failed : i >= j
  IN  IF results = << >> THEN Isolated("operation", {}, "", TransactionReason("txFailed"), {})
      ELSE Isolated("operation", {index}, ResolveOpType(ops, results, index), ExplainOperationResult(results[index]), failed)
IsolateOperationFailure(results, ops) ==
  LET failed == {i \in DOMAIN results : ~Succeeded(results[i])}
      index == IF failed = {} THEN 1 ELSE CHOOSE i \in First(failed) : TRUE
  IN  IF results = << >> THEN Isolated("operation", {}, "", TransactionReason("txFailed"), {})
      ELSE Isolated("operation", {index}, ResolveOpType(ops, results, index), ExplainOperationResult(results[index]), failed)
IsolateOutermost(ops, res) ==
  CASE Successful(res)            -> Isolated("none", {}, "", TransactionReason(res.code), {})
    [] res.code = "txFailed"      -> IsolateOperationFailure(res.results, ops)
    [] OTHER                      -> Isolated("pre_operation", {}, "", TransactionReason(res.code), {})
IsolateFailure(ops, res) ==
  LET failing == {pair \in res.inner : res.code = "txFeeBumpInnerFailed"}
      ran == {r \in failing \cup {res} : r.code = "txFailed"}
      code == IF failing = {} THEN res.code ELSE (CHOOSE pair \in failing : TRUE).code
  IN  CASE Successful(res)                 -> Isolated("none", {}, "", TransactionReason(res.code), {})
        [] ~Successful(res) /\ ran # {}    -> IsolateOperationFailure((CHOOSE r \in ran : TRUE).results, ops)
        [] OTHER                           -> Isolated("pre_operation", {}, "", TransactionReason(code), {})

\* DiagnoseFeeBump.
DiagnoseFeeBump(feeBump, res) ==
  [isFeeBump |-> feeBump, success |-> Successful(res), failed |-> FailedOpIndexes(res),
   inner |-> IF feeBump THEN InnerReason(res) ELSE {},
   stage |-> CASE ~feeBump                                           -> "not_fee_bump"
               [] feeBump /\ res.code = "txFeeBumpInnerSuccess"      -> "none"
               [] feeBump /\ res.code = "txFeeBumpInnerFailed"       -> "inner"
               [] OTHER                                              -> "outer"]

-----------------------------------------------------------------------------
\* DiffEnvelopeResult: operations beside their results.
OperationResultArmType(r) == IF r.code = "opInner" THEN {r.arm} ELSE {}
OperationVerdict(status, mismatched, changes) == [status |-> status, mismatched |-> mismatched, changes |-> changes]
AlignBoth(ops, results, i) ==
  LET mismatched == \E arm \in OperationResultArmType(results[i]) : arm # ops[i]
      typed == IF mismatched THEN {"type_changed"} ELSE {}
  IN  IF Succeeded(results[i]) THEN OperationVerdict("success", mismatched, typed)
      ELSE OperationVerdict("failed", mismatched, typed \cup {"modified"})
AlignOperation(ops, results, ran, i) ==
  CASE i \in DOMAIN ops /\ i \in DOMAIN results    -> AlignBoth(ops, results, i)
    [] i \notin DOMAIN ops                         -> OperationVerdict("unpaired_result", FALSE, {"added"})
    [] i \notin DOMAIN results /\ ran              -> OperationVerdict("missing_result", FALSE, {"removed"})
    [] OTHER                                       -> OperationVerdict("not_run", FALSE, {})
DiffEnvelopeResult(ops, res) ==
  LET ran == OperationResults(res) # {}
      results == IF ran THEN CHOOSE r \in OperationResults(res) : TRUE ELSE << >>
      total == IF Len(results) > Len(ops) THEN Len(results) ELSE Len(ops)
  IN  [success |-> Successful(res), ran |-> ran,
       operations |-> [i \in 1..total |-> AlignOperation(ops, results, ran, i)]]
WithStatus(diff, status) == {i \in DOMAIN diff.operations : diff.operations[i].status = status}

-----------------------------------------------------------------------------
\* DiagnoseResourceFailure: the declaration, or the first invocation that ran
\* out of what was declared.
ResourceFailureDetails == [resourceLimitExceeded |-> "limit_exceeded", insufficientRefundableFee |-> "insufficient_refundable_fee"]
ExhaustedOps(res) ==
  UNION {{i \in DOMAIN results : results[i].code = "opInner" /\ results[i].arm = "invokeHostFunction"
                                 /\ results[i].armCode \in DOMAIN ResourceFailureDetails} : results \in OperationResults(res)}
DiagnoseResourceFailure(res) ==
  IF res.code = "txSorobanInvalid" THEN {[kind |-> "invalid_declaration", index |-> 0]}
  ELSE {[kind |-> ResourceFailureDetails[(CHOOSE r \in OperationResults(res) : TRUE)[i].armCode], index |-> i] :
          i \in First(ExhaustedOps(res))}

\* inspectSponsorshipSequence: pairs of begin and end, whoever is sponsored.
SponsorshipTypes == {"beginSponsoring", "endSponsoring", "revokeSponsorship"}
InspectNext(state, i, type) ==
  CASE type = "beginSponsoring" /\ state.pending = 0  -> [state EXCEPT !.pending = i]
    [] type = "beginSponsoring" /\ state.pending # 0  -> [state EXCEPT !.conflicts = @ \cup {<<"nested", i>>}]
    [] type = "endSponsoring" /\ state.pending = 0    -> [state EXCEPT !.conflicts = @ \cup {<<"unopened", i>>}]
    [] type = "endSponsoring" /\ state.pending # 0    -> [state EXCEPT !.pending = 0]
    [] OTHER                                          -> state
Unended(state) == state.conflicts \cup (IF state.pending # 0 THEN {<<"unended", state.pending>>} ELSE {})
InspectSponsorshipSequence(ops) ==
  Unended(FoldLeft(LAMBDA state, i : InspectNext(state, i, ops[i]), [pending |-> 0, conflicts |-> {}], Indexes(ops)))

\* DiagnoseSponsorship.
FailedSponsorships(res) ==
  UNION {{i \in DOMAIN results : ExplainOperationResult(results[i]).family \in SponsorshipTypes /\ ~Succeeded(results[i])} :
           results \in OperationResults(res)}
DiagnoseSponsorship(ops, res) ==
  LET code == IF res.inner = {} THEN res.code ELSE (CHOOSE pair \in res.inner : TRUE).code
      bad == code = "txBadSponsorship"
  IN  IF ~bad /\ FailedSponsorships(res) = {} THEN {}
      ELSE {[transaction |-> bad, operation |-> IF bad THEN {} ELSE First(FailedSponsorships(res)),
             conflicts |-> InspectSponsorshipSequence(ops)]}

-----------------------------------------------------------------------------
\* Of the text of a simulation's error, the set of vocabularies its words belong
\* to; "limit" stands for the phrases about a budget that name no resource.
\* classifySimulationError tries the vocabularies in order.  Any mention of
\* memory makes an exhausted budget one of memory.
ClassifySimulationError(words) ==
  IF "footprint" \in words THEN "missing_footprint"
  ELSE IF words \cap {"cpu", "limit"} # {} THEN IF "memory" \in words THEN "memory_exceeded" ELSE "cpu_exceeded"
  ELSE IF "fee" \in words THEN "insufficient_fee"
  ELSE IF "archived" \in words THEN "archived_entry"
  ELSE IF "auth" \in words THEN "auth_missing"
  ELSE IF "trapped" \in words THEN "contract_trapped"
  ELSE IF "invalid" \in words THEN "invalid_input"
  ELSE "unknown"

SimulationDiagnosis(success, kind) == [success |-> success, kind |-> kind, missingKeys |-> {}]
SimulationSuccess == SimulationDiagnosis(TRUE, "success")

\* An error is the empty set or the set of one set of words.
DiagnoseSimulationError(error) ==
  IF error = {} THEN SimulationSuccess
  ELSE SimulationDiagnosis(FALSE, ClassifySimulationError(CHOOSE words \in error : TRUE))

\* DiagnoseResourceExhaustion; a limit of zero is not known.
Over(used, limit) == limit > 0 /\ used > limit
DiagnoseResourceExhaustion(cpu, memory) ==
  CASE Over(cpu.used, cpu.limit) -> SimulationDiagnosis(FALSE, "cpu_exceeded")
    [] ~Over(cpu.used, cpu.limit) /\ Over(memory.used, memory.limit) -> SimulationDiagnosis(FALSE, "memory_exceeded")
    [] OTHER -> SimulationSuccess

\* DiagnoseMissingFootprint; no key is an error.
DiagnoseMissingFootprint(keys) ==
  IF keys = {} THEN {} ELSE {[SimulationDiagnosis(FALSE, "missing_footprint") EXCEPT !.missingKeys = keys]}

\* DiagnoseSimulationResponse looks at the counters only when there is neither
\* an error nor a missing key; missing keys replace the kind, not the success.
DiagnoseSimulationResponse(response) ==
  CASE response.error = {} /\ response.missingKeys = {} -> DiagnoseResourceExhaustion(response.cpu, response.memory)
    [] response.missingKeys # {} ->
         [DiagnoseSimulationError(response.error) EXCEPT !.kind = "missing_footprint", !.missingKeys = response.missingKeys]
    [] OTHER -> DiagnoseSimulationError(response.error)
=============================================================================
