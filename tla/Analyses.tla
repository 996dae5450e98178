-------------------------------- MODULE Analyses --------------------------------
(***************************************************************************)
(* The local analyses of pkg/lens: what the library says, with no network, *)
(* of a transaction and its result, an account, a pair of preconditions, a *)
(* claimable balance, a simulation response, a pair of footprints or of    *)
(* Soroban values, and a tree to filter.  Each is asked one after another  *)
(* about the same input, and the time bounds again as time passes.         *)
(***************************************************************************)
EXTENDS StructuralDiff, AccountAnalyses, ResultAnalyses, TimeAnalyses

CONSTANTS
  Requests,  \* sequence of sets of inputs, each with its kind
  Horizon,   \* the last time at which preconditions are verified
  SnakeOf    \* the discriminant of an operation's body in snake case

VARIABLES
  request,  \* the input
  todo,     \* the analyses to come
  report    \* what those that are done said, by their name

vars == <<request, todo, report>>

AnalysesOf ==
  [result |-> <<"explain", "isolate", "feeBump", "diff", "resources", "sponsorship">>,
   account |-> <<"balance", "signatures", "thresholds">>,
   time |-> <<"expiry", "timebound">>,
   claim |-> <<"claim", "creation">>,
   simulation |-> <<"simulation">>,
   footprints |-> <<"footprints">>,
   scval |-> <<"scval">>,
   filter |-> <<"filtered">>]

Init ==
  /\ \E i \in DOMAIN Requests : request \in Requests[i]
  /\ todo = AnalysesOf[request.kind]
  /\ report = << >>

\* An analysis changes nothing it reads.
Says(name, result) ==
  /\ todo # << >> /\ Head(todo) = name
  /\ todo' = Tail(todo)
  /\ report' = (name :> result) @@ report
  /\ UNCHANGED request

Explain == Says("explain", LET s == AttachResult(request.ops, request.result)
                           IN  [summary |-> s, headline |-> ResultHeadline(s)])
Isolate == Says("isolate", IsolateFailure(request.ops, request.result))
FeeBump == Says("feeBump", DiagnoseFeeBump(request.result.inner # {}, request.result))
DiffWithResult == Says("diff", DiffEnvelopeResult(request.ops, request.result))
Resources == Says("resources", DiagnoseResourceFailure(request.result))
Sponsorship == Says("sponsorship", DiagnoseSponsorship(request.ops, request.result))

Balance ==
  Says("balance", [native |-> DiagnoseBalance(request.account, request.baseReserve, request.amount),
                   trustline |-> DiagnoseTrustlineSpend(request.account, request.amount)])
Signatures == Says("signatures", DiagnoseTransactionSignatures(request.ops, request.signatures, request.account))
Thresholds == Says("thresholds", ThresholdNote(request.account))

Expiry == Says("expiry", VerifyPreconditionExpiry(request.timeBounds, request.ledgerBounds, request.now))
Timebound == Says("timebound", DiagnoseTimeboundFailure(request.timeBounds))

Claim ==
  Says("claim", [i \in DOMAIN request.claimants |->
                   DiagnoseClaimablePredicate(request.claimants[i].predicate, request.now, request.created)])
Creation == Says("creation", MalformedContext(request.amount, request.claimants))

Simulation ==
  Says("simulation", [response |-> DiagnoseSimulationResponse(request),
                      text |-> DiagnoseSimulationError(request.error),
                      counters |-> DiagnoseResourceExhaustion(request.cpu, request.memory),
                      keys |-> DiagnoseMissingFootprint(request.missingKeys)])
Footprints ==
  Says("footprints", {[diff |-> d, equal |-> FootprintEqual(d)] : d \in DiffEnvelopeFootprints(request.left, request.right)})
CompareScVals == Says("scval", DiffScVal(request.left, request.right))
FilterTree ==
  Says("filtered", [byAccount |-> FilterByAccount(request.tree, request.account),
                    byOpType |-> FilterByOpType(request.tree, SnakeOf, request.type)])

\* Time passes, and the preconditions are verified again.
Later ==
  /\ request.kind = "time" /\ todo = << >> /\ request.now < Horizon
  /\ request' = [request EXCEPT !.now = @ + 1]
  /\ todo' = <<"expiry">>
  /\ UNCHANGED report

Finished == todo = << >> /\ UNCHANGED vars

Next ==
  \/ Explain \/ Isolate \/ FeeBump \/ DiffWithResult \/ Resources \/ Sponsorship
  \/ Balance \/ Signatures \/ Thresholds
  \/ Expiry \/ Timebound \/ Later
  \/ Claim \/ Creation
  \/ Simulation \/ Footprints \/ CompareScVals \/ FilterTree
  \/ Finished

Spec == Init /\ [][Next]_vars

-----------------------------------------------------------------------------
(***************************************************************************)
(* Properties of the answers about a transaction and its result.           *)
(***************************************************************************)
Answered(kind) == request.kind = kind /\ todo = << >>

Said(name) == IF name \in DOMAIN report THEN {report[name]} ELSE {}

\* Type invariant: only the analyses of the input answer, and amounts that are
\* missing or left over are never negative.
AnalysesTypeOK ==
  /\ ToSet(todo) \cup DOMAIN report \subseteq ToSet(AnalysesOf[request.kind])
  /\ \A b \in Said("balance") : \A d \in b.native \cup b.trustline : d.shortfall \in Nat
  /\ \A s \in Said("signatures") : s.missing \in Nat /\ s.weight \in 0..(WeightModulus - 1)
  /\ \A failures \in Said("timebound") : \A f \in failures :
       f.remaining \in Nat \ {0} \/ \E b \in request.timeBounds : b.max = TimeModulus \div 2

\* A result the network can give: its code goes with those of its operations.
Consistent(res) ==
  LET pairs == IF res.inner = {} THEN {res} ELSE res.inner
  IN  \A pair \in pairs :
        /\ pair.code = "txSuccess" => \A i \in DOMAIN pair.results : Succeeded(pair.results[i])
        /\ pair.code = "txFailed" => \E i \in DOMAIN pair.results : ~Succeeded(pair.results[i])

\* The five views of a failed transaction (explain.go:187, op_isolator.go:91,
\* feebump_explain.go:40, envelope_result_diff.go:103, resource_explain.go:35)
\* decode the result on their own, wrapped in a fee bump or not; they agree on
\* whether it failed, on which operations did, and on which comes first.
AnalysesAgree ==
  Answered("result") /\ Consistent(request.result) =>
    LET s == report.explain.summary i == report.isolate
    IN  /\ s.success = report.feeBump.success /\ s.success = report.diff.success /\ s.success = (i.stage = "none")
        /\ s.failedOps = report.feeBump.failed
        /\ s.failedOps = i.all /\ (s.failedOps # {} <=> i.stage = "operation")
        /\ i.stage = "operation" => /\ i.index = First(s.failedOps)
                                    /\ report.explain.headline.operation = i.index
                                    /\ report.explain.headline.reason = {i.reason}
        /\ WithStatus(report.diff, "failed") = s.failedOps \cap DOMAIN request.ops
        /\ \A r \in report.resources : r.kind # "invalid_declaration" => r.index \in s.failedOps

\* The comparison of an envelope with its result (envelope_result_diff.go:156)
\* is silent exactly when the operations ran and the results are one success of
\* the right type for each of them.
SilenceMeansSuccess ==
  Answered("result") =>
    ((report.diff.ran /\ \A i \in DOMAIN report.diff.operations : report.diff.operations[i].changes = {})
     <=> \E results \in OperationResults(request.result) :
           /\ Len(results) = Len(request.ops)
           /\ \A i \in DOMAIN results : results[i] = OperationResult("opInner", request.ops[i], "success"))

\* Wrapping a transaction in a fee bump changes nothing of what is said of its
\* operations (feebump_explain.go:96, op_isolator.go:104, explain.go:203), but
\* that a declaration of resources that is refused is then overlooked
\* (resource_explain.go:39).
WrappingKeepsDiagnosis ==
  Answered("result") /\ request.result.code \in {"txFeeBumpInnerSuccess", "txFeeBumpInnerFailed"} =>
    \A pair \in request.result.inner :
      LET bare == TransactionResult(pair.code, pair.results, {})
          isolated == IsolateFailure(request.ops, bare)
      IN  /\ report.isolate.stage = isolated.stage /\ report.isolate.all = isolated.all
          /\ report.isolate.stage # "none" => report.isolate = isolated
          /\ report.explain.summary.operations = AttachResult(request.ops, bare).operations
          /\ report.diff.operations = DiffEnvelopeResult(request.ops, bare).operations
          /\ report.sponsorship = DiagnoseSponsorship(request.ops, bare)
          /\ pair.code # "txSorobanInvalid" => report.resources = DiagnoseResourceFailure(bare)

\* The sequence of a badly sponsored transaction (sponsorship_explain.go:100) is
\* found without conflict exactly when every sponsorship that begins ends before
\* the next begins.
CountOf(ops, n, type) == Cardinality({i \in 1..n : ops[i] = type})
SponsorshipSandwich ==
  Answered("result") =>
    \A d \in report.sponsorship :
      LET open(n) == CountOf(request.ops, n, "beginSponsoring") - CountOf(request.ops, n, "endSponsoring")
      IN  d.conflicts = {} <=> open(Len(request.ops)) = 0 /\ \A n \in DOMAIN request.ops : open(n) \in {0, 1}

-----------------------------------------------------------------------------
(***************************************************************************)
(* Properties of the answers about an account.                             *)
(***************************************************************************)
\* A spend is called sufficient exactly when the ledger would let it through:
\* what is left covers the liabilities and the reserve of the entries the account
\* pays for; the shortfall is the least that is missing (balance_explain.go:129).
BalanceJudgedAsLedger ==
  Answered("account") =>
    LET a == request.account
        counts == UNION {v1.counts : v1 \in a.ext}
        sponsoring == SumOf(SetToSeq({c.sponsoring : c \in counts}))
        sponsored == SumOf(SetToSeq({c.sponsored : c \in counts}))
        entries == 2 + a.subEntries + sponsoring - sponsored
        base == IF request.baseReserve = 0 THEN DefaultBaseReserve ELSE request.baseReserve
        locked == SumOf(SetToSeq({v1.selling : v1 \in a.ext}))
        covers(extra) == a.balance + extra - request.amount >= locked + (IF entries < 0 THEN 0 ELSE entries) * base
    IN  /\ (report.balance.native = {}) = (request.amount < 0)
        /\ \A d \in report.balance.native :
             /\ d.sufficient = covers(0) /\ covers(d.shortfall)
             /\ d.shortfall > 0 => ~covers(d.shortfall - 1)
        /\ \A d \in report.balance.trustline :
             d.sufficient = (a.balance - request.amount >= locked)

\* A signature counts for one signer and a signer once (signature_explain.go:192):
\* of the signers with a hint, as many of the first count as there are signatures
\* with it, whatever order they come in, and those left over are unknown.
SignaturesCountOnce ==
  Answered("account") =>
    LET s == report.signatures
        before(i) == Cardinality({j \in 1..(i - 1) : s.signers[j].hint = s.signers[i].hint})
        given(hint) == Cardinality({k \in DOMAIN request.signatures : request.signatures[k] = hint})
        counts == {i \in DOMAIN s.signers : before(i) < given(s.signers[i].hint)}
    IN  /\ s.signed = counts
        /\ s.unknown = Len(request.signatures) - Cardinality(counts)
        /\ s.weight = FoldLeft(LAMBDA sum, i : IF i \in counts THEN sum + s.signers[i].weight ELSE sum, 0,
                               [i \in DOMAIN s.signers |-> i])

\* The note on an account (signer_thresholds.go:58) says of a threshold that its
\* signers cannot meet it exactly when even all of their signatures would be
\* judged insufficient (signature_explain.go:143).
NoteMatchesSignatures ==
  Answered("account") =>
    \A level \in {"medium", "high"} :
      level \in report.thresholds.unmet
        <=> LET everyone == [i \in DOMAIN report.signatures.signers |-> report.signatures.signers[i].hint]
            IN  ~DiagnoseSignatures(request.account, everyone, RequiredThresholdForLevel(request.account, level)).sufficient

-----------------------------------------------------------------------------
(***************************************************************************)
(* Properties of the answers about times.                                  *)
(***************************************************************************)
\* Of an envelope without ledger bounds the answer is that of its unsigned time
\* bounds (timebounds_explain.go:195), though they are compared as signed ones: one
\* that is not set, or that lies beyond all signed times, has not passed.  A lower
\* bound beyond them is taken for none, and is left out.
TimeBoundsJudged ==
  Answered("time") /\ request.ledgerBounds = {} =>
    /\ report.expiry.expired = \E b \in request.timeBounds : b.max # 0 /\ b.max < request.now
    /\ (\A b \in request.timeBounds : b.min < TimeModulus \div 2)
         => report.expiry.notYetValid = \E b \in request.timeBounds : request.now < b.min
    /\ report.expiry.valid = (~report.expiry.expired /\ ~report.expiry.notYetValid)

\* Time only carries a transaction from not yet valid through valid to expired,
\* though ledgers are estimated from times on both sides of a reference
\* (timebounds_explain.go:217).
ExpiredStaysExpired ==
  todo # << >> /\ Head(todo) = "expiry" /\ "expiry" \in DOMAIN report =>
    /\ report.expiry.expired => report'.expiry.expired
    /\ ~report.expiry.notYetValid => ~report'.expiry.notYetValid

\* timebounds_explain.go 176: preconditions are found expired or early exactly when
\* their times say so, and an expired one does not come back.
ExpiryJudged ==
  [][TimeBoundsJudged' /\ ExpiredStaysExpired]_vars

\* The times of which a predicate holds.
RECURSIVE TimesOf(_, _)
TimesOf(p, created) ==
  LET children == [i \in DOMAIN p.children |-> TimesOf(p.children[i], created)]
  IN  CASE p.type = "unconditional" -> 0..MaxTime
        [] p.type = "absolute" -> {t \in 0..MaxTime : t < p.time}
        [] p.type = "relative" -> {t \in 0..MaxTime : t < created + p.time}
        [] p.type = "not" -> (0..MaxTime) \ children[1]
        [] p.type = "and" -> {t \in 0..MaxTime : \A i \in DOMAIN children : t \in children[i]}
        [] OTHER -> UNION {children[i] : i \in DOMAIN children}
RECURSIVE Parts(_)
Parts(p) == {p} \cup UNION {Parts(p.children[i]) : i \in DOMAIN p.children}
Overflows(p, created) == \E q \in Parts(p) : q.type = "relative" /\ q.time > MaxTime - created
Unreadable(p) ==
  \E q \in Parts(p) : \/ q.type \in {"not", "and", "or"} /\ q.children = << >>
                      \/ q.type = "relative" /\ q.time < 0

\* A predicate (claimable_explain.go:55) that can be read at all holds exactly at
\* the times it stands for, and what does not hold names a condition that failed.
ClaimTimesExact ==
  Answered("claim") =>
    \A i \in DOMAIN request.claimants :
      LET p == request.claimants[i].predicate e == report.claim[i]
      IN  /\ e.error = (request.now < 0 \/ Unreadable(p) \/ Overflows(p, request.created))
          /\ ~e.error => /\ e.satisfied = (request.now \in TimesOf(p, request.created))
                         /\ (e.failures = << >>) = e.satisfied

\* A balance that is found well formed when it is created (explain.go:935) has no
\* predicate that cannot be evaluated when it is claimed, unless it overflows.
CreatedCanBeJudged ==
  Answered("claim") /\ report.creation = "valid" /\ request.now >= 0 =>
    \A i \in DOMAIN request.claimants :
      report.claim[i].error => Overflows(request.claimants[i].predicate, request.created)

-----------------------------------------------------------------------------
(***************************************************************************)
(* Properties of the other answers.                                        *)
(***************************************************************************)
\* A simulation response is diagnosed as its most telling part is by itself
\* (simulation_explain.go:104): by its missing keys, else by its error text, else by
\* its counters.  Keys without an error text are the exception: the response names
\* them and is still called a success, where the keys alone are not.
KeysAlone(response) == response.error = {} /\ response.missingKeys # {}
SimulationAgrees ==
  Answered("simulation") =>
    LET s == report.simulation
    IN  /\ request.error = {} /\ request.missingKeys = {} => s.response = s.counters
        /\ request.error # {} /\ request.missingKeys = {} => s.response = s.text
        /\ \A d \in s.keys : s.response = [d EXCEPT !.success = KeysAlone(request)]
        /\ s.response.success => s.response.kind = "success" \/ KeysAlone(request)

\* Footprints are compared as sets (footprint_diff.go:112): nothing is repeated, and
\* they are equal exactly when each half has the same keys.
FootprintsAsSets ==
  Answered("footprints") =>
    \A r \in report.footprints, l \in FootprintOf(request.left), g \in FootprintOf(request.right) :
      /\ r.equal = \A half \in {"readOnly", "readWrite"} : ToSet(l[half]) = ToSet(g[half])
      /\ \A half \in {"readOnly", "readWrite"} :
           LET d == r.diff[half]
           IN  /\ ToSet(d.common) = ToSet(l[half]) \cap ToSet(g[half])
               /\ ToSet(d.removed) = ToSet(l[half]) \ ToSet(g[half])
               /\ ToSet(d.added) = ToSet(g[half]) \ ToSet(l[half])
               /\ Len(d.common) + Len(d.removed) = Cardinality(ToSet(l[half]))

\* Soroban maps are compared by the keys of their entries, whatever their order
\* (scval_diff.go:65): two values differ nowhere exactly when they are the same
\* but for that, and there is no answer when the arm of one is absent.
RECURSIVE SameScVal(_, _)
SameScVal(x, y) ==
  LET entry(u, k) == CHOOSE e \in ToSet(u.entries) : e.key = k
      keys(u) == {e.key : e \in ToSet(u.entries)}
  IN  /\ x.type = y.type /\ x.text = y.text /\ x.limbs = y.limbs
      /\ Len(x.items) = Len(y.items) /\ \A i \in DOMAIN x.items : SameScVal(x.items[i], y.items[i])
      /\ keys(x) = keys(y) /\ \A k \in keys(x) : SameScVal(entry(x, k).val, entry(y, k).val)
MapsComparedByKey ==
  Answered("scval") =>
    /\ (report.scval = {}) = (Malformed(request.left) \/ Malformed(request.right))
    /\ \A changes \in report.scval : (changes = << >>) = SameScVal(request.left, request.right)

\* Filtering a tree (node.go:453, 541) keeps what was asked for, all of it, and
\* nothing that leads to nothing asked for.
RECURSIVE Below(_)
Below(n) == <<n>> \o FlattenSeq([i \in DOMAIN n.children |-> Below(n.children[i])])
IsOperation(n) == n.kind = "struct" /\ n.type = "Operation"
TypeOf(n) == SnakeOf[Child(Child(n, "Body"), "Type").value.text]
FiltersKeepWhatTheyName ==
  Answered("filter") =>
    LET mentions(n) == SelectSeq(Below(n), LAMBDA c : IsAccount(c, request.account))
        operations(n) == SelectSeq(Below(n), IsOperation)
        wanted(n) == IsOperation(n) /\ TypeOf(n) = request.type
        byAccount == report.filtered.byAccount byOpType == report.filtered.byOpType
    IN  /\ request.account # "" =>
             /\ mentions(byAccount) = mentions(request.tree)
             /\ ~IsNil(byAccount) => \A n \in ToSet(Below(byAccount)) : n.children = << >> => IsAccount(n, request.account)
        /\ request.account = "" => byAccount = request.tree
        /\ request.type = "" => byOpType = request.tree
        /\ request.type # "" => operations(byOpType) = SelectSeq(Below(request.tree), wanted)

\* explain.go, op_isolator.go, envelope_result_diff.go, sponsorship_explain.go:
\* the analyses that read one result tell of the same operation and the same
\* failure, and say nothing only of a success.
ResultsRead ==
  AnalysesTypeOK /\ AnalysesAgree /\ SilenceMeansSuccess /\ SponsorshipSandwich

\* balance_explain.go, signature_explain.go, signer_thresholds.go: an account is
\* found able to pay or to sign exactly when the ledger's rules let it.
AccountsJudged ==
  BalanceJudgedAsLedger /\ SignaturesCountOnce /\ NoteMatchesSignatures

\* claimable_explain.go 55 and explain.go 935: a predicate is found true exactly
\* at the times at which it can be claimed.
ClaimsJudged ==
  ClaimTimesExact /\ CreatedCanBeJudged

\* simulation_explain.go, footprint_diff.go, scval_diff.go, node.go: what two
\* inputs are said to share or to lack is what their contents share or lack.
InputsCompared ==
  SimulationAgrees /\ FootprintsAsSets /\ MapsComparedByKey /\ FiltersKeepWhatTheyName
=============================================================================
