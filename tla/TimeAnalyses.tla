------------------------------ MODULE TimeAnalyses ------------------------------
(***************************************************************************)
(* When a transaction is valid (pkg/lens/timebounds_explain.go) and when a *)
(* balance can be claimed (pkg/lens/claimable_explain.go, and the checks   *)
(* of explain.go on the operation that creates one).  Bounds that an       *)
(* envelope does not have are the empty set; a bound of zero is none.      *)
(***************************************************************************)
EXTENDS Integers, Sequences, SequencesExt, FiniteSets

CONSTANTS
  ReferenceLedger, ReferenceCloseTime,  \* a ledger that closed, and when
  LedgerCloseInterval,                  \* how long a ledger is taken to last
  MaxTime,                              \* the largest time there is
  TimeModulus                           \* how many times an envelope can state

ASSUME IntervalAssumption == LedgerCloseInterval \in Nat \ {0}

\* Division of durations truncates towards zero.
Quotient(n, d) == IF n >= 0 THEN n \div d ELSE -((-n) \div d)
EstimatedLedger(now) ==
  LET estimate == ReferenceLedger + Quotient(now - ReferenceCloseTime, LedgerCloseInterval)
  IN  IF estimate < 1 THEN 1 ELSE estimate

\* int64: an envelope's times are unsigned, those they are compared with are not.
AsInt64(n) == IF n % TimeModulus < TimeModulus \div 2 THEN n % TimeModulus ELSE (n % TimeModulus) - TimeModulus
AsTimes(bounds) == {[min |-> AsInt64(b.min), max |-> AsInt64(b.max)] : b \in bounds}

PassedIfSet(bounds, now) == {b \in bounds : b.max # 0 /\ now > b.max}
Passed(bounds, now) == {b \in bounds : b.max > 0 /\ now > b.max}
Ahead(bounds, now) == {b \in bounds : b.min > 0 /\ now < b.min}
VerifyPreconditionExpiry(timeBounds, ledgerBounds, now) ==
  LET times == AsTimes(timeBounds)
      ledger == EstimatedLedger(now)
      bounded == {b \in ledgerBounds : b.min # 0 \/ b.max # 0}
      expired == Passed(times, now) # {} \/ Passed(bounded, ledger) # {}
      early == Ahead(times, now) # {} \/ Ahead(bounded, ledger) # {}
  IN  [valid |-> ~expired /\ ~early, expired |-> expired, notYetValid |-> early,
       warning |-> CASE expired -> "expired" [] early /\ ~expired -> "early" [] OTHER -> "none"]

\* DiagnoseTimeboundFailure knows no clock: the lower bound stands for it when
\* both are set, and zero does otherwise.
DiagnoseTimeboundFailure(timeBounds) ==
  LET times == AsTimes(timeBounds)
      now(b) == IF b.min > 0 /\ b.max > 0 THEN b.min ELSE 0
      early(b) == b.min > now(b)
      late(b) == ~early(b) /\ b.max < now(b)
  IN  {[type |-> "tx_too_early", remaining |-> b.min - now(b)] : b \in {x \in times : early(x)}}
        \cup {[type |-> "tx_too_late", remaining |-> AsInt64(now(b) - b.max)] : b \in {x \in times : late(x)}}

-----------------------------------------------------------------------------
\* A claim predicate; a negation has one child, or none when it is malformed.
Predicate(type, time, children) == [type |-> type, time |-> time, children |-> children]
MaxClaimPredicateDepth == 64

\* evaluateClaimPredicate evaluates every child; one error fails the whole.
Evaluated(satisfied, failures) == [satisfied |-> satisfied, failures |-> failures, error |-> FALSE]
EvaluationError == [satisfied |-> FALSE, failures |-> << >>, error |-> TRUE]
NotBefore(threshold) == [condition |-> "not before", threshold |-> threshold]
Holds == [condition |-> "negated", threshold |-> 0]
Judged(now, threshold) ==
  IF now < threshold THEN Evaluated(TRUE, << >>) ELSE Evaluated(FALSE, <<NotBefore(threshold)>>)
CombineShortcut(type, children) ==
  IF children = << >> \/ (type = "and" /\ \A c \in ToSet(children) : c.error) THEN EvaluationError
  ELSE LET satisfied == IF type = "and" THEN \A c \in ToSet(children) : c.satisfied ELSE \E c \in ToSet(children) : c.satisfied
       IN  Evaluated(satisfied, IF satisfied THEN << >> ELSE FlattenSeq([i \in DOMAIN children |-> children[i].failures]))
Combine(type, children) ==
  LET satisfied == IF type = "and" THEN \A c \in ToSet(children) : c.satisfied ELSE \E c \in ToSet(children) : c.satisfied
      failures == FlattenSeq([i \in DOMAIN children |-> children[i].failures])
  IN  CASE children = << >> \/ \E c \in ToSet(children) : c.error -> EvaluationError
        [] type = "or" /\ satisfied /\ ~\E c \in ToSet(children) : c.error -> Evaluated(TRUE, << >>)
        [] OTHER -> Evaluated(satisfied, failures)
Negated(children) ==
  CASE children = << >> \/ \E c \in ToSet(children) : c.error -> EvaluationError
    [] children # << >> /\ \E c \in ToSet(children) : c.satisfied -> Evaluated(FALSE, <<Holds>>)
    [] OTHER -> Evaluated(TRUE, << >>)
RECURSIVE EvaluateClaimPredicate(_, _, _, _)
EvaluateClaimPredicate(p, now, created, depth) ==
  LET children == [i \in DOMAIN p.children |-> EvaluateClaimPredicate(p.children[i], now, created, depth + 1)]
  IN  CASE depth > MaxClaimPredicateDepth -> EvaluationError
        [] depth <= MaxClaimPredicateDepth /\ p.type = "unconditional" -> Evaluated(TRUE, << >>)
        [] depth <= MaxClaimPredicateDepth /\ p.type = "absolute" -> Judged(now, p.time)
        [] depth <= MaxClaimPredicateDepth /\ p.type = "relative" ->
             IF p.time < 0 \/ created > MaxTime - p.time THEN EvaluationError ELSE Judged(now, created + p.time)
        [] depth <= MaxClaimPredicateDepth /\ p.type = "not" -> Negated(children)
        [] OTHER -> Combine(p.type, children)

\* DiagnoseClaimablePredicate: negative times are an error.
DiagnoseClaimablePredicate(p, now, created) ==
  IF now < 0 \/ created < 0 THEN EvaluationError ELSE EvaluateClaimPredicate(p, now, created, 0)

\* claimPredicateProblem: the rules of a predicate that is stored.
WrongArity(p) == Len(p.children) # 2
RECURSIVE ClaimPredicateProblem(_, _)
ClaimPredicateProblem(p, depth) ==
  \/ depth > 4
  \/ p.type \in {"absolute", "relative"} /\ p.time < 0
  \/ p.type = "not" /\ p.children = << >>
  \/ p.type \in {"and", "or"} /\ WrongArity(p)
  \/ depth <= 4 /\ \E i \in DOMAIN p.children : ClaimPredicateProblem(p.children[i], depth + 1)

\* malformedClaimableBalanceContext: the first thing wrong with the operation
\* that creates a balance; "valid" when it finds none.
DuplicateClaimantDestinations(claimants) ==
  {claimants[i].destination : i \in {j \in DOMAIN claimants : \E k \in 1..(j - 1) : claimants[k].destination = claimants[j].destination}}
MalformedContext(amount, claimants) ==
  CASE amount <= 0                                              -> "amount"
    [] amount > 0 /\ claimants = << >>                          -> "no_claimants"
    [] amount > 0 /\ Len(claimants) > 10                        -> "many_claimants"
    [] OTHER ->
       IF DuplicateClaimantDestinations(claimants) # {} THEN "duplicate"
       ELSE IF \E i \in DOMAIN claimants : ClaimPredicateProblem(claimants[i].predicate, 1) THEN "predicate"
       ELSE "valid"
=============================================================================
