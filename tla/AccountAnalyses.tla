----------------------------- MODULE AccountAnalyses -----------------------------
(***************************************************************************)
(* What is said of an account: how much of its balance it can spend        *)
(* (pkg/lens/balance_explain.go) and whether signatures reach a threshold  *)
(* (pkg/lens/signature_explain.go, signer_thresholds.go).  An account is   *)
(* that of SignerSets with its balance, its counters, its extensions (sets *)
(* that are empty when there is none) and the hints of its keys.           *)
(***************************************************************************)
EXTENDS SignerSets

CONSTANTS
  StroopModulus,       \* amounts are signed words of this many values
  DefaultBaseReserve   \* what a base reserve of zero stands for

Wrapped(n) == ((n + StroopModulus \div 2) % StroopModulus) - StroopModulus \div 2

\* Liabilities live in the first extension, counts of sponsorships in the
\* second one, which only an account with the first can have.
AccountSellingLiabilities(account) ==
  IF \E v1 \in account.ext : v1.selling > 0 THEN (CHOOSE v1 \in account.ext : TRUE).selling ELSE 0
NoCounts == [sponsoring |-> 0, sponsored |-> 0]
AccountSponsorshipCounts(account) ==
  LET counts == UNION {v1.counts : v1 \in account.ext}
  IN  IF counts = {} THEN NoCounts ELSE CHOOSE c \in counts : TRUE

\* The entries that others pay for need no reserve, and none makes it negative.
AtLeastZero(n) == IF n < 0 THEN 0 ELSE n
ReserveRequirement(subEntries, counts, baseReserve) ==
  Wrapped(AtLeastZero(2 + subEntries + counts.sponsoring - counts.sponsored) * baseReserve)
AvailableBalance(balance, selling, reserve) == Wrapped(Wrapped(balance - selling) - reserve)

BalanceDiagnosis(available, amount) ==
  [available |-> available, sufficient |-> available >= amount,
   shortfall |-> IF available >= amount THEN 0 ELSE Wrapped(amount - available)]

\* A negative amount is an error.
DiagnoseBalance(account, baseReserve, amount) ==
  LET base == IF baseReserve = 0 THEN DefaultBaseReserve ELSE baseReserve
      reserve == ReserveRequirement(account.subEntries, AccountSponsorshipCounts(account), base)
  IN  IF amount < 0 THEN {}
      ELSE {BalanceDiagnosis(AvailableBalance(account.balance, AccountSellingLiabilities(account), reserve), amount)}

\* A trustline keeps no reserve.
DiagnoseTrustlineSpend(trustline, amount) ==
  IF amount < 0 THEN {} ELSE {BalanceDiagnosis(Wrapped(trustline.balance - AccountSellingLiabilities(trustline)), amount)}

-----------------------------------------------------------------------------
LowOperations == {"allowTrust", "setTrustLineFlags", "bumpSequence", "claimClaimableBalance"}
HighOperations == {"accountMerge", "setOptions"}
OperationThresholdLevel(type) ==
  CASE type \in LowOperations -> "low" [] type \in HighOperations -> "high" [] OTHER -> "medium"
RequiredThresholdForLevel(account, level) ==
  account.thresholds[CASE level = "low" -> 2 [] level = "high" -> 4 [] OTHER -> 3]

\* The signers that count, the master key first if it has weight.
Signer(hint, weight) == [hint |-> hint, weight |-> weight]
KnownSigners(account) ==
  (IF account.thresholds[1] > 0 THEN <<Signer(account.masterHint, account.thresholds[1])>> ELSE << >>)
    \o [i \in DOMAIN account.weights |-> Signer(account.hints[i], account.weights[i])]

\* Each signature is that of the first signer with its hint who has not signed.
Matching == [signed |-> {}, weight |-> 0, unknown |-> 0]
MatchAgain(signers, matching, hint) ==
  LET known == {i \in DOMAIN signers : signers[i].hint = hint}
      next == CHOOSE i \in known : \A j \in known : i <= j
  IN  IF known = {} THEN [matching EXCEPT !.unknown = @ + 1]
      ELSE [matching EXCEPT !.signed = @ \cup {next}, !.weight = (@ + signers[next].weight) % WeightModulus]
MatchSignature(signers, matching, hint) ==
  LET unsigned == {i \in DOMAIN signers : signers[i].hint = hint} \ matching.signed
      next == CHOOSE i \in unsigned : \A j \in unsigned : i <= j
  IN  IF unsigned = {} THEN [matching EXCEPT !.unknown = @ + 1]
      ELSE [matching EXCEPT !.signed = @ \cup {next}, !.weight = (@ + signers[next].weight) % WeightModulus]
DiagnoseSignatures(account, signatures, threshold) ==
  LET signers == KnownSigners(account)
      m == FoldLeft(LAMBDA matching, hint : MatchSignature(signers, matching, hint), Matching, signatures)
  IN  [signers |-> signers, signed |-> m.signed, weight |-> m.weight, unknown |-> m.unknown,
       sufficient |-> m.weight >= threshold, missing |-> AtLeastZero(threshold - m.weight)]

\* The first operation decides the level.
TransactionLevel(ops) == IF ops = << >> THEN "medium" ELSE OperationThresholdLevel(Head(ops))
DiagnoseTransactionSignatures(ops, signatures, account) ==
  DiagnoseSignatures(account, signatures, RequiredThresholdForLevel(account, TransactionLevel(ops)))
=============================================================================
