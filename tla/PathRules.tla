------------------------------- MODULE PathRules -------------------------------
(***************************************************************************)
(* The rules that leave parts of a tree out of a comparison: the path      *)
(* patterns of pkg/lens/diff_filter.go (--filter and --mask) and the       *)
(* redaction of pkg/lens/diff_redact.go, which replaces scalars that no two *)
(* builds of a transaction share by a placeholder.                         *)
(*                                                                         *)
(* A pattern is a sequence of segments: "**", "*" (standing for the globs of *)
(* path.Match) or a literal field name or index.                           *)
(***************************************************************************)
EXTENDS NodeTree

AnyPath == [name |-> "**", index |-> -1]
AnySegment == [name |-> "*", index |-> -1]

\* path.Match on one segment; "**" that is not handled before it is a glob too.
MatchSegment(glob, segment) == glob \in {AnyPath, AnySegment, segment}

\* Matching ends when the pattern does: it selects the whole subtree.

RECURSIVE MatchSegments(_, _)
MatchSegments(pattern, path) ==
  CASE pattern = << >> -> TRUE
    [] pattern # << >> /\ Head(pattern) = AnyPath ->
         \E i \in 0..Len(path) : MatchSegments(Tail(pattern), SubSeq(path, i + 1, Len(path)))
    [] OTHER -> /\ path # << >> /\ MatchSegment(Head(pattern), Head(path))
                /\ MatchSegments(Tail(pattern), Tail(path))

\* A filter is a record of pattern sets; an exclude wins over an include.
NoFilter == [includes |-> {}, excludes |-> {}]
Selects(filter, path) ==
  /\ filter.includes = {} \/ \E p \in filter.includes : MatchSegments(p, path)
  /\ ~\E p \in filter.excludes : MatchSegments(p, path)

FilterChanges(changes, filter) ==
  IF filter = NoFilter THEN changes ELSE SelectSeq(changes, LAMBDA c : Selects(filter, c.path))

\* A mask is a filter that is consulted only when it is not empty.
Masked(mask, path) == mask # NoFilter /\ Selects(mask, path)

\* DiffWithOptions joins the two ways of giving a mask.
CombinedMask(mask, maskPaths) ==
  [includes |-> mask.includes \cup maskPaths, excludes |-> mask.excludes]

-----------------------------------------------------------------------------
\* A policy: three categories and a set of field names ("*" is a glob).
NoRedaction == [hashes |-> FALSE, signatures |-> FALSE, identifiers |-> FALSE, fields |-> {}]
Enabled(policy) == policy # NoRedaction

MatchesField(policy, name) == name # "" /\ policy.fields \cap {name, "*"} # {}

HashTypes == {"Hash", "Uint256", "HashX", "PreAuthTx"}
SignatureTypes == {"Signature", "SignatureHint"}
IdentifierTypes == {"ContractId", "PoolId", "ClaimableBalanceId", "LiquidityPoolId"}
SignatureNames == {"Hint", "Ed25519", "HashX", "PreAuthTx", "Signature"}

\* placeholderFor: the placeholder of a node, none when it is kept.  A field
\* name redacts a node of any kind, a category only scalars.
PlaceholderFor(policy, n) ==
  CASE MatchesField(policy, n.name) -> {"<redacted>"}
    [] n.kind # "scalar" -> {}
    [] policy.hashes /\ n.type \in HashTypes -> {"<redacted hash>"}
    [] policy.signatures /\ n.type \in SignatureTypes -> {"<redacted signature>"}
    [] policy.identifiers /\ n.type \in IdentifierTypes -> {"<redacted identifier>"}
    [] policy.signatures /\ n.name \in SignatureNames -> {"<redacted signature>"}
    [] OTHER -> {}

RECURSIVE RedactNode(_, _)
RedactNode(n, policy) ==
  IF PlaceholderFor(policy, n) # {}
    THEN Scalar(n.name, n.type, Text(CHOOSE p \in PlaceholderFor(policy, n) : TRUE))
    ELSE [n EXCEPT !.children = [i \in DOMAIN n.children |-> RedactNode(n.children[i], policy)]]

\* The paths that were redacted.  Elements of a list share the list's path.
RECURSIVE RedactedPaths(_, _, _)
RedactedPaths(n, policy, prefix) ==
  LET path == JoinPath(prefix, n.name)
  IN  IF PlaceholderFor(policy, n) # {} THEN {path}
      ELSE UNION {RedactedPaths(n.children[i], policy, path) : i \in DOMAIN n.children}

\* RedactValue: the value to share loses its decoded XDR as well.
RedactValue(v, policy) ==
  IF Enabled(policy) THEN [v EXCEPT !.node = RedactNode(v.node, policy), !.raw = FALSE] ELSE v

\* RedactionPolicyFromNames, on names already trimmed and in lower case.
PolicyNames ==
  [hashes |-> {"all", "hashes", "hash"}, signatures |-> {"all", "signatures", "signature", "sigs"},
   identifiers |-> {"all", "identifiers", "identifier", "ids"}]
PolicyFromNames(names) ==
  [c \in DOMAIN NoRedaction |-> IF c = "fields" THEN {} ELSE names \cap PolicyNames[c] # {}]
=============================================================================
