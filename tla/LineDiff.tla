------------------------------- MODULE LineDiff -------------------------------
(***************************************************************************)
(* The line-level diff of pkg/lens/format/linediff.go, as the unified and  *)
(* side-by-side formatters use it: alignLines walks its LCS table,         *)
(* filterAlignment drops what the path filter does not select, buildHunks  *)
(* cuts the alignment into hunks.                                          *)
(***************************************************************************)
EXTENDS Integers, Sequences, FiniteSets, SequencesExt

CONSTANTS
  Lines,       \* the lines of a flattened value
  MaxCells,    \* maxLineAlignmentCells
  Contexts,    \* numbers of context lines, negative ones included
  None         \* the empty text on the side that a pair leaves out

ASSUME LineAssumption ==
  None \notin Lines /\ MaxCells \in Nat /\ Contexts \subseteq Int

VARIABLES
  left, right,   \* a and b
  selected,      \* lines whose path the filter selects
  context,
  phase,         \* "start", "aligning", "aligned", "hunks", "done"
  i, j,          \* loop variables: lines of left and right already used,
                 \* then the pairs already put in or before a hunk
  pairs,         \* the alignment
  hunks

diffVars == <<left, right, selected, context, phase, i, j, pairs, hunks>>
inputs   == <<left, right, selected, context>>

-----------------------------------------------------------------------------
(***************************************************************************)
(* Alignment.                                                              *)
(***************************************************************************)
Equal(line)  == [kind |-> "equal",  left |-> line, right |-> line]
Delete(line) == [kind |-> "delete", left |-> line, right |-> None]
Insert(line) == [kind |-> "insert", left |-> None, right |-> line]

Deletes(from) == [k \in 1 .. Len(left) - from |-> Delete(left[from + k])]
Inserts(from) == [k \in 1 .. Len(right) - from |-> Insert(right[from + k])]

\* The table of alignLines: lcs[p] for the lines after p[1] and after p[2].
lcs[p \in (0 .. Len(left)) \X (0 .. Len(right))] ==
  IF p[1] = Len(left) \/ p[2] = Len(right) THEN 0
  ELSE IF left[p[1] + 1] = right[p[2] + 1] THEN 1 + lcs[<<p[1] + 1, p[2] + 1>>]
  ELSE IF lcs[<<p[1] + 1, p[2]>>] >= lcs[<<p[1], p[2] + 1>>]
  THEN lcs[<<p[1] + 1, p[2]>>] ELSE lcs[<<p[1], p[2] + 1>>]

\* A side without lines, or a table that would be too large: every line of the
\* left is deleted and every line of the right inserted.
Wholesale ==
  IF left = << >> \/ right = << >> THEN TRUE
  ELSE Len(left) > MaxCells \div Len(right)

Replace ==
  /\ phase = "start" /\ Wholesale
  /\ pairs' = Deletes(0) \o Inserts(0)
  /\ i' = Len(left) /\ j' = Len(right)
  /\ phase' = "aligned"
  /\ UNCHANGED <<inputs, hunks>>

StartWalk ==
  /\ phase = "start" /\ ~Wholesale
  /\ phase' = "aligning"
  /\ UNCHANGED <<inputs, i, j, pairs, hunks>>

Walking == phase = "aligning" /\ i < Len(left) /\ j < Len(right)

TakeEqual ==
  /\ Walking /\ left[i + 1] = right[j + 1]
  /\ pairs' = Append(pairs, Equal(left[i + 1]))
  /\ i' = i + 1 /\ j' = j + 1
  /\ UNCHANGED <<inputs, phase, hunks>>

AlwaysDelete == TRUE
PreferDeletion == lcs[<<i + 1, j>>] >= lcs[<<i, j + 1>>]

TakeDelete ==
  /\ Walking /\ left[i + 1] # right[j + 1] /\ PreferDeletion
  /\ pairs' = Append(pairs, Delete(left[i + 1]))
  /\ i' = i + 1
  /\ UNCHANGED <<inputs, phase, j, hunks>>

TakeInsert ==
  /\ Walking /\ left[i + 1] # right[j + 1] /\ ~PreferDeletion
  /\ pairs' = Append(pairs, Insert(right[j + 1]))
  /\ j' = j + 1
  /\ UNCHANGED <<inputs, phase, i, hunks>>

TakeRestOfLeft ==
  /\ phase = "aligning" /\ ~(i < Len(left) /\ j < Len(right))
  /\ pairs' = pairs \o Deletes(i)
  /\ i' = Len(left) /\ j' = Len(right)
  /\ phase' = "aligned"
  /\ UNCHANGED <<inputs, hunks>>

\* The two loops over what is left of either side.
TakeRest ==
  /\ phase = "aligning" /\ ~(i < Len(left) /\ j < Len(right))
  /\ pairs' = pairs \o Deletes(i) \o Inserts(j)
  /\ i' = Len(left) /\ j' = Len(right)
  /\ phase' = "aligned"
  /\ UNCHANGED <<inputs, hunks>>

-----------------------------------------------------------------------------
(***************************************************************************)
(* filterAlignment and allEqual.                                           *)
(***************************************************************************)
TextOf(pair) == IF pair.kind = "insert" THEN pair.right ELSE pair.left

Kept == {k \in DOMAIN pairs :
           pairs[k].kind = "equal" \/ TextOf(pairs[k]) \in selected}

\* The n-th of some numbers.
Nth(S, n) == CHOOSE k \in S : Cardinality({m \in S : m <= k}) = n

FilterAlignment == [n \in 1 .. Cardinality(Kept) |-> pairs[Nth(Kept, n)]]

Changes(s) == {k \in DOMAIN s : s[k].kind # "equal"}

Filter ==
  /\ phase = "aligned"
  /\ pairs' = FilterAlignment
  /\ phase' = IF Changes(FilterAlignment) = {} THEN "done" ELSE "hunks"
  /\ i' = 0 /\ j' = 0
  /\ UNCHANGED <<inputs, hunks>>

-----------------------------------------------------------------------------
(***************************************************************************)
(* buildHunks.                                                             *)
(***************************************************************************)
\* lineOffsets: how many old and new lines the first k pairs hold.
OldBefore(s, k) == Cardinality({m \in 1 .. k : s[m].kind # "insert"})
NewBefore(s, k) == Cardinality({m \in 1 .. k : s[m].kind # "delete"})

RangeStartAfter(before, count) == before + 1
RangeStart(before, count) == IF count = 0 THEN before ELSE before + 1

Context == IF context < 0 THEN 0 ELSE context

\* The last change of the hunk that the change p starts: no run of more than
\* 2 * Context equal pairs lies between p and it.
LastChange(p) ==
  CHOOSE last \in Changes(pairs) :
    LET near(k) == \A m \in p .. k : \E q \in Changes(pairs) :
                     p <= q /\ q <= m /\ m - q <= 2 * Context
    IN  /\ last >= p /\ near(last)
        /\ \A k \in Changes(pairs) : k > last => ~near(k)

Hunk(p) ==
  LET first == IF p - Context < 1 THEN 1 ELSE p - Context
      end   == IF LastChange(p) + Context > Len(pairs) THEN Len(pairs)
               ELSE LastChange(p) + Context
      olds  == OldBefore(pairs, end) - OldBefore(pairs, first - 1)
      news  == NewBefore(pairs, end) - NewBefore(pairs, first - 1)
  IN  [first |-> first, end |-> end,
       oldStart |-> RangeStart(OldBefore(pairs, first - 1), olds),
       oldCount |-> olds,
       newStart |-> RangeStart(NewBefore(pairs, first - 1), news),
       newCount |-> news]

SkipEqual ==
  /\ phase = "hunks" /\ i < Len(pairs) /\ pairs[i + 1].kind = "equal"
  /\ i' = i + 1
  /\ UNCHANGED <<inputs, phase, j, pairs, hunks>>

AddHunk ==
  /\ phase = "hunks" /\ i < Len(pairs) /\ pairs[i + 1].kind # "equal"
  /\ hunks' = Append(hunks, Hunk(i + 1))
  /\ i' = Hunk(i + 1).end
  /\ UNCHANGED <<inputs, phase, j, pairs>>

Finish ==
  /\ phase = "hunks" /\ i = Len(pairs)
  /\ phase' = "done"
  /\ UNCHANGED <<inputs, i, j, pairs, hunks>>

-----------------------------------------------------------------------------
DiffInit ==
  /\ left \in Seq(Lines) /\ right \in Seq(Lines)
  /\ selected \in SUBSET Lines /\ context \in Contexts
  /\ phase = "start" /\ i = 0 /\ j = 0 /\ pairs = << >> /\ hunks = << >>

Align == Replace \/ StartWalk \/ TakeEqual \/ TakeDelete \/ TakeInsert \/ TakeRest
BuildHunks == SkipEqual \/ AddHunk \/ Finish
DiffNext == Align \/ Filter \/ BuildHunks

DiffSpec == DiffInit /\ [][DiffNext]_diffVars

-----------------------------------------------------------------------------
(***************************************************************************)
(* Properties.                                                             *)
(***************************************************************************)
Pairs == [kind : {"equal"}, left : Lines, right : Lines]
         \cup [kind : {"delete"}, left : Lines, right : {None}]
         \cup [kind : {"insert"}, left : {None}, right : Lines]

DiffTypeOK ==
  /\ left \in Seq(Lines) /\ right \in Seq(Lines)
  /\ selected \subseteq Lines /\ context \in Contexts
  /\ phase \in {"start", "aligning", "aligned", "hunks", "done"}
  /\ i \in Nat /\ j \in Nat
  /\ pairs \in Seq(Pairs)

\* The alignment tells the left lines and the right lines apart exactly: its
\* old lines are the left ones used so far, in order, and its new lines the
\* right ones.
SidesReproduced ==
  phase \in {"start", "aligning", "aligned"} =>
    /\ OldBefore(pairs, Len(pairs)) = i /\ NewBefore(pairs, Len(pairs)) = j
    /\ \A k \in DOMAIN pairs :
         /\ pairs[k].kind # "insert" => pairs[k].left = left[OldBefore(pairs, k)]
         /\ pairs[k].kind # "delete" => pairs[k].right = right[NewBefore(pairs, k)]

\* The subsequences of s that have n elements.
Subsequences(s, n) ==
  {[k \in 1 .. n |-> s[Nth(at, k)]] : at \in kSubset(n, DOMAIN s)}

\* The two sides have no common subsequence longer than the lines that the
\* alignment keeps: the diff is minimal wherever the table is within its limit.
AlignmentMinimal ==
  phase = "aligned" /\ ~Wholesale =>
    LET n == Len(pairs) - Cardinality(Changes(pairs)) + 1
    IN  Subsequences(left, n) \cap Subsequences(right, n) = {}

\* The hunks hold every change exactly once, in order, and each is padded with
\* the context asked for unless the alignment ends there; two hunks that would
\* touch have been merged.
HunksCoverChanges ==
  phase = "done" =>
    /\ \A k \in Changes(pairs) :
         Cardinality({h \in DOMAIN hunks :
                        k \in hunks[h].first .. hunks[h].end}) = 1
    /\ \A h \in DOMAIN hunks : h > 1 => hunks[h - 1].end < hunks[h].first
    /\ \A h \in DOMAIN hunks : \A c \in 1 .. Context :
         /\ hunks[h].first > c =>
              hunks[h].first + c - 1 \notin Changes(pairs)
         /\ hunks[h].end + c <= Len(pairs) =>
              hunks[h].end - c + 1 \notin Changes(pairs)

\* What a reader of the patch relies on: the lines of a hunk are found in the
\* left value where its header says, and become the lines of the right value
\* where its header says.
OldIn(a, b) == {m \in a .. b : pairs[m].kind # "insert"}
NewIn(a, b) == {m \in a .. b : pairs[m].kind # "delete"}
HunkApplies(h) ==
  /\ Cardinality(OldIn(h.first, h.end)) = h.oldCount
  /\ Cardinality(NewIn(h.first, h.end)) = h.newCount
  /\ \A m \in OldIn(h.first, h.end) :
       LET line == h.oldStart + Cardinality(OldIn(h.first, m)) - 1
       IN  line \in DOMAIN left /\ pairs[m].left = left[line]
  /\ \A m \in NewIn(h.first, h.end) :
       LET line == h.newStart + Cardinality(NewIn(h.first, m)) - 1
       IN  line \in DOMAIN right /\ pairs[m].right = right[line]

\* Between the hunks n and n + 1, before the first and after the last, the two
\* sides hold the same lines, at the places the headers leave for them.
Preceding(start, count) == IF count = 0 THEN start ELSE start - 1
GapUnchanged(n) ==
  LET from(start, count) == IF n = 0 THEN 0 ELSE Preceding(start, count) + count
      oldFrom == from(hunks[n].oldStart, hunks[n].oldCount)
      newFrom == from(hunks[n].newStart, hunks[n].newCount)
      oldTo == IF n = Len(hunks) THEN Len(left)
               ELSE Preceding(hunks[n + 1].oldStart, hunks[n + 1].oldCount)
      newTo == IF n = Len(hunks) THEN Len(right)
               ELSE Preceding(hunks[n + 1].newStart, hunks[n + 1].newCount)
  IN  /\ oldTo <= Len(left) /\ newTo <= Len(right)
      /\ SubSeq(left, oldFrom + 1, oldTo) = SubSeq(right, newFrom + 1, newTo)

\* Applying the hunks of an unfiltered diff to the left value gives the right
\* one: every hunk is where its header says and nothing else differs.
HunksApply ==
  selected = Lines =>
    /\ \A n \in DOMAIN hunks : HunkApplies(hunks[n])
    /\ phase = "done" => \A n \in 0 .. Len(hunks) : GapUnchanged(n)

\* linediff.go 99-149: at every step of the walk the alignment spells the two
\* values out as far as it has come, none of their lines twice or left out.
AlignmentCorrect ==
  DiffTypeOK /\ SidesReproduced

\* linediff.go 152-203: the hunks are a patch.  They hold every change once,
\* with its context, and turn the left value into the right one.
HunksExact ==
  HunksCoverChanges /\ HunksApply

=============================================================================
