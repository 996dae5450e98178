---------------------------- MODULE LineDiffProofs ----------------------------
(***************************************************************************)
(* What LineDiff guarantees for every pair of values, every filter, every  *)
(* number of context lines and every limit of the table.                   *)
(***************************************************************************)
EXTENDS LineDiff, FiniteSetTheorems, SequenceTheorems, NaturalsInduction,
        WellFoundedInduction, TLAPS

-----------------------------------------------------------------------------
(***************************************************************************)
(* Counting the members of a set of positions.                             *)
(***************************************************************************)
Positions(S) == \A k \in S : k \in Nat /\ k >= 1
Upto(S, k) == Cardinality({m \in S : m <= k})
Between(S, a, b) == Cardinality({m \in S : a < m /\ m <= b})

\* The members up to a position are finitely many, and no more than that.
LEMMA UptoIsCount ==
  ASSUME NEW S, Positions(S), NEW k \in Nat
  PROVE  /\ IsFiniteSet({m \in S : m <= k})
         /\ Upto(S, k) \in Nat /\ Upto(S, k) <= k
<1> DEFINE T == {m \in S : m <= k}
<1>1. T \in SUBSET (1 .. k)
  BY DEF Positions
<1>2. IsFiniteSet(1 .. k) /\ Cardinality(1 .. k) = k
  BY FS_Interval
<1>3. IsFiniteSet(T) /\ Cardinality(T) <= k
  BY <1>1, <1>2, FS_Subset
<1> QED
  BY <1>3, FS_CardinalityType DEF Upto

\* Up to nowhere there is none.
LEMMA UptoZero ==
  ASSUME NEW S, Positions(S)
  PROVE  Upto(S, 0) = 0
<1>1. {m \in S : m <= 0} = {}
  BY DEF Positions
<1> QED
  BY <1>1, FS_EmptySet DEF Upto

\* Positions a + 1 .. b add the members among them.
LEMMA UptoSplit ==
  ASSUME NEW S, Positions(S), NEW a \in Nat, NEW b \in Nat, a <= b
  PROVE  Upto(S, b) = Upto(S, a) + Between(S, a, b) /\ Between(S, a, b) \in Nat
<1> DEFINE A == {m \in S : m <= a}
           B == {m \in S : a < m /\ m <= b}
           C == {m \in S : m <= b}
<1>1. C = A \cup B /\ A \cap B = {}
  BY DEF Positions
<1>2. IsFiniteSet(A) /\ IsFiniteSet(C)
  BY UptoIsCount
<1>3. IsFiniteSet(B)
  BY <1>1, <1>2, FS_Subset
<1> HIDE DEF A, B, C
<1>4. Cardinality(C) = Cardinality(A) + Cardinality(B) - Cardinality({})
  BY <1>1, <1>2, <1>3, FS_Union
<1>5. Cardinality({}) = 0 /\ Cardinality(A) \in Nat /\ Cardinality(B) \in Nat
  BY <1>2, <1>3, FS_EmptySet, FS_CardinalityType
<1> QED
  BY <1>4, <1>5 DEF Upto, Between, A, B, C

\* There are no fewer up to a later position.
LEMMA UptoGrows ==
  ASSUME NEW S, Positions(S), NEW a \in Nat, NEW b \in Nat, a <= b
  PROVE  Upto(S, a) <= Upto(S, b)
<1>1. Upto(S, a) \in Nat
  BY UptoIsCount
<1> QED
  BY <1>1, UptoSplit

\* When all positions a + 1 .. b are members, each adds one.
LEMMA UptoAll ==
  ASSUME NEW S, Positions(S), NEW a \in Nat, NEW b \in Nat, a <= b,
         \A m \in a + 1 .. b : m \in S
  PROVE  Upto(S, b) = Upto(S, a) + (b - a)
<1>1. {m \in S : a < m /\ m <= b} = a + 1 .. b
  BY DEF Positions
<1>2. Cardinality(a + 1 .. b) = b - a
  <2>1. a + 1 \in Int /\ b \in Int
    OBVIOUS
  <2>2. Cardinality(a + 1 .. b) = IF a + 1 > b THEN 0 ELSE b - (a + 1) + 1
    BY <2>1, FS_Interval
  <2> QED
    BY <2>2
<1> QED
  BY <1>1, <1>2, UptoSplit DEF Between

\* When none of them is, the count stays.
LEMMA UptoNone ==
  ASSUME NEW S, Positions(S), NEW a \in Nat, NEW b \in Nat, a <= b,
         \A m \in a + 1 .. b : m \notin S
  PROVE  Upto(S, b) = Upto(S, a)
<1>1. {m \in S : a < m /\ m <= b} = {}
  BY DEF Positions
<1>2. Between(S, a, b) = 0 /\ Upto(S, a) \in Nat
  BY <1>1, UptoIsCount, FS_EmptySet DEF Between
<1> QED
  BY <1>2, UptoSplit

\* A member is counted at its own position.
LEMMA UptoMember ==
  ASSUME NEW S, Positions(S), NEW m \in S
  PROVE  /\ m \in Nat /\ m - 1 \in Nat /\ Upto(S, m - 1) \in Nat
         /\ Upto(S, m) = Upto(S, m - 1) + 1
<1>1. m - 1 \in Nat /\ m \in Nat /\ m - 1 <= m
  BY DEF Positions
<1>2. \A x \in (m - 1) + 1 .. m : x \in S
  BY <1>1
<1>3. Upto(S, m) = Upto(S, m - 1) + (m - (m - 1))
  BY <1>1, <1>2, UptoAll
<1>4. Upto(S, m - 1) \in Nat
  BY <1>1, UptoIsCount
<1>5. m - (m - 1) = 1
  BY <1>1
<1> QED
  BY <1>1, <1>3, <1>4, <1>5

\* The count depends on the members up to the position only.
LEMMA UptoAgrees ==
  ASSUME NEW S, NEW T, NEW k, \A m : m <= k => (m \in S <=> m \in T)
  PROVE  Upto(S, k) = Upto(T, k)
<1>1. {m \in S : m <= k} = {m \in T : m <= k}
  OBVIOUS
<1> QED
  BY <1>1 DEF Upto

\* Every number up to the count of a set of positions is the count at exactly
\* one of its members.
LEMMA NthExists ==
  ASSUME NEW S, Positions(S), IsFiniteSet(S), NEW n \in 1 .. Cardinality(S)
  PROVE  Nth(S, n) \in S /\ Upto(S, Nth(S, n)) = n
<1> DEFINE T == 1 .. Cardinality(S)
           count == [k \in S |-> Upto(S, k)]
<1>1. Cardinality(S) \in Nat
  BY FS_CardinalityType
<1>2. IsFiniteSet(T) /\ Cardinality(T) = Cardinality(S)
  BY <1>1, FS_Interval
<1>3. \A k \in S : Upto(S, k) \in T
  <2> TAKE k \in S
  <2>1. Upto(S, k) >= 1 /\ Upto(S, k) \in Nat
    BY UptoMember
  <2>2. Upto(S, k) <= Cardinality(S)
    <3>1. {m \in S : m <= k} \in SUBSET S
      OBVIOUS
    <3> QED
      BY <3>1, FS_Subset DEF Upto
  <2> QED
    BY <1>1, <2>1, <2>2
<1>4. \A k, l \in S : k < l => Upto(S, k) < Upto(S, l)
  <2> TAKE k, l \in S
  <2> HAVE k < l
  <2>1. k \in Nat /\ l - 1 \in Nat /\ l \in Nat
    BY UptoMember
  <2>2. Upto(S, k) <= Upto(S, l - 1)
    BY <2>1, UptoGrows
  <2>3. Upto(S, k) \in Nat
    BY <2>1, UptoIsCount
  <2> QED
    BY <2>2, <2>3, UptoMember
<1>5. \A k, l \in S : count[k] = count[l] => k = l
  <2> TAKE k, l \in S
  <2> HAVE count[k] = count[l]
  <2>1. ~(k < l) /\ ~(l < k)
    BY <1>3, <1>4, UptoMember
  <2> QED
    BY <2>1, UptoMember
<1>6. count \in [S -> T]
  BY <1>3
<1>7. count \in Injection(S, T)
  BY <1>5, <1>6 DEF Injection, IsInjective
<1>8. count \in Surjection(S, T)
  BY <1>2, <1>7, FS_Injection
<1>9. \E k \in S : count[k] = n
  BY <1>8 DEF Surjection
<1>10. \E k \in S : Upto(S, k) = n
  BY <1>9
<1> QED
  BY <1>10 DEF Nth, Upto

\* The only set that counts as many as there are positions holds them all.
LEMMA NthOfAll ==
  ASSUME NEW k \in Nat, NEW n \in 1 .. k
  PROVE  Nth(1 .. k, n) = n
<1>1. IsFiniteSet(1 .. k) /\ Cardinality(1 .. k) = k
  BY FS_Interval
<1>2. Positions(1 .. k)
  BY DEF Positions
<1>3. Nth(1 .. k, n) \in 1 .. k /\ Upto(1 .. k, Nth(1 .. k, n)) = n
  BY <1>1, <1>2, NthExists
<1>4. ASSUME NEW m \in 1 .. k
      PROVE  Upto(1 .. k, m) = m
  <2>1. Upto(1 .. k, m) = Upto(1 .. k, 0) + (m - 0)
    BY <1>2, UptoAll
  <2> QED
    BY <1>2, <2>1, UptoZero
<1> QED
  BY <1>3, <1>4

\* Some positions, if any, have a first and a last one.
LEMMA FirstAndLast ==
  ASSUME NEW S, Positions(S), IsFiniteSet(S), S # {}
  PROVE  /\ \E k \in S : \A m \in S : k <= m
         /\ \E k \in S : \A m \in S : m <= k
<1>1. Cardinality(S) \in Nat \ {0}
  BY FS_CardinalityType, FS_EmptySet
<1>2. ASSUME NEW k \in S, NEW m \in S, m < k
      PROVE  Upto(S, m) < Upto(S, k)
  <2>1. m \in Nat /\ k - 1 \in Nat /\ m <= k - 1
    BY <1>2, UptoMember
  <2>2. Upto(S, m) <= Upto(S, k - 1)
    BY <2>1, UptoGrows
  <2>3. Upto(S, m) \in Nat
    BY <2>1, UptoIsCount
  <2> QED
    BY <2>2, <2>3, UptoMember
<1>3. ASSUME NEW m \in S
      PROVE  Upto(S, m) \in 1 .. Cardinality(S)
  <2>1. {x \in S : x <= m} \in SUBSET S
    OBVIOUS
  <2>2. Upto(S, m) <= Cardinality(S)
    BY <2>1, FS_Subset DEF Upto
  <2>3. Upto(S, m) \in Nat /\ Upto(S, m) >= 1
    BY UptoMember
  <2> QED
    BY <1>1, <2>2, <2>3
<1>4. \E k \in S : \A m \in S : k <= m
  <2>1. PICK k \in S : Upto(S, k) = 1
    BY <1>1, NthExists
  <2>2. \A m \in S : ~(m < k)
    BY <1>2, <1>3, <2>1
  <2> QED
    BY <2>2, UptoMember
<1>5. \E k \in S : \A m \in S : m <= k
  <2>1. PICK k \in S : Upto(S, k) = Cardinality(S)
    BY <1>1, NthExists
  <2>2. \A m \in S : ~(k < m)
    BY <1>1, <1>2, <1>3, <2>1
  <2> QED
    BY <2>2, UptoMember
<1> QED
  BY <1>4, <1>5

-----------------------------------------------------------------------------
(***************************************************************************)
(* The alignment spells both values out.                                   *)
(***************************************************************************)
Olds(s) == {m \in DOMAIN s : s[m].kind # "insert"}
News(s) == {m \in DOMAIN s : s[m].kind # "delete"}

SpellsLeft(s, n) ==
  /\ Upto(Olds(s), Len(s)) = n
  /\ \A k \in Olds(s) : s[k].left = left[Upto(Olds(s), k)]

SpellsRight(s, n) ==
  /\ Upto(News(s), Len(s)) = n
  /\ \A k \in News(s) : s[k].right = right[Upto(News(s), k)]

\* t goes on where s ends.
Continues(t, s) == Len(s) <= Len(t) /\ \A k \in 1 .. Len(s) : t[k] = s[k]

\* Both are sets of positions, and the counts of the model are counts of their
\* members.
LEMMA BeforeIsUpto ==
  ASSUME NEW s \in Seq(Pairs)
  PROVE  /\ Positions(Olds(s)) /\ Positions(News(s))
         /\ \A k \in 0 .. Len(s) : /\ OldBefore(s, k) = Upto(Olds(s), k)
                                   /\ NewBefore(s, k) = Upto(News(s), k)
<1>1. DOMAIN s = 1 .. Len(s) /\ Len(s) \in Nat
  OBVIOUS
<1>2. Positions(Olds(s)) /\ Positions(News(s))
  BY <1>1 DEF Positions, Olds, News
<1>3. ASSUME NEW k \in 0 .. Len(s)
      PROVE  /\ {m \in 1 .. k : s[m].kind # "insert"} = {m \in Olds(s) : m <= k}
             /\ {m \in 1 .. k : s[m].kind # "delete"} = {m \in News(s) : m <= k}
  BY <1>1 DEF Olds, News
<1> QED
  BY <1>2, <1>3 DEF OldBefore, NewBefore, Upto

\* S and T have the same members up to a; the count then goes on as T has all
\* the next positions up to b, or none of them.
SameTo(S, T, a) == \A m \in 1 .. a : m \in S <=> m \in T
CountGoesOn(S, T, a, b) ==
  /\ \A k \in 0 .. a : Upto(T, k) = Upto(S, k)
  /\ (\A m \in a + 1 .. b : m \in T) =>
       \A k \in a .. b : Upto(T, k) = Upto(S, a) + (k - a)
  /\ (\A m \in a + 1 .. b : m \notin T) =>
       \A k \in a .. b : Upto(T, k) = Upto(S, a)

\* Behind a common beginning, counting goes on from its count.
LEMMA UptoContinues ==
  ASSUME NEW S, NEW T, Positions(S), Positions(T), NEW a \in Nat, NEW b \in Nat,
         a <= b, SameTo(S, T, a)
  PROVE  CountGoesOn(S, T, a, b)
<1>1. ASSUME NEW k \in 0 .. a
      PROVE  Upto(T, k) = Upto(S, k)
  <2>1. {m \in S : m <= k} = {m \in T : m <= k}
    BY DEF Positions, SameTo
  <2> QED
    BY <2>1 DEF Upto
<1>2. Upto(T, a) = Upto(S, a)
  BY <1>1
<1>3. ASSUME \A m \in a + 1 .. b : m \in T, NEW k \in a .. b
      PROVE  Upto(T, k) = Upto(S, a) + (k - a)
  <2>1. k \in Nat /\ a <= k /\ \A m \in a + 1 .. k : m \in T
    BY <1>3
  <2> QED
    BY <1>2, <2>1, UptoAll
<1>4. ASSUME \A m \in a + 1 .. b : m \notin T, NEW k \in a .. b
      PROVE  Upto(T, k) = Upto(S, a)
  <2>1. k \in Nat /\ a <= k /\ \A m \in a + 1 .. k : m \notin T
    BY <1>4
  <2> QED
    BY <1>2, <2>1, UptoNone
<1> QED
  BY <1>1, <1>3, <1>4 DEF CountGoesOn

\* The same for the lines of two alignments, one of which goes on.
LEMMA CountsContinue ==
  ASSUME NEW s \in Seq(Pairs), NEW t \in Seq(Pairs), Continues(t, s)
  PROVE  /\ CountGoesOn(Olds(s), Olds(t), Len(s), Len(t))
         /\ CountGoesOn(News(s), News(t), Len(s), Len(t))
<1>1. /\ Len(s) \in Nat /\ Len(t) \in Nat /\ Len(s) <= Len(t)
      /\ DOMAIN s = 1 .. Len(s) /\ DOMAIN t = 1 .. Len(t)
  BY DEF Continues
<1>2. /\ Positions(Olds(s)) /\ Positions(Olds(t))
      /\ Positions(News(s)) /\ Positions(News(t))
  BY BeforeIsUpto
<1>3. SameTo(Olds(s), Olds(t), Len(s)) /\ SameTo(News(s), News(t), Len(s))
  BY <1>1 DEF Continues, Olds, News, SameTo
<1> QED
  BY <1>1, <1>2, <1>3, UptoContinues

\* An alignment that goes on with the next lines of the left value spells out
\* so much more of it.
LEMMA MoreOfLeft ==
  ASSUME NEW s \in Seq(Pairs), NEW t \in Seq(Pairs), Continues(t, s),
         NEW n \in Nat, SpellsLeft(s, n),
         \A m \in Len(s) + 1 .. Len(t) :
           t[m].kind # "insert" /\ t[m].left = left[n + (m - Len(s))]
  PROVE  SpellsLeft(t, n + (Len(t) - Len(s)))
<1>1. Len(s) \in Nat /\ Len(t) \in Nat /\ Len(s) <= Len(t)
      /\ DOMAIN s = 1 .. Len(s) /\ DOMAIN t = 1 .. Len(t)
  BY DEF Continues
<1>2. \A m \in Len(s) + 1 .. Len(t) : m \in Olds(t)
  BY <1>1 DEF Olds
<1>3. \A k \in Len(s) .. Len(t) : Upto(Olds(t), k) = n + (k - Len(s))
  BY <1>2, CountsContinue DEF SpellsLeft, CountGoesOn
<1>4. ASSUME NEW k \in Olds(t)
      PROVE  t[k].left = left[Upto(Olds(t), k)]
  <2>1. CASE k <= Len(s)
    <3>1. k \in Olds(s) /\ t[k] = s[k] /\ k \in 0 .. Len(s)
      BY <1>1, <2>1 DEF Olds, Continues
    <3>2. Upto(Olds(t), k) = Upto(Olds(s), k)
      BY <3>1, CountsContinue DEF CountGoesOn
    <3> QED
      BY <3>1, <3>2 DEF SpellsLeft
  <2>2. CASE k > Len(s)
    <3>1. k \in Len(s) + 1 .. Len(t)
      BY <1>1, <2>2 DEF Olds
    <3> QED
      BY <1>1, <1>3, <3>1
  <2> QED
    BY <1>1, <2>1, <2>2 DEF Olds
<1> QED
  BY <1>1, <1>3, <1>4 DEF SpellsLeft

\* One that goes on with inserted lines spells out no more of it.
LEMMA NoMoreOfLeft ==
  ASSUME NEW s \in Seq(Pairs), NEW t \in Seq(Pairs), Continues(t, s),
         NEW n \in Nat, SpellsLeft(s, n),
         \A m \in Len(s) + 1 .. Len(t) : t[m].kind = "insert"
  PROVE  SpellsLeft(t, n)
<1>1. Len(s) \in Nat /\ Len(t) \in Nat /\ Len(s) <= Len(t)
      /\ DOMAIN s = 1 .. Len(s) /\ DOMAIN t = 1 .. Len(t)
  BY DEF Continues
<1>2. \A m \in Len(s) + 1 .. Len(t) : m \notin Olds(t)
  BY <1>1 DEF Olds
<1>3. \A k \in Len(s) .. Len(t) : Upto(Olds(t), k) = n
  BY <1>2, CountsContinue DEF SpellsLeft, CountGoesOn
<1>4. ASSUME NEW k \in Olds(t)
      PROVE  t[k].left = left[Upto(Olds(t), k)]
  <2>1. k <= Len(s)
    BY <1>1, <1>2 DEF Olds
  <2>2. k \in Olds(s) /\ t[k] = s[k] /\ k \in 0 .. Len(s)
    BY <1>1, <2>1 DEF Olds, Continues
  <2>3. Upto(Olds(t), k) = Upto(Olds(s), k)
    BY <2>2, CountsContinue DEF CountGoesOn
  <2> QED
    BY <2>2, <2>3 DEF SpellsLeft
<1> QED
  BY <1>1, <1>3, <1>4 DEF SpellsLeft

\* The right value in the same way.
LEMMA MoreOfRight ==
  ASSUME NEW s \in Seq(Pairs), NEW t \in Seq(Pairs), Continues(t, s),
         NEW n \in Nat, SpellsRight(s, n),
         \A m \in Len(s) + 1 .. Len(t) :
           t[m].kind # "delete" /\ t[m].right = right[n + (m - Len(s))]
  PROVE  SpellsRight(t, n + (Len(t) - Len(s)))
<1>1. Len(s) \in Nat /\ Len(t) \in Nat /\ Len(s) <= Len(t)
      /\ DOMAIN s = 1 .. Len(s) /\ DOMAIN t = 1 .. Len(t)
  BY DEF Continues
<1>2. \A m \in Len(s) + 1 .. Len(t) : m \in News(t)
  BY <1>1 DEF News
<1>3. \A k \in Len(s) .. Len(t) : Upto(News(t), k) = n + (k - Len(s))
  BY <1>2, CountsContinue DEF SpellsRight, CountGoesOn
<1>4. ASSUME NEW k \in News(t)
      PROVE  t[k].right = right[Upto(News(t), k)]
  <2>1. CASE k <= Len(s)
    <3>1. k \in News(s) /\ t[k] = s[k] /\ k \in 0 .. Len(s)
      BY <1>1, <2>1 DEF News, Continues
    <3>2. Upto(News(t), k) = Upto(News(s), k)
      BY <3>1, CountsContinue DEF CountGoesOn
    <3> QED
      BY <3>1, <3>2 DEF SpellsRight
  <2>2. CASE k > Len(s)
    <3>1. k \in Len(s) + 1 .. Len(t)
      BY <1>1, <2>2 DEF News
    <3> QED
      BY <1>1, <1>3, <3>1
  <2> QED
    BY <1>1, <2>1, <2>2 DEF News
<1> QED
  BY <1>1, <1>3, <1>4 DEF SpellsRight

\* Deleted lines spell out no more of the right value.
LEMMA NoMoreOfRight ==
  ASSUME NEW s \in Seq(Pairs), NEW t \in Seq(Pairs), Continues(t, s),
         NEW n \in Nat, SpellsRight(s, n),
         \A m \in Len(s) + 1 .. Len(t) : t[m].kind = "delete"
  PROVE  SpellsRight(t, n)
<1>1. Len(s) \in Nat /\ Len(t) \in Nat /\ Len(s) <= Len(t)
      /\ DOMAIN s = 1 .. Len(s) /\ DOMAIN t = 1 .. Len(t)
  BY DEF Continues
<1>2. \A m \in Len(s) + 1 .. Len(t) : m \notin News(t)
  BY <1>1 DEF News
<1>3. \A k \in Len(s) .. Len(t) : Upto(News(t), k) = n
  BY <1>2, CountsContinue DEF SpellsRight, CountGoesOn
<1>4. ASSUME NEW k \in News(t)
      PROVE  t[k].right = right[Upto(News(t), k)]
  <2>1. k <= Len(s)
    BY <1>1, <1>2 DEF News
  <2>2. k \in News(s) /\ t[k] = s[k] /\ k \in 0 .. Len(s)
    BY <1>1, <2>1 DEF News, Continues
  <2>3. Upto(News(t), k) = Upto(News(s), k)
    BY <2>2, CountsContinue DEF CountGoesOn
  <2> QED
    BY <2>2, <2>3 DEF SpellsRight
<1> QED
  BY <1>1, <1>3, <1>4 DEF SpellsRight

-----------------------------------------------------------------------------
(***************************************************************************)
(* The inductive invariant.                                                *)
(***************************************************************************)
\* What a hunk of the alignment s with c lines of context is.
HunkHeader == [first : Nat, end : Nat, oldStart : Nat, oldCount : Nat,
               newStart : Nat, newCount : Nat]

Headed(h, s) ==
  /\ h.oldCount = OldBefore(s, h.end) - OldBefore(s, h.first - 1)
  /\ h.oldStart = RangeStart(OldBefore(s, h.first - 1), h.oldCount)
  /\ h.newCount = NewBefore(s, h.end) - NewBefore(s, h.first - 1)
  /\ h.newStart = RangeStart(NewBefore(s, h.first - 1), h.newCount)

Padded(h, s, c) ==
  /\ 1 <= h.first /\ h.first <= h.end /\ h.end <= Len(s)
  /\ h.first > 1 => \A k \in Changes(s) : ~(h.first <= k /\ k < h.first + c)
  /\ h.end < Len(s) => \A k \in Changes(s) : ~(h.end - c < k /\ k <= h.end + c)

Cut(h, s, c) == h \in HunkHeader /\ Headed(h, s) /\ Padded(h, s, c)

Inside(k, h) == h.first <= k /\ k <= h.end

Aligning == phase \in {"start", "aligning", "aligned"}

\* What has been used of both sides is spelled out, and there is no hunk yet.
Spelling ==
  Aligning =>
    /\ i <= Len(left) /\ j <= Len(right)
    /\ SpellsLeft(pairs, i) /\ SpellsRight(pairs, j)
    /\ hunks = << >>

WalkEnds ==
  /\ phase = "start" => i = 0 /\ j = 0 /\ pairs = << >>
  /\ phase = "aligned" => i = Len(left) /\ j = Len(right)

SameText(s) == \A k \in DOMAIN s : s[k].kind = "equal" => s[k].left = s[k].right

\* Without a filter the hunks are cut from all lines of both sides.
WholeSpelled ==
  ~Aligning /\ selected = Lines =>
    SpellsLeft(pairs, Len(left)) /\ SpellsRight(pairs, Len(right))

\* The hunks so far are cut as they should be, end where the loop is, follow one
\* another and hold every change that the loop has passed.
HunksPlaced ==
  ~Aligning =>
    /\ hunks \in Seq(HunkHeader) /\ i <= Len(pairs)
    /\ \A h \in DOMAIN hunks : Cut(hunks[h], pairs, Context) /\ hunks[h].end <= i
    /\ \A g, h \in DOMAIN hunks : g < h => hunks[g].end < hunks[h].first
    /\ \A k \in Changes(pairs) :
         k <= i \/ phase = "done" => \E h \in DOMAIN hunks : Inside(k, hunks[h])

DiffInv ==
  /\ DiffTypeOK /\ Spelling /\ WalkEnds /\ SameText(pairs)
  /\ WholeSpelled /\ HunksPlaced

-----------------------------------------------------------------------------
(***************************************************************************)
(* The walk through the table.                                             *)
(***************************************************************************)
\* What the model puts into the alignment is a pair of it.
LEMMA PairTypes ==
  ASSUME NEW line \in Lines
  PROVE  Equal(line) \in Pairs /\ Delete(line) \in Pairs /\ Insert(line) \in Pairs
BY DEF Equal, Delete, Insert, Pairs

\* And shows the line it is given.
LEMMA DeleteFields ==
  \A line : Delete(line).kind = "delete" /\ Delete(line).left = line
BY DEF Delete

\* An inserted line likewise.
LEMMA InsertFields ==
  \A line : Insert(line).kind = "insert" /\ Insert(line).right = line
BY DEF Insert

\* One more pair.
LEMMA OneMore ==
  ASSUME NEW s \in Seq(Pairs), NEW x \in Pairs
  PROVE  LET t == Append(s, x)
         IN  /\ t \in Seq(Pairs) /\ Len(t) = Len(s) + 1 /\ Continues(t, s)
             /\ \A m \in Len(s) + 1 .. Len(t) : m = Len(s) + 1 /\ t[m] = x
BY DEF Continues

\* One alignment behind another.
LEMMA Joined ==
  ASSUME NEW s \in Seq(Pairs), NEW d \in Seq(Pairs)
  PROVE  LET t == s \o d
         IN  /\ t \in Seq(Pairs) /\ Len(t) = Len(s) + Len(d) /\ Continues(t, s)
             /\ \A m \in Len(s) + 1 .. Len(t) :
                  m - Len(s) \in 1 .. Len(d) /\ t[m] = d[m - Len(s)]
<1> DEFINE t == s \o d
<1>1. Len(s) \in Nat /\ Len(d) \in Nat
  OBVIOUS
<1>2. t \in Seq(Pairs) /\ Len(t) = Len(s) + Len(d)
  OBVIOUS
<1>3. \A k \in 1 .. Len(s) : t[k] = s[k]
  OBVIOUS
<1>4. \A m \in Len(s) + 1 .. Len(t) :
        m - Len(s) \in 1 .. Len(d) /\ t[m] = d[m - Len(s)]
  <2> TAKE m \in Len(s) + 1 .. Len(t)
  <2>1. m \in 1 .. Len(s) + Len(d) /\ m > Len(s)
    BY <1>1, <1>2
  <2> QED
    BY <1>1, <2>1
<1> QED
  BY <1>1, <1>2, <1>3, <1>4 DEF Continues

\* Pairs of equal lines show the same text on both sides.
LEMMA SameTextContinues ==
  ASSUME NEW s \in Seq(Pairs), NEW t \in Seq(Pairs), Continues(t, s), SameText(s),
         \A m \in Len(s) + 1 .. Len(t) : t[m].kind = "equal" => t[m].left = t[m].right
  PROVE  SameText(t)
BY DEF SameText, Continues

\* The rest of the left value, as deleted lines.
LEMMA RestOfLeft ==
  ASSUME DiffTypeOK, i <= Len(left), SpellsLeft(pairs, i), SpellsRight(pairs, j),
         SameText(pairs)
  PROVE  LET t == pairs \o Deletes(i)
         IN  /\ t \in Seq(Pairs) /\ SameText(t)
             /\ SpellsLeft(t, Len(left)) /\ SpellsRight(t, j)
<1> DEFINE d == Deletes(i)
           t == pairs \o d
<1>1. /\ pairs \in Seq(Pairs) /\ left \in Seq(Lines) /\ i \in Nat /\ j \in Nat
      /\ Len(left) \in Nat /\ Len(pairs) \in Nat
  BY DEF DiffTypeOK
<1>2. /\ d \in Seq(Pairs) /\ Len(d) = Len(left) - i
      /\ \A k \in 1 .. Len(d) : d[k] = Delete(left[i + k])
  <2>1. Len(left) - i \in Nat
    BY <1>1
  <2>2. \A k \in 1 .. Len(left) - i : left[i + k] \in Lines
    BY <1>1
  <2>3. \A k \in 1 .. Len(left) - i : Delete(left[i + k]) \in Pairs
    BY <2>2, PairTypes
  <2> QED
    BY <2>1, <2>3 DEF Deletes
<1> HIDE DEF d
<1>3. /\ t \in Seq(Pairs) /\ Len(t) = Len(pairs) + Len(d) /\ Continues(t, pairs)
      /\ \A m \in Len(pairs) + 1 .. Len(t) :
           m - Len(pairs) \in 1 .. Len(d) /\ t[m] = d[m - Len(pairs)]
  BY <1>1, <1>2, Joined
<1> HIDE DEF t
<1>4. \A m \in Len(pairs) + 1 .. Len(t) :
        t[m] = Delete(left[i + (m - Len(pairs))])
  BY <1>2, <1>3
<1>5. \A m \in Len(pairs) + 1 .. Len(t) :
        t[m].kind = "delete" /\ t[m].left = left[i + (m - Len(pairs))]
  BY <1>4, DeleteFields
<1>6. SpellsLeft(t, i + (Len(t) - Len(pairs)))
  BY <1>1, <1>3, <1>5, MoreOfLeft
<1>7. SpellsRight(t, j)
  BY <1>1, <1>3, <1>5, NoMoreOfRight
<1>8. SameText(t)
  BY <1>1, <1>3, <1>5, SameTextContinues
<1>9. i + (Len(t) - Len(pairs)) = Len(left)
  BY <1>1, <1>2, <1>3
<1> QED
  BY <1>3, <1>6, <1>7, <1>8, <1>9 DEF t, d

\* The rest of the right value behind that, as inserted lines.
LEMMA RestOfRight ==
  ASSUME DiffTypeOK, j <= Len(right), NEW s \in Seq(Pairs), NEW n \in Nat,
         SpellsLeft(s, n), SpellsRight(s, j), SameText(s)
  PROVE  LET t == s \o Inserts(j)
         IN  /\ t \in Seq(Pairs) /\ SameText(t)
             /\ SpellsLeft(t, n) /\ SpellsRight(t, Len(right))
<1> DEFINE d == Inserts(j)
           t == s \o d
<1>1. right \in Seq(Lines) /\ j \in Nat /\ Len(right) \in Nat /\ Len(s) \in Nat
  BY DEF DiffTypeOK
<1>2. /\ d \in Seq(Pairs) /\ Len(d) = Len(right) - j
      /\ \A k \in 1 .. Len(d) : d[k] = Insert(right[j + k])
  <2>1. Len(right) - j \in Nat
    BY <1>1
  <2>2. \A k \in 1 .. Len(right) - j : right[j + k] \in Lines
    BY <1>1
  <2>3. \A k \in 1 .. Len(right) - j : Insert(right[j + k]) \in Pairs
    BY <2>2, PairTypes
  <2> QED
    BY <2>1, <2>3 DEF Inserts
<1> HIDE DEF d
<1>3. /\ t \in Seq(Pairs) /\ Len(t) = Len(s) + Len(d) /\ Continues(t, s)
      /\ \A m \in Len(s) + 1 .. Len(t) :
           m - Len(s) \in 1 .. Len(d) /\ t[m] = d[m - Len(s)]
  BY <1>1, <1>2, Joined
<1> HIDE DEF t
<1>4. \A m \in Len(s) + 1 .. Len(t) : t[m] = Insert(right[j + (m - Len(s))])
  BY <1>2, <1>3
<1>5. \A m \in Len(s) + 1 .. Len(t) :
        t[m].kind = "insert" /\ t[m].right = right[j + (m - Len(s))]
  BY <1>4, InsertFields
<1>6. SpellsRight(t, j + (Len(t) - Len(s)))
  BY <1>1, <1>3, <1>5, MoreOfRight
<1>7. SpellsLeft(t, n)
  BY <1>1, <1>3, <1>5, NoMoreOfLeft
<1>8. SameText(t)
  BY <1>1, <1>3, <1>5, SameTextContinues
<1>9. j + (Len(t) - Len(s)) = Len(right)
  BY <1>1, <1>2, <1>3
<1> QED
  BY <1>3, <1>6, <1>7, <1>8, <1>9 DEF t, d

\* Both rests: the two values are spelled out.
LEMMA BothRests ==
  ASSUME DiffTypeOK, i <= Len(left), j <= Len(right),
         SpellsLeft(pairs, i), SpellsRight(pairs, j), SameText(pairs)
  PROVE  LET t == pairs \o Deletes(i) \o Inserts(j)
         IN  /\ t \in Seq(Pairs) /\ SameText(t)
             /\ SpellsLeft(t, Len(left)) /\ SpellsRight(t, Len(right))
<1> DEFINE s == pairs \o Deletes(i)
<1>1. /\ s \in Seq(Pairs) /\ SameText(s)
      /\ SpellsLeft(s, Len(left)) /\ SpellsRight(s, j)
  BY RestOfLeft
<1>2. Len(left) \in Nat
  BY DEF DiffTypeOK
<1> HIDE DEF s
<1>3. LET t == s \o Inserts(j)
      IN  /\ t \in Seq(Pairs) /\ SameText(t)
          /\ SpellsLeft(t, Len(left)) /\ SpellsRight(t, Len(right))
  BY <1>1, <1>2, RestOfRight
<1> QED
  BY <1>3 DEF s

\* The step of the walk that the two lines at the loop's place decide.
LEMMA NextPair ==
  ASSUME DiffTypeOK, SpellsLeft(pairs, i), SpellsRight(pairs, j), SameText(pairs),
         i < Len(left), j < Len(right)
  PROVE  /\ LET t == Append(pairs, Delete(left[i + 1]))
            IN  /\ t \in Seq(Pairs) /\ SameText(t)
                /\ SpellsLeft(t, i + 1) /\ SpellsRight(t, j)
         /\ LET t == Append(pairs, Insert(right[j + 1]))
            IN  /\ t \in Seq(Pairs) /\ SameText(t)
                /\ SpellsLeft(t, i) /\ SpellsRight(t, j + 1)
         /\ left[i + 1] = right[j + 1] =>
              LET t == Append(pairs, Equal(left[i + 1]))
              IN  /\ t \in Seq(Pairs) /\ SameText(t)
                  /\ SpellsLeft(t, i + 1) /\ SpellsRight(t, j + 1)
<1>1. /\ pairs \in Seq(Pairs) /\ i \in Nat /\ j \in Nat /\ Len(pairs) \in Nat
      /\ left[i + 1] \in Lines /\ right[j + 1] \in Lines
  BY DEF DiffTypeOK
<1>2. /\ Len(pairs) + 1 - Len(pairs) = 1
      /\ \A n : n = Len(pairs) + 1 => n - Len(pairs) = 1
  BY <1>1
<1>3. LET t == Append(pairs, Delete(left[i + 1]))
      IN  /\ t \in Seq(Pairs) /\ SameText(t)
          /\ SpellsLeft(t, i + 1) /\ SpellsRight(t, j)
  <2> DEFINE x == Delete(left[i + 1])
             t == Append(pairs, x)
  <2>1. x \in Pairs
    BY <1>1, PairTypes
  <2>2. x.kind = "delete" /\ x.left = left[i + 1]
    BY DEF Delete
  <2> HIDE DEF x
  <2>3. /\ t \in Seq(Pairs) /\ Len(t) = Len(pairs) + 1 /\ Continues(t, pairs)
        /\ \A m \in Len(pairs) + 1 .. Len(t) : m = Len(pairs) + 1 /\ t[m] = x
    BY <1>1, <2>1, OneMore
  <2> HIDE DEF t
  <2>4. \A m \in Len(pairs) + 1 .. Len(t) :
          t[m].kind = "delete" /\ t[m].left = left[i + (m - Len(pairs))]
    BY <1>2, <2>2, <2>3
  <2>5. SpellsLeft(t, i + (Len(t) - Len(pairs)))
    BY <1>1, <2>3, <2>4, MoreOfLeft
  <2>6. SpellsRight(t, j)
    BY <1>1, <2>3, <2>4, NoMoreOfRight
  <2>7. SameText(t)
    BY <1>1, <2>3, <2>4, SameTextContinues
  <2> QED
    BY <1>2, <2>3, <2>5, <2>6, <2>7 DEF t, x
<1>4. LET t == Append(pairs, Insert(right[j + 1]))
      IN  /\ t \in Seq(Pairs) /\ SameText(t)
          /\ SpellsLeft(t, i) /\ SpellsRight(t, j + 1)
  <2> DEFINE x == Insert(right[j + 1])
             t == Append(pairs, x)
  <2>1. x \in Pairs
    BY <1>1, PairTypes
  <2>2. x.kind = "insert" /\ x.right = right[j + 1]
    BY DEF Insert
  <2> HIDE DEF x
  <2>3. /\ t \in Seq(Pairs) /\ Len(t) = Len(pairs) + 1 /\ Continues(t, pairs)
        /\ \A m \in Len(pairs) + 1 .. Len(t) : m = Len(pairs) + 1 /\ t[m] = x
    BY <1>1, <2>1, OneMore
  <2> HIDE DEF t
  <2>4. \A m \in Len(pairs) + 1 .. Len(t) :
          t[m].kind = "insert" /\ t[m].right = right[j + (m - Len(pairs))]
    BY <1>2, <2>2, <2>3
  <2>5. SpellsRight(t, j + (Len(t) - Len(pairs)))
    BY <1>1, <2>3, <2>4, MoreOfRight
  <2>6. SpellsLeft(t, i)
    BY <1>1, <2>3, <2>4, NoMoreOfLeft
  <2>7. SameText(t)
    BY <1>1, <2>3, <2>4, SameTextContinues
  <2> QED
    BY <1>2, <2>3, <2>5, <2>6, <2>7 DEF t, x
<1>5. ASSUME left[i + 1] = right[j + 1]
      PROVE  LET t == Append(pairs, Equal(left[i + 1]))
             IN  /\ t \in Seq(Pairs) /\ SameText(t)
                 /\ SpellsLeft(t, i + 1) /\ SpellsRight(t, j + 1)
  <2> DEFINE x == Equal(left[i + 1])
             t == Append(pairs, x)
  <2>1. x \in Pairs
    BY <1>1, PairTypes
  <2>2. x.kind = "equal" /\ x.left = left[i + 1] /\ x.right = right[j + 1]
    BY <1>5 DEF Equal
  <2> HIDE DEF x
  <2>3. /\ t \in Seq(Pairs) /\ Len(t) = Len(pairs) + 1 /\ Continues(t, pairs)
        /\ \A m \in Len(pairs) + 1 .. Len(t) : m = Len(pairs) + 1 /\ t[m] = x
    BY <1>1, <2>1, OneMore
  <2> HIDE DEF t
  <2>4. \A m \in Len(pairs) + 1 .. Len(t) :
          /\ t[m].kind = "equal" /\ t[m].left = left[i + (m - Len(pairs))]
          /\ t[m].right = right[j + (m - Len(pairs))]
          /\ t[m].left = t[m].right
    BY <1>2, <1>5, <2>2, <2>3
  <2>5. SpellsLeft(t, i + (Len(t) - Len(pairs)))
    BY <1>1, <2>3, <2>4, MoreOfLeft
  <2>6. SpellsRight(t, j + (Len(t) - Len(pairs)))
    BY <1>1, <2>3, <2>4, MoreOfRight
  <2>7. SameText(t)
    BY <1>1, <2>3, <2>4, SameTextContinues
  <2> QED
    BY <1>2, <2>3, <2>5, <2>6, <2>7 DEF t, x
<1> QED
  BY <1>3, <1>4, <1>5

-----------------------------------------------------------------------------
(***************************************************************************)
(* The filter.                                                             *)
(***************************************************************************)
\* What is kept is an alignment of equal texts again; everything is kept when
\* every line is selected.
LEMMA FilterKeepsPairs ==
  ASSUME DiffTypeOK, SameText(pairs)
  PROVE  /\ FilterAlignment \in Seq(Pairs) /\ SameText(FilterAlignment)
         /\ selected = Lines => FilterAlignment = pairs
<1> DEFINE N == Len(pairs)
<1>1. /\ pairs \in Seq(Pairs) /\ N \in Nat /\ DOMAIN pairs = 1 .. N
      /\ \A k \in 1 .. N : pairs[k] \in Pairs
  BY DEF DiffTypeOK
<1>2. Kept \in SUBSET (1 .. N) /\ Positions(Kept)
  BY <1>1 DEF Kept, Positions
<1> HIDE DEF N
<1>3. IsFiniteSet(1 .. N) /\ Cardinality(1 .. N) = N
  BY <1>1, FS_Interval
<1>4. IsFiniteSet(Kept) /\ Cardinality(Kept) \in Nat
  BY <1>2, <1>3, FS_Subset, FS_CardinalityType
<1>5. \A n \in 1 .. Cardinality(Kept) : Nth(Kept, n) \in 1 .. N
  BY <1>2, <1>4, NthExists
<1>6. FilterAlignment \in Seq(Pairs)
  BY <1>1, <1>4, <1>5 DEF FilterAlignment
<1>7. SameText(FilterAlignment)
  BY <1>1, <1>4, <1>5 DEF FilterAlignment, SameText
<1>8. ASSUME selected = Lines
      PROVE  FilterAlignment = pairs
  <2>1. \A k \in 1 .. N : pairs[k].kind # "equal" => TextOf(pairs[k]) \in Lines
    BY <1>1 DEF Pairs, TextOf
  <2>2. Kept = 1 .. N
    BY <1>1, <1>8, <2>1 DEF Kept
  <2>3. \A n \in 1 .. N : Nth(Kept, n) = n
    BY <1>1, <2>2, NthOfAll
  <2>4. FilterAlignment = [n \in 1 .. N |-> pairs[n]]
    BY <1>3, <2>2, <2>3 DEF FilterAlignment
  <2> QED
    BY <1>1, <2>4
<1> QED
  BY <1>6, <1>7, <1>8 DEF N

-----------------------------------------------------------------------------
(***************************************************************************)
(* Hunks.                                                                  *)
(***************************************************************************)
\* The number of context lines is one, whatever was asked for.
LEMMA ContextType ==
  ASSUME DiffTypeOK
  PROVE  Context \in Nat
BY LineAssumption DEF DiffTypeOK, Context

\* The search for the last change of a hunk finds one: a change from p on,
\* behind which more than 2 * Context + 1 pairs are equal.
LEMMA LastChangeFound ==
  ASSUME DiffTypeOK, NEW p \in Changes(pairs)
  PROVE  /\ LastChange(p) \in Changes(pairs) /\ LastChange(p) >= p
         /\ \A k \in Changes(pairs) :
              k > LastChange(p) => k > LastChange(p) + 2 * Context + 1
<1> DEFINE C == Changes(pairs)
           c == 2 * Context
           near(k) == \A m \in p .. k : \E q \in C : p <= q /\ q <= m /\ m - q <= c
           S == {k \in C : k >= p /\ near(k)}
           Is(last) == /\ last >= p /\ near(last)
                       /\ \A k \in C : k > last => ~near(k)
<1>1. c \in Nat
  BY ContextType
<1>2. /\ DOMAIN pairs = 1 .. Len(pairs) /\ Len(pairs) \in Nat
      /\ C \in SUBSET (1 .. Len(pairs))
  BY DEF DiffTypeOK, Changes
<1>3. LastChange(p) = CHOOSE last \in C : Is(last)
  BY DEF LastChange
<1> HIDE DEF C, c
<1>4. p \in S
  <2>1. p \in C /\ p \in Nat
    BY <1>2 DEF C
  <2>2. \A m \in p .. p : m = p
    BY <2>1
  <2> QED
    BY <1>1, <2>1, <2>2
<1>5. IsFiniteSet(S) /\ Positions(S)
  <2>1. IsFiniteSet(1 .. Len(pairs))
    BY <1>2, FS_Interval
  <2>2. S \in SUBSET (1 .. Len(pairs))
    BY <1>2
  <2> QED
    BY <2>1, <2>2, FS_Subset DEF Positions
<1>6. PICK last \in S : \A k \in S : k <= last
  BY <1>4, <1>5, FirstAndLast
<1>7. Is(last)
  <2>1. \A k \in C : k \in Nat
    BY <1>2
  <2>2. ASSUME NEW k \in C, k > last, near(k)
        PROVE  FALSE
    <3>1. k >= p
      BY <1>6, <2>1, <2>2 DEF C
    <3> QED
      BY <1>6, <2>1, <2>2, <3>1
  <2> QED
    BY <1>6, <2>2
<1>8. \E x \in C : Is(x)
  BY <1>6, <1>7
<1>9. LastChange(p) \in C /\ Is(LastChange(p))
  BY <1>3, <1>8
<1> DEFINE l == LastChange(p)
<1>10. l \in C /\ Is(l)
  BY <1>9
<1> HIDE DEF l
<1>11. ASSUME NEW k \in C, k > l, k <= l + c + 1
       PROVE  FALSE
  <2>1. k \in Nat /\ l \in Nat /\ p \in Nat /\ p <= l
    BY <1>2, <1>10 DEF C
  <2>2. ASSUME NEW m \in p .. k
        PROVE  \E q \in C : p <= q /\ q <= m /\ m - q <= c
    <3>1. CASE m <= l
      <4>1. m \in p .. l
        BY <2>1, <3>1
      <4> QED
        BY <1>10, <4>1
    <3>2. CASE m = k
      BY <1>1, <2>1, <1>11, <3>2
    <3>3. CASE l < m /\ m < k
      BY <1>1, <1>10, <1>11, <2>1, <3>3
    <3> QED
      BY <2>1, <3>1, <3>2, <3>3
  <2>3. near(k)
    BY <2>2
  <2> QED
    BY <1>10, <1>11, <2>3
<1>12. l \in Nat /\ \A k \in C : k \in Nat
  BY <1>2, <1>10
<1> QED
  BY <1>1, <1>10, <1>11, <1>12 DEF C, c, l

\* How many old and new lines there are before a place never falls, and the
\* difference is how many there are between two places.
LEMMA BeforeGrows ==
  ASSUME NEW s \in Seq(Pairs), NEW a \in 0 .. Len(s), NEW b \in a .. Len(s)
  PROVE  /\ OldBefore(s, a) \in Nat /\ OldBefore(s, b) - OldBefore(s, a) \in Nat
         /\ NewBefore(s, a) \in Nat /\ NewBefore(s, b) - NewBefore(s, a) \in Nat
<1>1. /\ a \in Nat /\ b \in Nat /\ a <= b /\ a \in 0 .. Len(s) /\ b \in 0 .. Len(s)
      /\ Positions(Olds(s)) /\ Positions(News(s))
  BY BeforeIsUpto
<1>2. /\ Upto(Olds(s), a) \in Nat /\ Upto(Olds(s), b) \in Nat
      /\ Upto(News(s), a) \in Nat /\ Upto(News(s), b) \in Nat
  BY <1>1, UptoIsCount
<1>3. /\ Upto(Olds(s), a) <= Upto(Olds(s), b)
      /\ Upto(News(s), a) <= Upto(News(s), b)
  BY <1>1, UptoGrows
<1>4. /\ OldBefore(s, a) = Upto(Olds(s), a) /\ OldBefore(s, b) = Upto(Olds(s), b)
      /\ NewBefore(s, a) = Upto(News(s), a) /\ NewBefore(s, b) = Upto(News(s), b)
  BY <1>1, BeforeIsUpto
<1> QED
  BY <1>2, <1>3, <1>4

\* The hunk that a change starts is cut as it should be and holds the change;
\* the next change is further away than the context.
LEMMA HunkIsCut ==
  ASSUME DiffTypeOK, NEW p \in Changes(pairs),
         \A k \in Changes(pairs) : k < p => k < p - Context
  PROVE  /\ Cut(Hunk(p), pairs, Context) /\ Inside(p, Hunk(p))
         /\ \A k \in Changes(pairs) :
              k > Hunk(p).end => k > Hunk(p).end + Context
         /\ Hunk(p).first >= p - Context
<1> DEFINE c == Context
           l == LastChange(p)
           N == Len(pairs)
           first == IF p - c < 1 THEN 1 ELSE p - c
           end == IF l + c > N THEN N ELSE l + c
           h == Hunk(p)
           C == Changes(pairs)
<1>1. c \in Nat
  BY ContextType
<1>2. pairs \in Seq(Pairs) /\ N \in Nat /\ C \in SUBSET (1 .. N)
  BY DEF DiffTypeOK, Changes
<1>3. l \in C /\ l >= p /\ \A k \in C : k > l => k > l + 2 * c + 1
  BY LastChangeFound
<1>4. h.first = first /\ h.end = end
  BY DEF Hunk
<1>5. /\ h.oldCount = OldBefore(pairs, end) - OldBefore(pairs, first - 1)
      /\ h.oldStart = RangeStart(OldBefore(pairs, first - 1), h.oldCount)
      /\ h.newCount = NewBefore(pairs, end) - NewBefore(pairs, first - 1)
      /\ h.newStart = RangeStart(NewBefore(pairs, first - 1), h.newCount)
      /\ h = [first |-> h.first, end |-> h.end,
              oldStart |-> h.oldStart, oldCount |-> h.oldCount,
              newStart |-> h.newStart, newCount |-> h.newCount]
  BY DEF Hunk
<1> HIDE DEF c, l, h, N, C
<1>6. p \in 1 .. N /\ l \in 1 .. N /\ p <= l /\ \A k \in C : k \in 1 .. N
  BY <1>2, <1>3 DEF C
<1>7. /\ first \in 1 .. p /\ end \in l .. N /\ first \in Nat /\ end \in Nat
      /\ first >= p - c
      /\ first > 1 => first = p - c
      /\ end < N => end = l + c
      /\ end <= l + c
  BY <1>1, <1>2, <1>6
<1> HIDE DEF first, end
<1>8. Headed(h, pairs)
  BY <1>4, <1>5 DEF Headed
<1>9. h \in HunkHeader
  <2>1. first - 1 \in 0 .. N /\ end \in (first - 1) .. N
    BY <1>2, <1>6, <1>7
  <2>2. OldBefore(pairs, first - 1) \in Nat /\ NewBefore(pairs, first - 1) \in Nat
        /\ h.oldCount \in Nat /\ h.newCount \in Nat
    BY <1>2, <1>5, <2>1, BeforeGrows DEF N
  <2>3. h.oldStart \in Nat /\ h.newStart \in Nat
    BY <1>5, <2>2 DEF RangeStart
  <2>4. h.first \in Nat /\ h.end \in Nat
    BY <1>4, <1>7
  <2> QED
    BY <1>5, <2>2, <2>3, <2>4 DEF HunkHeader
<1>10. Padded(h, pairs, c)
  <2>1. 1 <= first /\ first <= end /\ end <= N
    BY <1>2, <1>6, <1>7
  <2>2. ASSUME first > 1, NEW k \in C, first <= k, k < first + c
        PROVE  FALSE
    <3>1. k < p /\ k >= p - c
      BY <1>1, <1>6, <1>7, <2>2
    <3>2. k < p => k < p - c
      BY DEF c, C
    <3> QED
      BY <1>1, <1>6, <3>1, <3>2
  <2>3. ASSUME end < N, NEW k \in C, end - c < k, k <= end + c
        PROVE  FALSE
    <3>1. k > l /\ k <= l + 2 * c
      BY <1>1, <1>6, <1>7, <2>3
    <3> QED
      BY <1>1, <1>3, <1>6, <3>1
  <2> QED
    BY <1>4, <2>1, <2>2, <2>3 DEF Padded, N, C
<1>11. Inside(p, h)
  BY <1>4, <1>6, <1>7 DEF Inside
<1>12. ASSUME NEW k \in C, k > end
       PROVE  k > end + c
  <2>1. k > l
    BY <1>6, <1>7, <1>12
  <2>2. k > l + 2 * c + 1
    BY <1>3, <2>1
  <2> QED
    BY <1>1, <1>6, <1>7, <2>2
<1> QED
  BY <1>4, <1>7, <1>8, <1>9, <1>10, <1>11, <1>12 DEF Cut, c, h, C

-----------------------------------------------------------------------------
(***************************************************************************)
(* Every action keeps the invariant.                                       *)
(***************************************************************************)
\* Nothing has been used at the start.
LEMMA DiffInvStarts ==
  DiffInit => DiffInv
<1> SUFFICES ASSUME DiffInit
             PROVE  DiffInv
  OBVIOUS
<1>1. DiffTypeOK
  BY DEF DiffInit, DiffTypeOK
<1>2. Olds(<< >>) = {} /\ News(<< >>) = {}
  BY DEF Olds, News
<1>3. Upto({}, 0) = 0
  BY UptoZero DEF Positions
<1>4. SpellsLeft(<< >>, 0) /\ SpellsRight(<< >>, 0) /\ SameText(<< >>)
  BY <1>2, <1>3, SMTT(60) DEF SpellsLeft, SpellsRight, SameText
<1>5. Len(left) \in Nat /\ Len(right) \in Nat
  BY <1>1 DEF DiffTypeOK
<1> QED
  BY <1>1, <1>4, <1>5
     DEF DiffInit, DiffInv, Spelling, WalkEnds, WholeSpelled, HunksPlaced, Aligning

\* A step of the alignment keeps it: pairs and places after it spell out what
\* they should, and at its end both sides.
LEMMA AlignmentKeeps ==
  ASSUME DiffInv, UNCHANGED <<inputs, hunks>>, Aligning,
         phase' \in {"aligning", "aligned"},
         i' \in Nat, j' \in Nat, i' <= Len(left), j' <= Len(right),
         pairs' \in Seq(Pairs), SameText(pairs'),
         SpellsLeft(pairs', i'), SpellsRight(pairs', j'),
         phase' = "aligned" => i' = Len(left) /\ j' = Len(right)
  PROVE  DiffInv'
<1>1. /\ left' = left /\ right' = right /\ selected' = selected
      /\ context' = context /\ hunks' = hunks /\ hunks = << >>
  BY DEF inputs, DiffInv, Spelling
<1>2. DiffTypeOK'
  BY <1>1 DEF DiffInv, DiffTypeOK
<1>3. Spelling'
  BY <1>1 DEF Spelling, SpellsLeft, SpellsRight
<1>4. WalkEnds'
  BY <1>1 DEF WalkEnds
<1>5. Aligning'
  BY DEF Aligning
<1>6. WholeSpelled' /\ HunksPlaced' /\ SameText(pairs)'
  BY <1>5 DEF WholeSpelled, HunksPlaced
<1> QED
  BY <1>2, <1>3, <1>4, <1>6 DEF DiffInv

\* A left line in the place of a right one.
LEMMA ReplaceKeeps ==
  DiffInv /\ Replace => DiffInv'
<1> SUFFICES ASSUME DiffInv, Replace
             PROVE  DiffInv'
  OBVIOUS
<1>1. /\ Aligning /\ DiffTypeOK /\ SameText(pairs) /\ i <= Len(left) /\ j <= Len(right)
      /\ SpellsLeft(pairs, i) /\ SpellsRight(pairs, j)
      /\ i = 0 /\ j = 0 /\ pairs = << >>
  BY DEF Replace, Aligning, DiffInv, Spelling, WalkEnds
<1>2. Deletes(0) \in Seq(Pairs)
  <2>1. Len(left) \in Nat /\ \A k \in 1 .. Len(left) : left[0 + k] \in Lines
    BY <1>1 DEF DiffTypeOK
  <2>2. \A k \in 1 .. Len(left) : Delete(left[0 + k]) \in Pairs
    BY <2>1, PairTypes
  <2>3. Len(left) - 0 = Len(left)
    BY <2>1
  <2> QED
    BY <2>1, <2>2, <2>3 DEF Deletes
<1>3. << >> \o Deletes(0) = Deletes(0)
  BY <1>2
<1>4. pairs' = pairs \o Deletes(i) \o Inserts(j)
  BY <1>1, <1>3 DEF Replace
<1>5. /\ pairs' \in Seq(Pairs) /\ SameText(pairs')
      /\ SpellsLeft(pairs', Len(left)) /\ SpellsRight(pairs', Len(right))
  BY <1>1, <1>4, BothRests
<1>6. Len(left) \in Nat /\ Len(right) \in Nat
  BY <1>1 DEF DiffTypeOK
<1> QED
  BY <1>1, <1>5, <1>6, AlignmentKeeps DEF Replace

\* One side is used up, and what is left of the other is taken.
LEMMA TakeRestKeeps ==
  DiffInv /\ TakeRest => DiffInv'
<1> SUFFICES ASSUME DiffInv, TakeRest
             PROVE  DiffInv'
  OBVIOUS
<1>1. /\ Aligning /\ DiffTypeOK /\ SameText(pairs) /\ i <= Len(left) /\ j <= Len(right)
      /\ SpellsLeft(pairs, i) /\ SpellsRight(pairs, j)
  BY DEF TakeRest, Aligning, DiffInv, Spelling
<1>2. /\ pairs' \in Seq(Pairs) /\ SameText(pairs')
      /\ SpellsLeft(pairs', Len(left)) /\ SpellsRight(pairs', Len(right))
  BY <1>1, BothRests DEF TakeRest
<1>3. Len(left) \in Nat /\ Len(right) \in Nat
  BY <1>1 DEF DiffTypeOK
<1> QED
  BY <1>1, <1>2, <1>3, AlignmentKeeps DEF TakeRest

\* Starting the walk, and each of its three steps.
LEMMA WalkKeeps ==
  DiffInv /\ (StartWalk \/ TakeEqual \/ TakeDelete \/ TakeInsert) => DiffInv'
<1> SUFFICES ASSUME DiffInv, StartWalk \/ TakeEqual \/ TakeDelete \/ TakeInsert
             PROVE  DiffInv'
  OBVIOUS
<1>1. /\ Aligning /\ DiffTypeOK /\ SameText(pairs) /\ i <= Len(left) /\ j <= Len(right)
      /\ SpellsLeft(pairs, i) /\ SpellsRight(pairs, j)
  BY DEF StartWalk, TakeEqual, TakeDelete, TakeInsert, Walking, Aligning, DiffInv, Spelling
<1>2. /\ i \in Nat /\ j \in Nat /\ pairs \in Seq(Pairs)
      /\ Len(left) \in Nat /\ Len(right) \in Nat
  BY <1>1 DEF DiffTypeOK
<1>3. UNCHANGED <<inputs, hunks>>
  BY DEF StartWalk, TakeEqual, TakeDelete, TakeInsert
<1>4. CASE StartWalk
  <2>1. i' = i /\ j' = j /\ pairs' = pairs /\ phase' = "aligning"
    BY <1>4 DEF StartWalk
  <2> QED
    BY <1>1, <1>2, <1>3, <2>1, AlignmentKeeps
<1>5. CASE TakeEqual
  <2>1. /\ i < Len(left) /\ j < Len(right) /\ left[i + 1] = right[j + 1]
        /\ pairs' = Append(pairs, Equal(left[i + 1])) /\ i' = i + 1 /\ j' = j + 1
        /\ phase' = "aligning"
    BY <1>5 DEF TakeEqual, Walking
  <2>2. /\ pairs' \in Seq(Pairs) /\ SameText(pairs')
        /\ SpellsLeft(pairs', i') /\ SpellsRight(pairs', j')
    BY <1>1, <2>1, NextPair
  <2>3. i' \in Nat /\ j' \in Nat /\ i' <= Len(left) /\ j' <= Len(right)
    BY <1>2, <2>1
  <2> QED
    BY <1>1, <1>3, <2>1, <2>2, <2>3, AlignmentKeeps
<1>6. CASE TakeDelete
  <2>1. /\ i < Len(left) /\ j < Len(right)
        /\ pairs' = Append(pairs, Delete(left[i + 1])) /\ i' = i + 1 /\ j' = j
        /\ phase' = "aligning"
    BY <1>6 DEF TakeDelete, Walking
  <2>2. /\ pairs' \in Seq(Pairs) /\ SameText(pairs')
        /\ SpellsLeft(pairs', i') /\ SpellsRight(pairs', j')
    BY <1>1, <2>1, NextPair
  <2>3. i' \in Nat /\ j' \in Nat /\ i' <= Len(left) /\ j' <= Len(right)
    BY <1>2, <2>1
  <2> QED
    BY <1>1, <1>3, <2>1, <2>2, <2>3, AlignmentKeeps
<1>7. CASE TakeInsert
  <2>1. /\ i < Len(left) /\ j < Len(right)
        /\ pairs' = Append(pairs, Insert(right[j + 1])) /\ i' = i /\ j' = j + 1
        /\ phase' = "aligning"
    BY <1>7 DEF TakeInsert, Walking
  <2>2. /\ pairs' \in Seq(Pairs) /\ SameText(pairs')
        /\ SpellsLeft(pairs', i') /\ SpellsRight(pairs', j')
    BY <1>1, <2>1, NextPair
  <2>3. i' \in Nat /\ j' \in Nat /\ i' <= Len(left) /\ j' <= Len(right)
    BY <1>2, <2>1
  <2> QED
    BY <1>1, <1>3, <2>1, <2>2, <2>3, AlignmentKeeps
<1> QED
  BY <1>4, <1>5, <1>6, <1>7

\* The filter leaves a part of the alignment.
LEMMA FilterKeeps ==
  DiffInv /\ Filter => DiffInv'
<1> SUFFICES ASSUME DiffInv, Filter
             PROVE  DiffInv'
  OBVIOUS
<1> DEFINE t == FilterAlignment
<1>1. /\ DiffTypeOK /\ SameText(pairs) /\ i = Len(left) /\ j = Len(right)
      /\ SpellsLeft(pairs, i) /\ SpellsRight(pairs, j) /\ hunks = << >>
  BY DEF Filter, DiffInv, Spelling, WalkEnds, Aligning
<1>2. /\ t \in Seq(Pairs) /\ SameText(t)
      /\ selected = Lines => t = pairs
  BY <1>1, FilterKeepsPairs
<1>3. /\ pairs' = t /\ i' = 0 /\ j' = 0 /\ hunks' = << >>
      /\ left' = left /\ right' = right /\ selected' = selected /\ context' = context
      /\ phase' = IF Changes(t) = {} THEN "done" ELSE "hunks"
  BY <1>1 DEF Filter, inputs
<1> HIDE DEF t
<1>4. ~Aligning' /\ phase' \in {"hunks", "done"} /\ (phase' = "done" => Changes(t) = {})
  BY <1>3 DEF Aligning
<1>5. DiffTypeOK'
  BY <1>1, <1>2, <1>3, <1>4 DEF DiffTypeOK
<1>6. WholeSpelled'
  BY <1>1, <1>2, <1>3 DEF WholeSpelled, SpellsLeft, SpellsRight
<1>7. HunksPlaced'
  <2>1. Len(t) \in Nat /\ \A k \in Changes(t) : k \in Nat /\ k >= 1
    BY <1>2 DEF Changes
  <2> QED
    BY <1>3, <1>4, <2>1 DEF HunksPlaced
<1>8. Spelling' /\ WalkEnds' /\ SameText(pairs)'
  BY <1>2, <1>3, <1>4 DEF Spelling, WalkEnds
<1> QED
  BY <1>5, <1>6, <1>7, <1>8 DEF DiffInv

\* A step of the loop over the alignment keeps everything but the hunks.
LEMMA HunksKeep ==
  ASSUME DiffInv, UNCHANGED <<inputs, pairs, j>>, phase = "hunks",
         phase' \in {"hunks", "done"}, i' \in Nat, HunksPlaced'
  PROVE  DiffInv'
<1>1. /\ left' = left /\ right' = right /\ selected' = selected
      /\ context' = context /\ pairs' = pairs /\ j' = j
  BY DEF inputs
<1>2. ~Aligning /\ ~Aligning'
  BY DEF Aligning
<1>3. DiffTypeOK'
  BY <1>1 DEF DiffInv, DiffTypeOK
<1>4. WholeSpelled'
  BY <1>1, <1>2 DEF DiffInv, WholeSpelled, SpellsLeft, SpellsRight
<1>5. Spelling' /\ WalkEnds' /\ SameText(pairs)'
  BY <1>1, <1>2 DEF DiffInv, Spelling, WalkEnds
<1> QED
  BY <1>3, <1>4, <1>5 DEF DiffInv

\* Hunks begin and end at places.
LEMMA HeaderTypes ==
  ASSUME NEW s \in Seq(HunkHeader)
  PROVE  /\ Len(s) \in Nat /\ DOMAIN s = 1 .. Len(s)
         /\ \A h \in DOMAIN s : s[h].first \in Nat /\ s[h].end \in Nat
<1>1. \A h \in DOMAIN s : s[h] \in HunkHeader
  OBVIOUS
<1>2. \A x \in HunkHeader : x.first \in Nat /\ x.end \in Nat
  BY DEF HunkHeader
<1>3. Len(s) \in Nat /\ DOMAIN s = 1 .. Len(s)
  OBVIOUS
<1> QED
  BY <1>1, <1>2, <1>3

\* A line that is in no hunk.
LEMMA SkipEqualKeeps ==
  DiffInv /\ SkipEqual => DiffInv'
<1> SUFFICES ASSUME DiffInv, SkipEqual
             PROVE  DiffInv'
  OBVIOUS
<1>1. /\ phase = "hunks" /\ phase' = "hunks" /\ i < Len(pairs) /\ i' = i + 1
      /\ pairs[i + 1].kind = "equal" /\ pairs' = pairs /\ hunks' = hunks
      /\ context' = context /\ UNCHANGED <<inputs, pairs, j>>
  BY DEF SkipEqual, inputs
<1>2. /\ pairs \in Seq(Pairs) /\ i \in Nat /\ Len(pairs) \in Nat
      /\ \A k \in Changes(pairs) : k \in Nat /\ k # i + 1
  BY <1>1 DEF DiffInv, DiffTypeOK, Changes
<1>3. ~Aligning /\ HunksPlaced /\ Context' = Context
  BY <1>1 DEF Aligning, DiffInv, Context
<1>4. /\ hunks \in Seq(HunkHeader)
      /\ \A h \in DOMAIN hunks : hunks[h].end \in Nat
  BY <1>3, HeaderTypes DEF HunksPlaced
<1>5. \A h \in DOMAIN hunks : Cut(hunks[h], pairs, Context) /\ hunks[h].end <= i'
  BY <1>1, <1>2, <1>3, <1>4 DEF HunksPlaced
<1>6. \A k \in Changes(pairs) :
        k <= i' => \E h \in DOMAIN hunks : Inside(k, hunks[h])
  <2>1. \A k \in Changes(pairs) : k <= i + 1 => k <= i
    BY <1>2
  <2> QED
    BY <1>1, <1>3, <2>1 DEF HunksPlaced
<1>7. i' \in Nat /\ i' <= Len(pairs)
  BY <1>1, <1>2
<1>8. HunksPlaced'
  BY <1>1, <1>3, <1>4, <1>5, <1>6, <1>7 DEF HunksPlaced
<1> QED
  BY <1>1, <1>7, <1>8, HunksKeep

\* Every change has its hunk.
LEMMA FinishKeeps ==
  DiffInv /\ Finish => DiffInv'
<1> SUFFICES ASSUME DiffInv, Finish
             PROVE  DiffInv'
  OBVIOUS
<1>1. /\ phase = "hunks" /\ phase' = "done" /\ i = Len(pairs) /\ i' = i
      /\ pairs' = pairs /\ hunks' = hunks
      /\ context' = context /\ UNCHANGED <<inputs, pairs, j>>
  BY DEF Finish, inputs
<1>2. i \in Nat /\ \A k \in Changes(pairs) : k <= i
  BY <1>1 DEF DiffInv, DiffTypeOK, Changes
<1>3. ~Aligning /\ HunksPlaced /\ Context' = Context
  BY <1>1 DEF Aligning, DiffInv, Context
<1>4. HunksPlaced'
  BY <1>1, <1>2, <1>3 DEF HunksPlaced
<1> QED
  BY <1>1, <1>2, <1>4, HunksKeep

\* The next change starts a hunk behind all others.
LEMMA AddHunkKeeps ==
  DiffInv /\ AddHunk => DiffInv'
<1> SUFFICES ASSUME DiffInv, AddHunk
             PROVE  DiffInv'
  OBVIOUS
<1> DEFINE p == i + 1
           new == Hunk(p)
           C == Changes(pairs)
           N == Len(pairs)
           L == Len(hunks)
<1>1. /\ phase = "hunks" /\ phase' = "hunks" /\ i < N /\ i' = new.end
      /\ pairs[p].kind # "equal" /\ pairs' = pairs /\ hunks' = Append(hunks, new)
      /\ context' = context /\ UNCHANGED <<inputs, pairs, j>>
  BY DEF AddHunk, inputs
<1>2. /\ DiffTypeOK /\ pairs \in Seq(Pairs) /\ i \in Nat /\ N \in Nat
      /\ p \in C /\ p \in Nat /\ \A k \in C : k \in Nat
  BY <1>1 DEF DiffInv, DiffTypeOK, Changes
<1>3. ~Aligning /\ HunksPlaced /\ Context' = Context
  BY <1>1 DEF Aligning, DiffInv, Context
<1>4. /\ hunks \in Seq(HunkHeader) /\ L \in Nat /\ DOMAIN hunks = 1 .. L
      /\ \A h \in 1 .. L : hunks[h].end \in Nat /\ hunks[h].first \in Nat
  BY <1>3, HeaderTypes DEF HunksPlaced
<1>5. Context \in Nat
  BY <1>2, ContextType
<1>6. \A h \in 1 .. L : Cut(hunks[h], pairs, Context) /\ hunks[h].end <= i
  BY <1>3, <1>4 DEF HunksPlaced
<1>7. \A k \in C : k <= i => \E h \in 1 .. L : Inside(k, hunks[h])
  BY <1>3, <1>4 DEF HunksPlaced
<1> HIDE DEF new, C, N, L
\* The context before the change touches no hunk so far.
<1>8. ASSUME NEW h \in 1 .. L
      PROVE  hunks[h].end < p - Context
  <2>1. /\ hunks[h].end \in Nat /\ hunks[h].end <= i /\ hunks[h].end < N
        /\ Padded(hunks[h], pairs, Context)
    BY <1>1, <1>2, <1>4, <1>6 DEF Cut
  <2>2. ~(hunks[h].end - Context < p /\ p <= hunks[h].end + Context)
    BY <1>2, <2>1 DEF Padded, C, N
  <2>3. hunks[h].end - Context < p
    BY <1>2, <1>5, <2>1
  <2> QED
    BY <1>2, <1>5, <2>1, <2>2, <2>3
<1>9. ASSUME NEW k \in C, k < p
      PROVE  k < p - Context
  <2>1. PICK h \in 1 .. L : Inside(k, hunks[h])
    BY <1>2, <1>7, <1>9
  <2>2. k <= hunks[h].end /\ hunks[h].end < p - Context /\ hunks[h].end \in Nat
    BY <1>4, <1>8, <2>1 DEF Inside
  <2> QED
    BY <1>2, <1>5, <2>2
<1>10. /\ Cut(new, pairs, Context) /\ Inside(p, new)
       /\ new.first >= p - Context
  BY <1>2, <1>9, HunkIsCut DEF C, new
<1>11. /\ new \in HunkHeader /\ new.first \in Nat /\ new.end \in Nat /\ new.end <= N
       /\ new.first <= p /\ p <= new.end
  BY <1>10 DEF Cut, HunkHeader, Padded, Inside, N
<1>12. \A h \in 1 .. L : hunks[h].end < new.first
  <2> TAKE h \in 1 .. L
  <2>1. hunks[h].end < p - Context /\ hunks[h].end \in Nat
    BY <1>4, <1>8
  <2> QED
    BY <1>2, <1>5, <1>10, <1>11, <2>1
<1>13. /\ hunks' \in Seq(HunkHeader) /\ DOMAIN hunks' = 1 .. L + 1
       /\ hunks'[L + 1] = new /\ \A h \in 1 .. L : hunks'[h] = hunks[h]
  BY <1>1, <1>4, <1>11 DEF L
<1>14. i' \in Nat /\ i' <= N /\ i <= i' /\ i' = new.end
  BY <1>1, <1>2, <1>11
<1>15. ASSUME NEW h \in 1 .. L + 1
       PROVE  Cut(hunks'[h], pairs, Context) /\ hunks'[h].end <= i'
  <2>1. CASE h = L + 1
    BY <1>10, <1>13, <1>14, <2>1
  <2>2. CASE h \in 1 .. L
    <3>1. /\ Cut(hunks[h], pairs, Context) /\ hunks[h].end <= i
          /\ hunks[h].end \in Nat /\ hunks'[h] = hunks[h]
      BY <1>4, <1>6, <1>13, <2>2
    <3> QED
      BY <1>2, <1>14, <3>1
  <2> QED
    BY <1>4, <2>1, <2>2
<1>16. ASSUME NEW g \in 1 .. L + 1, NEW h \in 1 .. L + 1, g < h
       PROVE  hunks'[g].end < hunks'[h].first
  <2>1. g \in 1 .. L
    BY <1>4, <1>16
  <2>2. CASE h = L + 1
    BY <1>12, <1>13, <2>1, <2>2
  <2>3. CASE h \in 1 .. L
    BY <1>3, <1>4, <1>13, <1>16, <2>1, <2>3 DEF HunksPlaced
  <2> QED
    BY <1>4, <2>2, <2>3
<1>17. ASSUME NEW k \in C, k <= i'
       PROVE  \E h \in 1 .. L + 1 : Inside(k, hunks'[h])
  <2>1. CASE k <= i
    <3>1. PICK h \in 1 .. L : Inside(k, hunks[h])
      BY <1>7, <2>1
    <3>2. h \in 1 .. L + 1 /\ Inside(k, hunks'[h])
      BY <1>4, <1>13, <3>1
    <3> QED
      BY <3>2
  <2>2. CASE k > i
    <3>1. new.first <= k /\ k <= new.end
      BY <1>2, <1>11, <1>14, <1>17, <2>2
    <3>2. Inside(k, hunks'[L + 1]) /\ L + 1 \in 1 .. L + 1
      BY <1>4, <1>13, <3>1 DEF Inside
    <3> QED
      BY <3>2
  <2> QED
    BY <1>2, <2>1, <2>2
<1>18. HunksPlaced'
  BY <1>1, <1>3, <1>13, <1>14, <1>15, <1>16, <1>17 DEF HunksPlaced, C, N
<1> QED
  BY <1>1, <1>14, <1>18, HunksKeep

\* So the invariant holds in every state.
LEMMA DiffInvariant ==
  DiffSpec => []DiffInv
<1>1. DiffInit => DiffInv
  BY DiffInvStarts
<1>2. DiffInv /\ [DiffNext]_diffVars => DiffInv'
  <2> SUFFICES ASSUME DiffInv, [DiffNext]_diffVars
               PROVE  DiffInv'
    OBVIOUS
  <2>1. CASE Replace
    BY <2>1, ReplaceKeeps
  <2>2. CASE StartWalk \/ TakeEqual \/ TakeDelete \/ TakeInsert
    BY <2>2, WalkKeeps
  <2>3. CASE TakeRest
    BY <2>3, TakeRestKeeps
  <2>4. CASE Filter
    BY <2>4, FilterKeeps
  <2>5. CASE SkipEqual
    BY <2>5, SkipEqualKeeps
  <2>6. CASE AddHunk
    BY <2>6, AddHunkKeeps
  <2>7. CASE Finish
    BY <2>7, FinishKeeps
  <2>8. CASE UNCHANGED diffVars
    <3>1. /\ left' = left /\ right' = right /\ selected' = selected
          /\ context' = context /\ phase' = phase /\ i' = i /\ j' = j
          /\ pairs' = pairs /\ hunks' = hunks
      BY <2>8 DEF diffVars
    <3>2. DiffTypeOK' /\ SameText(pairs)' /\ WalkEnds'
      BY <3>1 DEF DiffInv, DiffTypeOK, WalkEnds
    <3>3. (Aligning <=> Aligning') /\ Context' = Context
      BY <3>1 DEF Aligning, Context
    <3>4. Spelling' /\ WholeSpelled'
      BY <3>1, <3>3 DEF DiffInv, Spelling, WholeSpelled, SpellsLeft, SpellsRight
    <3>5. HunksPlaced'
      BY <3>1, <3>3 DEF DiffInv, HunksPlaced
    <3> QED
      BY <3>2, <3>4, <3>5 DEF DiffInv
  <2> QED
    BY <2>1, <2>2, <2>3, <2>4, <2>5, <2>6, <2>7, <2>8
       DEF DiffNext, Align, BuildHunks
<1> QED
  BY <1>1, <1>2, PTL DEF DiffSpec

-----------------------------------------------------------------------------
(***************************************************************************)
(* The alignment.                                                          *)
(***************************************************************************)
\* alignLines, linediff.go 99-149: for every two values and every limit of the
\* table, the alignment spells both values out as far as the walk has come.
THEOREM AlignmentIsCorrect ==
  DiffSpec => []AlignmentCorrect
<1>1. DiffInv => AlignmentCorrect
  <2> SUFFICES ASSUME DiffInv
               PROVE  SidesReproduced
    BY DEF AlignmentCorrect, DiffInv
  <2> SUFFICES ASSUME Aligning
               PROVE  /\ OldBefore(pairs, Len(pairs)) = i
                      /\ NewBefore(pairs, Len(pairs)) = j
                      /\ \A k \in DOMAIN pairs :
                           /\ pairs[k].kind # "insert" =>
                                pairs[k].left = left[OldBefore(pairs, k)]
                           /\ pairs[k].kind # "delete" =>
                                pairs[k].right = right[NewBefore(pairs, k)]
    BY DEF SidesReproduced, Aligning
  <2>1. /\ pairs \in Seq(Pairs) /\ SpellsLeft(pairs, i) /\ SpellsRight(pairs, j)
        /\ Len(pairs) \in 0 .. Len(pairs) /\ DOMAIN pairs \subseteq 0 .. Len(pairs)
    BY DEF DiffInv, DiffTypeOK, Spelling
  <2>2. \A k \in 0 .. Len(pairs) : /\ OldBefore(pairs, k) = Upto(Olds(pairs), k)
                                   /\ NewBefore(pairs, k) = Upto(News(pairs), k)
    BY <2>1, BeforeIsUpto
  <2>3. ASSUME NEW k \in DOMAIN pairs
        PROVE  /\ pairs[k].kind # "insert" =>
                    pairs[k].left = left[OldBefore(pairs, k)]
               /\ pairs[k].kind # "delete" =>
                    pairs[k].right = right[NewBefore(pairs, k)]
    <3>1. /\ OldBefore(pairs, k) = Upto(Olds(pairs), k)
          /\ NewBefore(pairs, k) = Upto(News(pairs), k)
      BY <2>1, <2>2
    <3> QED
      BY <2>1, <3>1 DEF SpellsLeft, SpellsRight, Olds, News
  <2> QED
    BY <2>1, <2>2, <2>3 DEF SpellsLeft, SpellsRight
<1> QED
  BY <1>1, DiffInvariant, PTL

-----------------------------------------------------------------------------
(***************************************************************************)
(* The patch.                                                              *)
(***************************************************************************)
\* The hunks hold every change once, with its context.
LEMMA ChangesCovered ==
  DiffInv => HunksCoverChanges
<1> SUFFICES ASSUME DiffInv, phase = "done"
             PROVE  /\ \A k \in Changes(pairs) :
                         Cardinality({h \in DOMAIN hunks :
                                        k \in hunks[h].first .. hunks[h].end}) = 1
                    /\ \A h \in DOMAIN hunks : h > 1 => hunks[h - 1].end < hunks[h].first
                    /\ \A h \in DOMAIN hunks : \A c \in 1 .. Context :
                         /\ hunks[h].first > c =>
                              hunks[h].first + c - 1 \notin Changes(pairs)
                         /\ hunks[h].end + c <= Len(pairs) =>
                              hunks[h].end - c + 1 \notin Changes(pairs)
  BY DEF HunksCoverChanges
<1>1. /\ DiffTypeOK /\ HunksPlaced /\ ~Aligning
      /\ \A k \in Changes(pairs) : k \in Nat
      /\ Len(pairs) \in Nat
  BY DEF DiffInv, DiffTypeOK, Aligning, Changes
<1>2. /\ hunks \in Seq(HunkHeader) /\ Context \in Nat
      /\ Len(hunks) \in Nat /\ DOMAIN hunks = 1 .. Len(hunks)
      /\ \A h \in DOMAIN hunks : hunks[h].first \in Nat /\ hunks[h].end \in Nat
  BY <1>1, HeaderTypes, ContextType DEF HunksPlaced
<1>3. \A g, h \in DOMAIN hunks : g < h => hunks[g].end < hunks[h].first
  BY <1>1 DEF HunksPlaced
<1>4. \A h \in DOMAIN hunks : Padded(hunks[h], pairs, Context)
  BY <1>1 DEF HunksPlaced, Cut
<1>5. ASSUME NEW k \in Changes(pairs)
      PROVE  Cardinality({h \in DOMAIN hunks :
                            k \in hunks[h].first .. hunks[h].end}) = 1
  <2>1. PICK h \in DOMAIN hunks : Inside(k, hunks[h])
    BY <1>1 DEF HunksPlaced
  <2>2. \A g \in DOMAIN hunks : k \in hunks[g].first .. hunks[g].end <=> Inside(k, hunks[g])
    BY <1>1, <1>2 DEF Inside
  <2>3. ASSUME NEW g \in DOMAIN hunks, Inside(k, hunks[g])
        PROVE  g = h
    <3>1. ~(g < h) /\ ~(h < g)
      BY <1>1, <1>2, <1>3, <2>1, <2>3 DEF Inside
    <3> QED
      BY <1>2, <3>1
  <2>4. {g \in DOMAIN hunks : k \in hunks[g].first .. hunks[g].end} = {h}
    BY <2>1, <2>2, <2>3
  <2> QED
    BY <2>4, FS_Singleton
<1>6. ASSUME NEW h \in DOMAIN hunks, h > 1
      PROVE  hunks[h - 1].end < hunks[h].first
  <2>1. h - 1 \in DOMAIN hunks /\ h - 1 < h
    BY <1>2, <1>6
  <2> QED
    BY <1>3, <2>1
<1>7. ASSUME NEW h \in DOMAIN hunks, NEW c \in 1 .. Context
      PROVE  /\ hunks[h].first > c => hunks[h].first + c - 1 \notin Changes(pairs)
             /\ hunks[h].end + c <= Len(pairs) =>
                  hunks[h].end - c + 1 \notin Changes(pairs)
  <2>1. hunks[h].first \in Nat /\ hunks[h].end \in Nat
    BY <1>2
  <2>2. ASSUME hunks[h].first > c
        PROVE  hunks[h].first + c - 1 \notin Changes(pairs)
    <3>1. /\ hunks[h].first > 1 /\ hunks[h].first <= hunks[h].first + c - 1
          /\ hunks[h].first + c - 1 < hunks[h].first + Context
      BY <1>2, <2>1, <2>2
    <3> QED
      BY <1>4, <3>1 DEF Padded
  <2>3. ASSUME hunks[h].end + c <= Len(pairs)
        PROVE  hunks[h].end - c + 1 \notin Changes(pairs)
    <3>1. /\ hunks[h].end < Len(pairs) /\ hunks[h].end - Context < hunks[h].end - c + 1
          /\ hunks[h].end - c + 1 <= hunks[h].end + Context
      BY <1>1, <1>2, <2>1, <2>3
    <3> QED
      BY <1>4, <3>1 DEF Padded
  <2> QED
    BY <2>2, <2>3
<1> QED
  BY <1>5, <1>6, <1>7

\* The places and counts of old and new lines, for every two places a <= b of
\* an alignment that spells both values out.
LEMMA PlacesSpelled ==
  ASSUME DiffTypeOK, SpellsLeft(pairs, Len(left)), SpellsRight(pairs, Len(right)),
         NEW a \in 0 .. Len(pairs), NEW b \in a .. Len(pairs)
  PROVE  /\ OldBefore(pairs, a) \in Nat /\ NewBefore(pairs, a) \in Nat
         /\ OldBefore(pairs, b) \in OldBefore(pairs, a) .. Len(left)
         /\ NewBefore(pairs, b) \in NewBefore(pairs, a) .. Len(right)
         /\ Cardinality(OldIn(a + 1, b)) = OldBefore(pairs, b) - OldBefore(pairs, a)
         /\ Cardinality(NewIn(a + 1, b)) = NewBefore(pairs, b) - NewBefore(pairs, a)
<1> DEFINE N == Len(pairs)
           S == Olds(pairs)
           T == News(pairs)
<1>1. /\ pairs \in Seq(Pairs) /\ N \in Nat /\ DOMAIN pairs = 1 .. N
      /\ a \in Nat /\ b \in Nat /\ a <= b /\ b <= N
      /\ a \in 0 .. N /\ b \in 0 .. N /\ N \in b .. N
  BY DEF DiffTypeOK
<1>2. Positions(S) /\ Positions(T)
  BY <1>1, BeforeIsUpto
<1>3. \A k \in 0 .. N : OldBefore(pairs, k) = Upto(S, k) /\ NewBefore(pairs, k) = Upto(T, k)
  BY <1>1, BeforeIsUpto
<1>4. /\ OldIn(a + 1, b) = {m \in S : a < m /\ m <= b}
      /\ NewIn(a + 1, b) = {m \in T : a < m /\ m <= b}
  BY <1>1 DEF OldIn, NewIn, Olds, News
<1>5. Upto(S, N) = Len(left) /\ Upto(T, N) = Len(right)
  BY DEF SpellsLeft, SpellsRight
<1> HIDE DEF N, S, T
<1>6. /\ Upto(S, a) \in Nat /\ Upto(S, b) \in Nat /\ Upto(S, N) \in Nat
      /\ Upto(T, a) \in Nat /\ Upto(T, b) \in Nat /\ Upto(T, N) \in Nat
  BY <1>1, <1>2, UptoIsCount
<1>7. /\ Upto(S, a) <= Upto(S, b) /\ Upto(S, b) <= Upto(S, N)
      /\ Upto(T, a) <= Upto(T, b) /\ Upto(T, b) <= Upto(T, N)
  BY <1>1, <1>2, UptoGrows
<1>8. /\ Upto(S, b) = Upto(S, a) + Between(S, a, b) /\ Between(S, a, b) \in Nat
      /\ Upto(T, b) = Upto(T, a) + Between(T, a, b) /\ Between(T, a, b) \in Nat
  BY <1>1, <1>2, UptoSplit
<1>9. /\ Cardinality(OldIn(a + 1, b)) = Between(S, a, b)
      /\ Cardinality(NewIn(a + 1, b)) = Between(T, a, b)
  BY <1>4 DEF Between
<1>10. /\ OldBefore(pairs, a) = Upto(S, a) /\ OldBefore(pairs, b) = Upto(S, b)
       /\ NewBefore(pairs, a) = Upto(T, a) /\ NewBefore(pairs, b) = Upto(T, b)
  BY <1>1, <1>3
<1> QED
  BY <1>5, <1>6, <1>7, <1>8, <1>9, <1>10, SMTT(60)

\* Every old line of the alignment is the line of the left value at its count,
\* every new line the one of the right value.
LEMMA LinesSpelled ==
  ASSUME DiffTypeOK, SpellsLeft(pairs, Len(left)), SpellsRight(pairs, Len(right)),
         NEW m \in DOMAIN pairs
  PROVE  /\ m - 1 \in 0 .. Len(pairs) /\ m \in (m - 1) .. Len(pairs)
         /\ pairs[m].kind # "insert" =>
              /\ OldBefore(pairs, m) = OldBefore(pairs, m - 1) + 1
              /\ pairs[m].left = left[OldBefore(pairs, m)]
         /\ pairs[m].kind # "delete" =>
              /\ NewBefore(pairs, m) = NewBefore(pairs, m - 1) + 1
              /\ pairs[m].right = right[NewBefore(pairs, m)]
<1>1. /\ pairs \in Seq(Pairs) /\ Len(pairs) \in Nat /\ DOMAIN pairs = 1 .. Len(pairs)
      /\ m \in Nat /\ m \in 0 .. Len(pairs) /\ m - 1 \in 0 .. Len(pairs)
      /\ m \in (m - 1) .. Len(pairs)
  BY DEF DiffTypeOK
<1>2. Positions(Olds(pairs)) /\ Positions(News(pairs))
  BY <1>1, BeforeIsUpto
<1>3. /\ OldBefore(pairs, m) = Upto(Olds(pairs), m)
      /\ NewBefore(pairs, m) = Upto(News(pairs), m)
      /\ OldBefore(pairs, m - 1) = Upto(Olds(pairs), m - 1)
      /\ NewBefore(pairs, m - 1) = Upto(News(pairs), m - 1)
  BY <1>1, BeforeIsUpto
<1>4. ASSUME pairs[m].kind # "insert"
      PROVE  /\ OldBefore(pairs, m) = OldBefore(pairs, m - 1) + 1
             /\ pairs[m].left = left[OldBefore(pairs, m)]
  <2>1. m \in Olds(pairs)
    BY <1>4 DEF Olds
  <2> QED
    BY <1>2, <1>3, <2>1, UptoMember DEF SpellsLeft
<1>5. ASSUME pairs[m].kind # "delete"
      PROVE  /\ NewBefore(pairs, m) = NewBefore(pairs, m - 1) + 1
             /\ pairs[m].right = right[NewBefore(pairs, m)]
  <2>1. m \in News(pairs)
    BY <1>5 DEF News
  <2> QED
    BY <1>2, <1>3, <2>1, UptoMember DEF SpellsRight
<1> QED
  BY <1>1, <1>4, <1>5

\* A hunk of an alignment that spells both values out applies.
LEMMA CutHunkApplies ==
  ASSUME DiffTypeOK, SpellsLeft(pairs, Len(left)), SpellsRight(pairs, Len(right)),
         NEW h, NEW c, Cut(h, pairs, c)
  PROVE  HunkApplies(h)
<1> DEFINE a == h.first - 1
           b == h.end
           N == Len(pairs)
<1>1. /\ N \in Nat /\ DOMAIN pairs = 1 .. N
      /\ h.first \in Nat /\ h.end \in Nat /\ 1 <= h.first /\ h.first <= h.end /\ h.end <= N
  BY DEF DiffTypeOK, Cut, HunkHeader, Padded
<1>2. /\ a \in 0 .. N /\ b \in a .. N /\ a \in Nat /\ b \in Nat /\ a + 1 = h.first
      /\ \A m \in h.first .. h.end : m \in a .. N /\ m \in 1 .. N /\ m - 1 \in a .. N
  BY <1>1
<1>3. /\ h.oldCount = OldBefore(pairs, b) - OldBefore(pairs, a)
      /\ h.oldStart = RangeStart(OldBefore(pairs, a), h.oldCount)
      /\ h.newCount = NewBefore(pairs, b) - NewBefore(pairs, a)
      /\ h.newStart = RangeStart(NewBefore(pairs, a), h.newCount)
  BY DEF Cut, Headed
<1> HIDE DEF a, b, N
<1>4. /\ Cardinality(OldIn(h.first, h.end)) = h.oldCount
      /\ Cardinality(NewIn(h.first, h.end)) = h.newCount
      /\ OldBefore(pairs, a) \in Nat /\ NewBefore(pairs, a) \in Nat
  BY <1>2, <1>3, PlacesSpelled DEF N, b
<1>5. ASSUME NEW m \in OldIn(h.first, h.end)
      PROVE  LET line == h.oldStart + Cardinality(OldIn(h.first, m)) - 1
             IN  line \in DOMAIN left /\ pairs[m].left = left[line]
  <2>1. m \in h.first .. h.end /\ pairs[m].kind # "insert"
    BY DEF OldIn
  <2>2. /\ m \in a .. N /\ b \in m .. N /\ m \in 0 .. N /\ m \in DOMAIN pairs
        /\ m - 1 \in a .. N
    BY <1>1, <1>2, <2>1 DEF b
  <2>3. /\ OldBefore(pairs, m) \in Nat /\ OldBefore(pairs, m) <= Len(left)
        /\ OldBefore(pairs, m) <= OldBefore(pairs, b) /\ OldBefore(pairs, b) \in Nat
        /\ Cardinality(OldIn(h.first, m)) = OldBefore(pairs, m) - OldBefore(pairs, a)
    <3>1. /\ OldBefore(pairs, m) \in OldBefore(pairs, a) .. Len(left)
          /\ Cardinality(OldIn(a + 1, m)) = OldBefore(pairs, m) - OldBefore(pairs, a)
      BY <1>2, <2>2, PlacesSpelled DEF N
    <3>2. OldBefore(pairs, m) \in Nat /\ OldBefore(pairs, b) \in OldBefore(pairs, m) .. Len(left)
      BY <1>2, <2>2, PlacesSpelled DEF N
    <3> QED
      BY <1>2, <3>1, <3>2
  <2>4. /\ OldBefore(pairs, m) = OldBefore(pairs, m - 1) + 1
        /\ pairs[m].left = left[OldBefore(pairs, m)]
    BY <2>1, <2>2, LinesSpelled
  <2>5. OldBefore(pairs, m - 1) \in Nat /\ OldBefore(pairs, m - 1) >= OldBefore(pairs, a)
    BY <1>2, <1>4, <2>2, PlacesSpelled, SMTT(60) DEF N
  <2>6. h.oldStart = OldBefore(pairs, a) + 1
    BY <1>3, <1>4, <2>3, <2>4, <2>5 DEF RangeStart
  <2>7. h.oldStart + Cardinality(OldIn(h.first, m)) - 1 = OldBefore(pairs, m)
    BY <1>4, <2>3, <2>6
  <2>8. DOMAIN left = 1 .. Len(left)
    BY DEF DiffTypeOK
  <2>9. OldBefore(pairs, m) \in DOMAIN left
    BY <2>3, <2>4, <2>5, <2>8
  <2> QED
    BY <2>4, <2>7, <2>9
<1>6. ASSUME NEW m \in NewIn(h.first, h.end)
      PROVE  LET line == h.newStart + Cardinality(NewIn(h.first, m)) - 1
             IN  line \in DOMAIN right /\ pairs[m].right = right[line]
  <2>1. m \in h.first .. h.end /\ pairs[m].kind # "delete"
    BY DEF NewIn
  <2>2. /\ m \in a .. N /\ b \in m .. N /\ m \in 0 .. N /\ m \in DOMAIN pairs
        /\ m - 1 \in a .. N
    BY <1>1, <1>2, <2>1 DEF b
  <2>3. /\ NewBefore(pairs, m) \in Nat /\ NewBefore(pairs, m) <= Len(right)
        /\ NewBefore(pairs, m) <= NewBefore(pairs, b) /\ NewBefore(pairs, b) \in Nat
        /\ Cardinality(NewIn(h.first, m)) = NewBefore(pairs, m) - NewBefore(pairs, a)
    <3>1. /\ NewBefore(pairs, m) \in NewBefore(pairs, a) .. Len(right)
          /\ Cardinality(NewIn(a + 1, m)) = NewBefore(pairs, m) - NewBefore(pairs, a)
      BY <1>2, <2>2, PlacesSpelled DEF N
    <3>2. NewBefore(pairs, m) \in Nat /\ NewBefore(pairs, b) \in NewBefore(pairs, m) .. Len(right)
      BY <1>2, <2>2, PlacesSpelled DEF N
    <3> QED
      BY <1>2, <3>1, <3>2
  <2>4. /\ NewBefore(pairs, m) = NewBefore(pairs, m - 1) + 1
        /\ pairs[m].right = right[NewBefore(pairs, m)]
    BY <2>1, <2>2, LinesSpelled
  <2>5. NewBefore(pairs, m - 1) \in Nat /\ NewBefore(pairs, m - 1) >= NewBefore(pairs, a)
    BY <1>2, <1>4, <2>2, PlacesSpelled, SMTT(60) DEF N
  <2>6. h.newStart = NewBefore(pairs, a) + 1
    BY <1>3, <1>4, <2>3, <2>4, <2>5 DEF RangeStart
  <2>7. h.newStart + Cardinality(NewIn(h.first, m)) - 1 = NewBefore(pairs, m)
    BY <1>4, <2>3, <2>6
  <2>8. DOMAIN right = 1 .. Len(right)
    BY DEF DiffTypeOK
  <2>9. NewBefore(pairs, m) \in DOMAIN right
    BY <2>3, <2>4, <2>5, <2>8
  <2> QED
    BY <2>4, <2>7, <2>9
<1> QED
  BY <1>4, <1>5, <1>6 DEF HunkApplies

\* Between two places without a change the two values hold the same lines.
LEMMA UnchangedBetween ==
  ASSUME DiffTypeOK, SpellsLeft(pairs, Len(left)), SpellsRight(pairs, Len(right)),
         SameText(pairs), NEW a \in 0 .. Len(pairs), NEW b \in a .. Len(pairs),
         \A k \in Changes(pairs) : ~(a < k /\ k <= b)
  PROVE  SubSeq(left, OldBefore(pairs, a) + 1, OldBefore(pairs, b))
         = SubSeq(right, NewBefore(pairs, a) + 1, NewBefore(pairs, b))
<1> DEFINE N == Len(pairs)
           S == Olds(pairs)
           T == News(pairs)
           o == OldBefore(pairs, a)
           n == NewBefore(pairs, a)
           d == b - a
<1>1. /\ pairs \in Seq(Pairs) /\ N \in Nat /\ DOMAIN pairs = 1 .. N
      /\ a \in Nat /\ b \in Nat /\ a <= b /\ b <= N /\ d \in Nat
      /\ left \in Seq(Lines) /\ right \in Seq(Lines)
      /\ Len(left) \in Nat /\ Len(right) \in Nat
  BY DEF DiffTypeOK
<1>2. /\ o \in Nat /\ n \in Nat
      /\ OldBefore(pairs, b) \in o .. Len(left) /\ NewBefore(pairs, b) \in n .. Len(right)
  BY PlacesSpelled
<1>3. \A m \in a + 1 .. b : m \in DOMAIN pairs /\ pairs[m].kind = "equal"
  <2> TAKE m \in a + 1 .. b
  <2>1. m \in DOMAIN pairs /\ a < m /\ m <= b
    BY <1>1
  <2>2. m \notin Changes(pairs)
    BY <2>1
  <2> QED
    BY <2>1, <2>2 DEF Changes
<1>4. \A m \in a + 1 .. b : m \in S /\ m \in T
  BY <1>3 DEF Olds, News
<1>5. ASSUME NEW k \in a .. b
      PROVE  OldBefore(pairs, k) = o + (k - a) /\ NewBefore(pairs, k) = n + (k - a)
  <2>1. k \in Nat /\ a <= k /\ k \in 0 .. N /\ \A m \in a + 1 .. k : m \in S /\ m \in T
    BY <1>1, <1>4
  <2>2. Upto(S, k) = Upto(S, a) + (k - a) /\ Upto(T, k) = Upto(T, a) + (k - a)
    BY <1>1, <2>1, BeforeIsUpto, UptoAll
  <2> QED
    BY <1>1, <2>1, <2>2, BeforeIsUpto
<1> HIDE DEF N, S, T, o, n
<1>6. OldBefore(pairs, b) = o + d /\ NewBefore(pairs, b) = n + d
  BY <1>1, <1>5
<1>7. o + d <= Len(left) /\ n + d <= Len(right)
  BY <1>1, <1>2, <1>6
<1>8. ASSUME NEW e \in 1 .. d
      PROVE  left[o + e] = right[n + e]
  <2>1. a + e \in a .. b /\ a + e \in a + 1 .. b /\ (a + e) - a = e
    BY <1>1
  <2>2. OldBefore(pairs, a + e) = o + e /\ NewBefore(pairs, a + e) = n + e
    BY <1>5, <2>1
  <2>3. a + e \in DOMAIN pairs /\ pairs[a + e].kind = "equal"
    BY <1>3, <2>1
  <2>4. pairs[a + e].left = left[o + e] /\ pairs[a + e].right = right[n + e]
    BY <2>2, <2>3, LinesSpelled
  <2> QED
    BY <2>3, <2>4 DEF SameText
<1> DEFINE s == SubSeq(left, o + 1, o + d)
           t == SubSeq(right, n + 1, n + d)
<1> HIDE DEF d
<1>9. /\ s \in Seq(Lines) /\ Len(s) = d
      /\ \A e \in 1 .. d : s[e] = left[o + e]
  <2>1. \A x \in o + 1 .. o + d : left[x] \in Lines
    BY <1>1, <1>2, <1>7
  <2>2. o + 1 \in Int /\ o + d \in Int
    BY <1>1, <1>2
  <2>3. /\ s \in Seq(Lines)
        /\ Len(s) = IF o + 1 <= o + d THEN (o + d) - (o + 1) + 1 ELSE 0
        /\ \A e \in 1 .. (o + d) - (o + 1) + 1 : s[e] = left[(o + 1) + e - 1]
    BY <2>1, <2>2, SubSeqProperties
  <2>4. /\ (o + d) - (o + 1) + 1 = d /\ (o + 1 <= o + d <=> d # 0)
        /\ \A e \in 1 .. d : (o + 1) + e - 1 = o + e
    BY <1>1, <1>2
  <2> HIDE DEF s
  <2> QED
    BY <2>3, <2>4
<1>10. /\ t \in Seq(Lines) /\ Len(t) = d
       /\ \A e \in 1 .. d : t[e] = right[n + e]
  <2>1. \A x \in n + 1 .. n + d : right[x] \in Lines
    BY <1>1, <1>2, <1>7
  <2>2. n + 1 \in Int /\ n + d \in Int
    BY <1>1, <1>2
  <2>3. /\ t \in Seq(Lines)
        /\ Len(t) = IF n + 1 <= n + d THEN (n + d) - (n + 1) + 1 ELSE 0
        /\ \A e \in 1 .. (n + d) - (n + 1) + 1 : t[e] = right[(n + 1) + e - 1]
    BY <2>1, <2>2, SubSeqProperties, SMTT(60)
  <2>4. /\ (n + d) - (n + 1) + 1 = d /\ (n + 1 <= n + d <=> d # 0)
        /\ \A e \in 1 .. d : (n + 1) + e - 1 = n + e
    BY <1>1, <1>2
  <2> HIDE DEF t
  <2> QED
    BY <2>3, <2>4
<1> HIDE DEF s, t
<1>11. s = t
  BY <1>8, <1>9, <1>10, SeqEqual
<1> QED
  BY <1>6, <1>11 DEF s, t, o, n

\* The line that a header leaves its count behind is the one before its hunk.
LEMMA StartFollows ==
  ASSUME NEW before \in Nat, NEW count \in Nat
  PROVE  Preceding(RangeStart(before, count), count) = before
BY DEF Preceding, RangeStart

\* Without a filter, what no hunk holds is the same on both sides.
LEMMA GapsUnchanged ==
  ASSUME DiffInv, selected = Lines, phase = "done", NEW n \in 0 .. Len(hunks)
  PROVE  GapUnchanged(n)
<1> DEFINE N == Len(pairs)
           L == Len(hunks)
           a == IF n = 0 THEN 0 ELSE hunks[n].end
           b == IF n = L THEN N ELSE hunks[n + 1].first - 1
<1>1. /\ DiffTypeOK /\ HunksPlaced /\ ~Aligning /\ SameText(pairs)
      /\ SpellsLeft(pairs, Len(left)) /\ SpellsRight(pairs, Len(right))
  BY DEF DiffInv, Aligning, WholeSpelled
<1>2. /\ pairs \in Seq(Pairs) /\ N \in Nat /\ \A k \in Changes(pairs) : k \in 1 .. N
      /\ Len(left) \in Nat /\ Len(right) \in Nat
  BY <1>1 DEF DiffTypeOK, Changes
<1>3. /\ hunks \in Seq(HunkHeader) /\ L \in Nat /\ DOMAIN hunks = 1 .. L
      /\ \A h \in 1 .. L : hunks[h].first \in Nat /\ hunks[h].end \in Nat
  BY <1>1, HeaderTypes DEF HunksPlaced
<1>4. \A g, h \in 1 .. L : g < h => hunks[g].end < hunks[h].first
  BY <1>1, <1>3 DEF HunksPlaced
<1>5. \A h \in 1 .. L :
        1 <= hunks[h].first /\ hunks[h].first <= hunks[h].end /\ hunks[h].end <= N
  BY <1>1, <1>3 DEF HunksPlaced, Cut, Padded
<1>6. \A h \in 1 .. L : Headed(hunks[h], pairs)
  BY <1>1, <1>3 DEF HunksPlaced, Cut
<1>7. \A k \in Changes(pairs) : \E h \in 1 .. L : Inside(k, hunks[h])
  BY <1>1, <1>3 DEF HunksPlaced
<1>8. /\ n \in Nat /\ n <= L
      /\ n # 0 => n \in 1 .. L
      /\ n # L => n + 1 \in 1 .. L
  <2>1. n \in 0 .. L /\ L \in Nat
    BY <1>3
  <2> HIDE DEF L, a, b
  <2>2. n \in Nat /\ n <= L
    BY <2>1
  <2>3. n # 0 => n \in 1 .. L
    BY <2>1
  <2>4. n # L => n + 1 \in 1 .. L
    BY <2>1
  <2> QED
    BY <2>2, <2>3, <2>4
<1> HIDE DEF N, L
<1>9. a \in 0 .. N /\ b \in a .. N
  <2>1. a \in 0 .. N
    BY <1>2, <1>3, <1>5, <1>8
  <2>2. CASE n = L
    BY <1>2, <2>1, <2>2
  <2>3. CASE n # L
    <3>1. hunks[n + 1].first - 1 \in 0 .. N
      <4> DEFINE f == hunks[n + 1].first
                 e == hunks[n + 1].end
      <4>1. f \in Nat /\ e \in Nat /\ 1 <= f /\ f <= e /\ e <= N
        BY <1>3, <1>5, <1>8, <2>3
      <4> HIDE DEF f, e
      <4>2. f - 1 \in 0 .. N
        BY <1>2, <4>1
      <4> QED
        BY <4>2 DEF f
    <3>2. a <= hunks[n + 1].first - 1
      <4>1. CASE n = 0
        BY <3>1, <4>1
      <4>2. CASE n # 0
        <5>1. hunks[n].end < hunks[n + 1].first
          BY <1>4, <1>8, <2>3, <4>2
        <5> QED
          BY <1>3, <1>8, <2>3, <4>2, <5>1
      <4> QED
        BY <4>1, <4>2
    <3> QED
      BY <1>2, <2>1, <2>3, <3>1, <3>2
  <2> QED
    BY <2>2, <2>3
<1>10. ASSUME NEW k \in Changes(pairs), a < k, k <= b
      PROVE  FALSE
  <2>1. PICK h \in 1 .. L : Inside(k, hunks[h])
    BY <1>7
  <2>2. k \in Nat /\ k <= N /\ hunks[h].first <= k /\ k <= hunks[h].end
    BY <1>2, <2>1 DEF Inside
  <2>3. CASE h <= n
    <3>1. n \in 1 .. L /\ a = hunks[n].end
      BY <1>3, <1>8, <2>3
    <3>2. hunks[h].end <= hunks[n].end
      <4>1. CASE h = n
        BY <1>3, <3>1, <4>1
      <4>2. CASE h < n
        <5>1. hunks[h].end < hunks[n].first /\ hunks[n].first <= hunks[n].end
          BY <1>4, <1>5, <3>1, <4>2
        <5> QED
          BY <1>3, <3>1, <5>1
      <4> QED
        BY <2>3, <3>1, <4>1, <4>2
    <3> QED
      BY <1>3, <1>10, <2>2, <3>1, <3>2
  <2>4. CASE h > n
    <3>1. n + 1 \in 1 .. L /\ b = hunks[n + 1].first - 1
      BY <1>3, <1>8, <2>4
    <3>2. hunks[n + 1].first <= hunks[h].first
      <4>1. CASE h = n + 1
        BY <1>3, <3>1, <4>1
      <4>2. CASE n + 1 < h
        <5>1. /\ hunks[n + 1].end < hunks[h].first
              /\ hunks[n + 1].first <= hunks[n + 1].end
          BY <1>4, <1>5, <3>1, <4>2
        <5> QED
          BY <1>3, <3>1, <5>1
      <4> QED
        BY <2>4, <3>1, <4>1, <4>2
    <3> QED
      BY <1>3, <1>10, <2>2, <3>1, <3>2
  <2> QED
    BY <1>3, <2>3, <2>4
<1>11. SubSeq(left, OldBefore(pairs, a) + 1, OldBefore(pairs, b))
       = SubSeq(right, NewBefore(pairs, a) + 1, NewBefore(pairs, b))
  BY <1>1, <1>9, <1>10, UnchangedBetween DEF N
<1>12. OldBefore(pairs, b) <= Len(left) /\ NewBefore(pairs, b) <= Len(right)
  <2>1. /\ OldBefore(pairs, a) \in Nat /\ NewBefore(pairs, a) \in Nat
        /\ OldBefore(pairs, b) \in OldBefore(pairs, a) .. Len(left)
        /\ NewBefore(pairs, b) \in NewBefore(pairs, a) .. Len(right)
    BY <1>1, <1>9, PlacesSpelled DEF N
  <2> QED
    BY <1>2, <2>1
<1>13. \A h \in 1 .. L :
         /\ Preceding(hunks[h].oldStart, hunks[h].oldCount)
              = OldBefore(pairs, hunks[h].first - 1)
         /\ Preceding(hunks[h].newStart, hunks[h].newCount)
              = NewBefore(pairs, hunks[h].first - 1)
         /\ Preceding(hunks[h].oldStart, hunks[h].oldCount) + hunks[h].oldCount
              = OldBefore(pairs, hunks[h].end)
         /\ Preceding(hunks[h].newStart, hunks[h].newCount) + hunks[h].newCount
              = NewBefore(pairs, hunks[h].end)
  <2> TAKE h \in 1 .. L
  <2>1. hunks[h].first - 1 \in 0 .. N /\ hunks[h].end \in (hunks[h].first - 1) .. N
    BY <1>2, <1>3, <1>5
  <2>2. /\ OldBefore(pairs, hunks[h].first - 1) \in Nat
        /\ NewBefore(pairs, hunks[h].first - 1) \in Nat
        /\ OldBefore(pairs, hunks[h].end) - OldBefore(pairs, hunks[h].first - 1) \in Nat
        /\ NewBefore(pairs, hunks[h].end) - NewBefore(pairs, hunks[h].first - 1) \in Nat
    BY <1>2, <2>1, BeforeGrows DEF N
  <2>3. /\ hunks[h].end \in 0 .. N /\ hunks[h].end \in hunks[h].end .. N
    BY <1>2, <1>3, <1>5
  <2>4. OldBefore(pairs, hunks[h].end) \in Nat /\ NewBefore(pairs, hunks[h].end) \in Nat
    BY <1>2, <2>3, BeforeGrows DEF N
  <2>5. /\ Preceding(hunks[h].oldStart, hunks[h].oldCount)
             = OldBefore(pairs, hunks[h].first - 1)
        /\ Preceding(hunks[h].newStart, hunks[h].newCount)
             = NewBefore(pairs, hunks[h].first - 1)
    BY <1>6, <2>2, StartFollows DEF Headed
  <2>6. /\ hunks[h].oldCount
             = OldBefore(pairs, hunks[h].end) - OldBefore(pairs, hunks[h].first - 1)
        /\ hunks[h].newCount
             = NewBefore(pairs, hunks[h].end) - NewBefore(pairs, hunks[h].first - 1)
    BY <1>6 DEF Headed
  <2> QED
    BY <2>2, <2>4, <2>5, <2>6
<1>14. /\ OldBefore(pairs, 0) = 0 /\ NewBefore(pairs, 0) = 0
       /\ OldBefore(pairs, N) = Len(left) /\ NewBefore(pairs, N) = Len(right)
  <2>1. 0 \in 0 .. N /\ N \in 0 .. N
    BY <1>2
  <2>2. Positions(Olds(pairs)) /\ Positions(News(pairs))
    BY <1>2, BeforeIsUpto
  <2> QED
    BY <1>1, <1>2, <2>1, <2>2, BeforeIsUpto, UptoZero DEF SpellsLeft, SpellsRight, N
<1> DEFINE from(start, count) == IF n = 0 THEN 0 ELSE Preceding(start, count) + count
           oldFrom == from(hunks[n].oldStart, hunks[n].oldCount)
           newFrom == from(hunks[n].newStart, hunks[n].newCount)
           oldTo == IF n = L THEN Len(left)
                    ELSE Preceding(hunks[n + 1].oldStart, hunks[n + 1].oldCount)
           newTo == IF n = L THEN Len(right)
                    ELSE Preceding(hunks[n + 1].newStart, hunks[n + 1].newCount)
<1>15. oldFrom = OldBefore(pairs, a) /\ newFrom = NewBefore(pairs, a)
  <2>1. CASE n = 0
    BY <1>14, <2>1
  <2>2. CASE n # 0
    <3>1. n \in 1 .. L
      BY <1>8, <2>2
    <3> QED
      BY <1>13, <2>2, <3>1
  <2> QED
    BY <2>1, <2>2
<1>16. oldTo = OldBefore(pairs, b) /\ newTo = NewBefore(pairs, b)
  <2>1. CASE n = L
    BY <1>14, <2>1
  <2>2. CASE n # L
    <3>1. n + 1 \in 1 .. L
      BY <1>8, <2>2
    <3> QED
      BY <1>13, <2>2, <3>1
  <2> QED
    BY <2>1, <2>2
<1> HIDE DEF a, b
<1>17. /\ oldTo <= Len(left) /\ newTo <= Len(right)
       /\ SubSeq(left, oldFrom + 1, oldTo) = SubSeq(right, newFrom + 1, newTo)
  BY <1>11, <1>12, <1>15, <1>16
<1> QED
  BY <1>17 DEF GapUnchanged, L

\* buildHunks, linediff.go 152-203: for every two values, every filter and every
\* number of context lines, the hunks hold every change once with its context;
\* without a filter they are a patch that turns the left value into the right.
THEOREM HunksAreAPatch ==
  DiffSpec => []HunksExact
<1>1. DiffInv => HunksExact
  <2> SUFFICES ASSUME DiffInv
               PROVE  HunksApply
    BY ChangesCovered DEF HunksExact
  <2> SUFFICES ASSUME selected = Lines
               PROVE  /\ \A n \in DOMAIN hunks : HunkApplies(hunks[n])
                      /\ phase = "done" => \A n \in 0 .. Len(hunks) : GapUnchanged(n)
    BY DEF HunksApply
  <2>1. CASE Aligning
    <3>1. hunks = << >> /\ phase # "done"
      BY <2>1 DEF DiffInv, Spelling, Aligning
    <3> QED
      BY <3>1
  <2>2. CASE ~Aligning
    <3>1. /\ DiffTypeOK /\ SpellsLeft(pairs, Len(left)) /\ SpellsRight(pairs, Len(right))
          /\ \A h \in DOMAIN hunks : Cut(hunks[h], pairs, Context)
      BY <2>2 DEF DiffInv, WholeSpelled, HunksPlaced
    <3>2. \A h \in DOMAIN hunks : HunkApplies(hunks[h])
      BY <3>1, CutHunkApplies
    <3> QED
      BY <3>2, GapsUnchanged
  <2> QED
    BY <2>1, <2>2
<1> QED
  BY <1>1, DiffInvariant, PTL

\* A non-empty set of natural numbers has a least element.
LEMMA LeastExists ==
  ASSUME NEW S \in SUBSET Nat, S # {}
  PROVE  \E x \in S : \A y \in S : x <= y
<1>1. PICK x \in S : \A y \in S : ~(<<y, x>> \in OpToRel(<, Nat))
  BY NatLessThanWellFounded, WFMin
<1>2. \A y \in S : ~(y < x)
  BY <1>1 DEF OpToRel
<1> QED
  BY <1>2

-----------------------------------------------------------------------------
(***************************************************************************)
(* The table of the longest common subsequences.                           *)
(***************************************************************************)
Cells == (0 .. Len(left)) \X (0 .. Len(right))

\* What a cell holds when t holds the cells after it.
Entry(p, t) ==
  IF p[1] = Len(left) \/ p[2] = Len(right) THEN 0
  ELSE IF left[p[1] + 1] = right[p[2] + 1] THEN 1 + t[<<p[1] + 1, p[2] + 1>>]
  ELSE IF t[<<p[1] + 1, p[2]>>] >= t[<<p[1], p[2] + 1>>]
  THEN t[<<p[1] + 1, p[2]>>] ELSE t[<<p[1], p[2] + 1>>]

\* How many lines are after a cell.
After(p) == (Len(left) - p[1]) + (Len(right) - p[2])

\* A table of which the cells with at most m lines after them are right.
Filled(t, m) ==
  /\ t = [p \in Cells |-> t[p]]
  /\ \A p \in Cells : After(p) <= m => t[p] = Entry(p, t)

Values == left \in Seq(Lines) /\ right \in Seq(Lines)

\* Cells are pairs of numbers, and those that a cell depends on have fewer
\* lines after them.
LEMMA CellsAfter ==
  ASSUME Values, NEW p \in Cells
  PROVE  /\ p[1] \in 0 .. Len(left) /\ p[2] \in 0 .. Len(right)
         /\ After(p) \in Nat /\ After(p) <= Len(left) + Len(right)
         /\ ~(p[1] = Len(left) \/ p[2] = Len(right)) =>
              \A q \in {<<p[1] + 1, p[2] + 1>>, <<p[1] + 1, p[2]>>, <<p[1], p[2] + 1>>} :
                q \in Cells /\ After(q) < After(p)
<1>1. Len(left) \in Nat /\ Len(right) \in Nat
  BY DEF Values
<1>2. p[1] \in 0 .. Len(left) /\ p[2] \in 0 .. Len(right)
  BY DEF Cells
<1>3. After(p) \in Nat /\ After(p) <= Len(left) + Len(right)
  BY <1>1, <1>2 DEF After
<1>4. ASSUME p[1] # Len(left), p[2] # Len(right)
      PROVE  \A q \in {<<p[1] + 1, p[2] + 1>>, <<p[1] + 1, p[2]>>, <<p[1], p[2] + 1>>} :
                q \in Cells /\ After(q) < After(p)
  <2>1. p[1] + 1 \in 0 .. Len(left) /\ p[2] + 1 \in 0 .. Len(right)
    BY <1>1, <1>2, <1>4
  <2> QED
    BY <1>1, <1>2, <2>1 DEF Cells, After
<1> QED
  BY <1>2, <1>3, <1>4

\* Tables that agree on the cells after a cell give it the same entry.
LEMMA EntryDependsOnCellsAfter ==
  ASSUME Values, NEW p \in Cells, NEW s, NEW t,
         \A q \in Cells : After(q) < After(p) => s[q] = t[q]
  PROVE  Entry(p, s) = Entry(p, t)
<1>1. CASE p[1] = Len(left) \/ p[2] = Len(right)
  BY <1>1 DEF Entry
<1>2. CASE ~(p[1] = Len(left) \/ p[2] = Len(right))
  <2>1. /\ s[<<p[1] + 1, p[2] + 1>>] = t[<<p[1] + 1, p[2] + 1>>]
        /\ s[<<p[1] + 1, p[2]>>] = t[<<p[1] + 1, p[2]>>]
        /\ s[<<p[1], p[2] + 1>>] = t[<<p[1], p[2] + 1>>]
    BY <1>2, CellsAfter
  <2> QED
    BY <1>2, <2>1 DEF Entry
<1> QED
  BY <1>1, <1>2

\* However many lines the cells have after them, a table can be filled as far.
LEMMA TablesCanBeFilled ==
  ASSUME Values, NEW n \in Nat
  PROVE  \E t : Filled(t, n)
<1> DEFINE Bad == {m \in Nat : ~\E t : Filled(t, m)}
<1>1. SUFFICES ASSUME Bad # {}
               PROVE  FALSE
  BY <1>1
<1>2. PICK m \in Bad : \A k \in Bad : m <= k
  <2>1. Bad \in SUBSET Nat
    OBVIOUS
  <2> HIDE DEF Bad
  <2> QED
    BY <1>1, <2>1, LeastExists
<1>3. \E s : m # 0 => Filled(s, m - 1)
  <2>1. CASE m = 0
    BY <2>1
  <2>2. CASE m # 0
    BY <1>2, <2>2
  <2> QED
    BY <2>1, <2>2
<1>4. PICK s : m # 0 => Filled(s, m - 1)
  BY <1>3
<1> DEFINE t == [p \in Cells |-> Entry(p, s)]
<1>5. ASSUME NEW p \in Cells, After(p) <= m
      PROVE  t[p] = Entry(p, t)
  <2>1. ASSUME NEW q \in Cells, After(q) < After(p)
        PROVE  s[q] = t[q]
    <3>1. After(q) \in Nat /\ After(p) \in Nat /\ m \in Nat
      BY CellsAfter
    <3>2. m # 0 /\ After(q) <= m - 1
      BY <1>5, <2>1, <3>1
    <3>3. s[q] = Entry(q, s)
      BY <1>4, <3>2 DEF Filled
    <3> QED
      BY <3>3
  <2>2. Entry(p, s) = Entry(p, t)
    <3> HIDE DEF t
    <3> QED
      BY <2>1, EntryDependsOnCellsAfter
  <2> QED
    BY <2>2
<1>6. t = [p \in Cells |-> t[p]]
  OBVIOUS
<1>7. Filled(t, m)
  <2> HIDE DEF t
  <2> QED
    BY <1>5, <1>6 DEF Filled
<1> QED
  BY <1>2, <1>7

\* So the recursion of lcs defines a function.
LEMMA TableIsFilled ==
  ASSUME Values
  PROVE  lcs = [p \in Cells |-> Entry(p, lcs)]
<1>1. Len(left) + Len(right) \in Nat
  BY DEF Values
<1>2. PICK t : Filled(t, Len(left) + Len(right))
  BY <1>1, TablesCanBeFilled
<1>3. \A p \in Cells : t[p] = Entry(p, t)
  BY <1>2, CellsAfter DEF Filled
<1>4. t = [p \in Cells |-> t[p]]
  BY <1>2 DEF Filled
<1>5. t = [p \in Cells |-> Entry(p, t)]
  BY <1>3, <1>4
<1> QED
  BY <1>5 DEF lcs, Cells, Entry

\* Every cell counts lines.
LEMMA CellsCount ==
  ASSUME Values, NEW c \in Cells
  PROVE  lcs[c] \in Nat /\ lcs[c] = Entry(c, lcs)
<1> DEFINE Bad == {m \in Nat : \E p \in Cells : After(p) = m /\ lcs[p] \notin Nat}
<1>1. \A p \in Cells : lcs[p] = Entry(p, lcs)
  BY TableIsFilled
<1>2. ASSUME NEW p \in Cells, lcs[p] \notin Nat
      PROVE  FALSE
  <2>1. Bad # {}
    BY <1>2, CellsAfter
  <2>2. PICK m \in Bad : \A k \in Bad : m <= k
    <3>1. Bad \in SUBSET Nat
      OBVIOUS
    <3> HIDE DEF Bad
    <3> QED
      BY <2>1, <3>1, LeastExists
  <2>3. PICK q \in Cells : After(q) = m /\ lcs[q] \notin Nat
    BY <2>2
  <2>4. ASSUME NEW r \in Cells, After(r) < m, lcs[r] \notin Nat
        PROVE  FALSE
    <3>1. After(r) \in Nat /\ m \in Nat
      BY CellsAfter
    <3>2. After(r) \in Bad
      BY <2>4, <3>1
    <3> QED
      BY <2>2, <2>4, <3>1, <3>2
  <2>5. CASE q[1] = Len(left) \/ q[2] = Len(right)
    <3>1. lcs[q] = Entry(q, lcs)
      BY <1>1
    <3> QED
      BY <2>3, <2>5, <3>1 DEF Entry
  <2>6. CASE ~(q[1] = Len(left) \/ q[2] = Len(right))
    <3>1. /\ lcs[<<q[1] + 1, q[2] + 1>>] \in Nat
          /\ lcs[<<q[1] + 1, q[2]>>] \in Nat
          /\ lcs[<<q[1], q[2] + 1>>] \in Nat
      BY <2>3, <2>4, <2>6, CellsAfter
    <3>2. lcs[q] = Entry(q, lcs)
      BY <1>1
    <3> QED
      BY <2>3, <2>6, <3>1, <3>2 DEF Entry
  <2> QED
    BY <2>5, <2>6
<1> QED
  BY <1>1, <1>2

\* A common subsequence of length n: the lines f[k] of the left and g[k] of the
\* right.
Common(f, g, n) ==
  /\ \A k \in 1 .. n : /\ f[k] \in 1 .. Len(left) /\ g[k] \in 1 .. Len(right)
                       /\ left[f[k]] = right[g[k]]
  /\ \A k, l \in 1 .. n : k < l => f[k] < f[l] /\ g[k] < g[l]

\* A cell holds no less than the length of a common subsequence of the lines
\* after it.
LEMMA CommonIsBounded ==
  ASSUME Values, NEW n \in Nat, NEW f, NEW g, Common(f, g, n)
  PROVE  n <= lcs[<<0, 0>>]
<1> DEFINE Held(p) == \A s \in 1 .. n : f[s] > p[1] /\ g[s] > p[2] =>
                                          n - s + 1 <= lcs[p]
           Bad == {m \in Nat : \E p \in Cells : After(p) = m /\ ~Held(p)}
<1>1. ASSUME NEW p \in Cells, ~Held(p)
      PROVE  FALSE
  <2>1. Bad # {}
    BY <1>1, CellsAfter
  <2>2. PICK m \in Bad : \A k \in Bad : m <= k
    <3>1. Bad \in SUBSET Nat
      OBVIOUS
    <3> HIDE DEF Bad
    <3> QED
      BY <2>1, <3>1, LeastExists
  <2>3. PICK q \in Cells : After(q) = m /\ ~Held(q)
    BY <2>2
  <2>4. PICK s \in 1 .. n : f[s] > q[1] /\ g[s] > q[2] /\ ~(n - s + 1 <= lcs[q])
    BY <2>3
  <2>5. ASSUME NEW r \in Cells, After(r) < m
        PROVE  Held(r)
    <3>1. After(r) \in Nat /\ m \in Nat
      BY CellsAfter
    <3>2. ~(After(r) \in Bad)
      BY <2>2, <2>5, <3>1
    <3> QED
      BY <3>1, <3>2
  <2>6. /\ f[s] \in 1 .. Len(left) /\ g[s] \in 1 .. Len(right)
        /\ left[f[s]] = right[g[s]] /\ Len(left) \in Nat /\ Len(right) \in Nat
        /\ q[1] \in 0 .. Len(left) /\ q[2] \in 0 .. Len(right)
    <3>1. /\ f[s] \in 1 .. Len(left) /\ g[s] \in 1 .. Len(right)
          /\ left[f[s]] = right[g[s]]
      BY DEF Common
    <3>2. Len(left) \in Nat /\ Len(right) \in Nat
      BY DEF Values
    <3>3. q[1] \in 0 .. Len(left) /\ q[2] \in 0 .. Len(right)
      BY CellsAfter
    <3> QED
      BY <3>1, <3>2, <3>3
  <2>7. ~(q[1] = Len(left) \/ q[2] = Len(right))
    BY <2>4, <2>6
  <2> DEFINE both == <<q[1] + 1, q[2] + 1>>
             l == <<q[1] + 1, q[2]>>
             r == <<q[1], q[2] + 1>>
  <2>8. /\ both \in Cells /\ After(both) < m
        /\ l \in Cells /\ After(l) < m
        /\ r \in Cells /\ After(r) < m
    BY <2>3, <2>7, CellsAfter
  <2>9. /\ lcs[both] \in Nat /\ lcs[l] \in Nat /\ lcs[r] \in Nat
        /\ lcs[q] \in Nat /\ lcs[q] = Entry(q, lcs)
    BY <2>8, CellsCount
  <2>10. Held(both) /\ Held(l) /\ Held(r)
    <3> HIDE DEF Held, both, l, r
    <3> QED
      BY <2>5, <2>8
  <2>11. CASE left[q[1] + 1] = right[q[2] + 1]
    <3>1. lcs[q] = 1 + lcs[both]
      BY <2>7, <2>9, <2>11 DEF Entry
    <3>2. CASE s = n
      BY <2>4, <2>9, <3>1, <3>2
    <3>3. CASE s # n
      <4>1. s + 1 \in 1 .. n /\ s < s + 1
        BY <3>3
      <4>2. /\ f[s + 1] > f[s] /\ g[s + 1] > g[s]
            /\ f[s + 1] \in 1 .. Len(left) /\ g[s + 1] \in 1 .. Len(right)
        BY <4>1 DEF Common
      <4>3. f[s + 1] > both[1] /\ g[s + 1] > both[2]
        <5>1. /\ f[s] \in Int /\ g[s] \in Int /\ q[1] \in Int /\ q[2] \in Int
              /\ f[s] > q[1] /\ g[s] > q[2]
          BY <2>4, <2>6
        <5>2. /\ f[s + 1] \in Int /\ g[s + 1] \in Int
              /\ f[s + 1] > f[s] /\ g[s + 1] > g[s]
          BY <2>6, <4>2
        <5>3. both[1] = q[1] + 1 /\ both[2] = q[2] + 1
          OBVIOUS
        <5> QED
          BY <5>1, <5>2, <5>3
      <4>4. n - (s + 1) + 1 <= lcs[both]
        BY <2>10, <4>1, <4>3
      <4> QED
        BY <2>4, <2>9, <3>1, <4>4
    <3> QED
      BY <3>2, <3>3
  <2>12. CASE left[q[1] + 1] # right[q[2] + 1]
    <3>1. lcs[q] = IF lcs[l] >= lcs[r] THEN lcs[l] ELSE lcs[r]
      BY <2>7, <2>9, <2>12 DEF Entry
    <3>2. lcs[l] <= lcs[q] /\ lcs[r] <= lcs[q]
      BY <2>9, <3>1
    <3>3. CASE f[s] > q[1] + 1
      <4>1. n - s + 1 <= lcs[l]
        BY <2>4, <2>10, <3>3
      <4> QED
        BY <2>4, <2>9, <3>2, <4>1
    <3>4. CASE g[s] > q[2] + 1
      <4>1. n - s + 1 <= lcs[r]
        BY <2>4, <2>10, <3>4
      <4> QED
        BY <2>4, <2>9, <3>2, <4>1
    <3>5. CASE ~(f[s] > q[1] + 1) /\ ~(g[s] > q[2] + 1)
      <4>1. f[s] = q[1] + 1 /\ g[s] = q[2] + 1
        <5>1. /\ f[s] \in Int /\ g[s] \in Int /\ q[1] \in Int /\ q[2] \in Int
              /\ f[s] > q[1] /\ g[s] > q[2]
          BY <2>4, <2>6
        <5> QED
          BY <3>5, <5>1
      <4> QED
        BY <2>6, <2>12, <4>1
    <3> QED
      BY <3>3, <3>4, <3>5
  <2> QED
    BY <2>11, <2>12
<1>2. Len(left) \in Nat /\ Len(right) \in Nat
  BY DEF Values
<1>3. <<0, 0>> \in Cells
  BY <1>2 DEF Cells
<1>4. lcs[<<0, 0>>] \in Nat
  BY <1>3, CellsCount
<1>5. CASE n = 0
  BY <1>4, <1>5
<1>6. CASE n # 0
  <2>1. 1 \in 1 .. n
    BY <1>6
  <2>2. Held(<<0, 0>>)
    BY <1>1, <1>3
  <2>3. f[1] > 0 /\ g[1] > 0
    BY <1>2, <2>1 DEF Common
  <2> QED
    BY <1>4, <2>1, <2>2, <2>3
<1> QED
  BY <1>5, <1>6

\* The n-th of some positions comes before those after it.
LEMMA NthGrows ==
  ASSUME NEW S, Positions(S), IsFiniteSet(S),
         NEW k \in 1 .. Cardinality(S), NEW l \in 1 .. Cardinality(S), k < l
  PROVE  Nth(S, k) < Nth(S, l)
<1>1. /\ Nth(S, k) \in S /\ Upto(S, Nth(S, k)) = k
      /\ Nth(S, l) \in S /\ Upto(S, Nth(S, l)) = l
  BY NthExists
<1>2. Nth(S, k) \in Nat /\ Nth(S, l) \in Nat
  BY <1>1 DEF Positions
<1>3. Nth(S, l) <= Nth(S, k) => l <= k
  BY <1>1, <1>2, UptoGrows
<1>4. Cardinality(S) \in Nat
  BY FS_CardinalityType
<1> QED
  BY <1>2, <1>3, <1>4

\* A common subsequence is no longer than the first cell says.
LEMMA NoLongerCommon ==
  ASSUME Values, NEW n \in Nat, NEW c,
         c \in Subsequences(left, n), c \in Subsequences(right, n)
  PROVE  n <= lcs[<<0, 0>>]
<1>1. PICK a \in kSubset(n, DOMAIN left) : c = [k \in 1 .. n |-> left[Nth(a, k)]]
  BY DEF Subsequences
<1>2. PICK b \in kSubset(n, DOMAIN right) : c = [k \in 1 .. n |-> right[Nth(b, k)]]
  BY DEF Subsequences
<1>3. /\ a \in SUBSET (1 .. Len(left)) /\ Cardinality(a) = n
      /\ b \in SUBSET (1 .. Len(right)) /\ Cardinality(b) = n
      /\ Len(left) \in Nat /\ Len(right) \in Nat
  BY DEF kSubset, Values
<1>4. Positions(a) /\ Positions(b)
  BY <1>3 DEF Positions
<1>5. IsFiniteSet(a) /\ IsFiniteSet(b)
  <2>1. IsFiniteSet(1 .. Len(left)) /\ IsFiniteSet(1 .. Len(right))
    BY <1>3, FS_Interval
  <2> QED
    BY <1>3, <2>1, FS_Subset
<1> DEFINE f == [k \in 1 .. n |-> Nth(a, k)]
           g == [k \in 1 .. n |-> Nth(b, k)]
<1>6. ASSUME NEW k \in 1 .. n
      PROVE  /\ f[k] \in 1 .. Len(left) /\ g[k] \in 1 .. Len(right)
             /\ left[f[k]] = right[g[k]]
  <2>1. Nth(a, k) \in a /\ Nth(b, k) \in b
    BY <1>3, <1>4, <1>5, NthExists
  <2>2. c[k] = left[Nth(a, k)] /\ c[k] = right[Nth(b, k)]
    <3>1. c[k] = left[Nth(a, k)]
      BY <1>1
    <3>2. c[k] = right[Nth(b, k)]
      BY <1>2
    <3> QED
      BY <3>1, <3>2
  <2> QED
    BY <1>3, <2>1, <2>2
<1>7. ASSUME NEW k \in 1 .. n, NEW l \in 1 .. n, k < l
      PROVE  f[k] < f[l] /\ g[k] < g[l]
  <2>1. Nth(a, k) < Nth(a, l) /\ Nth(b, k) < Nth(b, l)
    BY <1>3, <1>4, <1>5, <1>7, NthGrows
  <2> QED
    BY <2>1
<1> HIDE DEF f, g
<1>8. Common(f, g, n)
  BY <1>6, <1>7 DEF Common
<1> QED
  BY <1>8, CommonIsBounded

-----------------------------------------------------------------------------
(***************************************************************************)
(* The walk keeps as many lines as the table promises.                     *)
(***************************************************************************)
EqualPairs(s) == {k \in DOMAIN s : s[k].kind = "equal"}

\* The pairs that are no changes are the equal ones.
LEMMA EqualsAndChanges ==
  ASSUME NEW s \in Seq(Pairs)
  PROVE  /\ IsFiniteSet(EqualPairs(s)) /\ Cardinality(EqualPairs(s)) \in Nat
         /\ Len(s) - Cardinality(Changes(s)) = Cardinality(EqualPairs(s))
<1> DEFINE E == EqualPairs(s)
           C == Changes(s)
<1>1. IsFiniteSet(1 .. Len(s)) /\ Cardinality(1 .. Len(s)) = Len(s) /\ Len(s) \in Nat
  <2>1. Len(s) \in Nat
    OBVIOUS
  <2>2. IsFiniteSet(1 .. Len(s)) /\ Cardinality(1 .. Len(s))
          = IF 1 > Len(s) THEN 0 ELSE Len(s) - 1 + 1
    BY <2>1, FS_Interval
  <2> QED
    BY <2>1, <2>2
<1>2. E \cup C = 1 .. Len(s) /\ E \cap C = {}
  BY DEF EqualPairs, Changes
<1>3. E \in SUBSET (1 .. Len(s)) /\ C \in SUBSET (1 .. Len(s))
  BY <1>2
<1> HIDE DEF E, C
<1>4. IsFiniteSet(E) /\ IsFiniteSet(C)
  BY <1>1, <1>3, FS_Subset
<1>5. Cardinality(E) \in Nat /\ Cardinality(C) \in Nat
  BY <1>4, FS_CardinalityType
<1>6. Cardinality(E \cup C) = Cardinality(E) + Cardinality(C) - Cardinality({})
  BY <1>2, <1>4, FS_Union
<1>7. Len(s) = Cardinality(E) + Cardinality(C)
  <2>1. Cardinality(E \cup C) = Len(s) /\ Cardinality({}) = 0
    BY <1>1, <1>2, FS_EmptySet
  <2> QED
    BY <1>5, <1>6, <2>1
<1> QED
  BY <1>1, <1>4, <1>5, <1>7 DEF E, C

\* An equal pair adds one.
LEMMA OneMoreEqual ==
  ASSUME NEW s \in Seq(Pairs), NEW x, x.kind = "equal"
  PROVE  Cardinality(EqualPairs(Append(s, x))) = Cardinality(EqualPairs(s)) + 1
<1>1. Len(s) \in Nat
  OBVIOUS
<1>2. EqualPairs(Append(s, x)) = EqualPairs(s) \cup {Len(s) + 1}
  BY DEF EqualPairs
<1>3. Len(s) + 1 \notin EqualPairs(s)
  BY DEF EqualPairs
<1> QED
  BY <1>2, <1>3, EqualsAndChanges, FS_AddElement

\* Changes add none.
LEMMA NoMoreEqual ==
  ASSUME NEW s \in Seq(Pairs), NEW t \in Seq(Pairs),
         \A k \in 1 .. Len(t) : t[k].kind # "equal"
  PROVE  EqualPairs(s \o t) = EqualPairs(s)
<1>1. /\ Len(s \o t) = Len(s) + Len(t) /\ Len(s) \in Nat /\ Len(t) \in Nat
      /\ DOMAIN (s \o t) = 1 .. Len(s) + Len(t) /\ DOMAIN s = 1 .. Len(s)
      /\ \A k \in 1 .. Len(s) : (s \o t)[k] = s[k]
      /\ \A k \in 1 .. Len(s) + Len(t) : k > Len(s) => (s \o t)[k] = t[k - Len(s)]
  BY ConcatProperties
<1>2. ASSUME NEW k \in 1 .. Len(s) + Len(t), k > Len(s)
      PROVE  (s \o t)[k].kind # "equal"
  <2>1. k - Len(s) \in 1 .. Len(t)
    BY <1>1, <1>2
  <2> QED
    BY <1>1, <1>2, <2>1
<1> QED
  BY <1>1, <1>2 DEF EqualPairs

\* What the alignment keeps, and what the table promises for the lines after the
\* walk, are as many lines as the first cell says; at the end there is nothing
\* left.
WalkIsMinimal ==
  /\ phase = "aligning" =>
       Cardinality(EqualPairs(pairs)) + lcs[<<i, j>>] = lcs[<<0, 0>>]
  /\ phase = "aligned" /\ ~Wholesale =>
       Cardinality(EqualPairs(pairs)) = lcs[<<0, 0>>]

\* A step of the walk takes an equal pair and the cell before it, or a change
\* and the cell that is no smaller.
LEMMA WalkStaysMinimal ==
  ASSUME DiffInv, WalkIsMinimal, [DiffNext]_diffVars
  PROVE  WalkIsMinimal'
<1>1. /\ Values /\ Len(left) \in Nat /\ Len(right) \in Nat
      /\ i \in Nat /\ j \in Nat /\ pairs \in Seq(Pairs)
  BY DEF DiffInv, DiffTypeOK, Values
<1>2. left' = left /\ right' = right
  BY DEF DiffNext, Align, Replace, StartWalk, TakeEqual, TakeDelete, TakeInsert,
     TakeRest, Filter, BuildHunks, SkipEqual, AddHunk, Finish, inputs, diffVars
<1>3. lcs' = lcs
  BY <1>2 DEF lcs
<1>4. phase \in {"start", "aligning"} => i <= Len(left) /\ j <= Len(right)
  BY DEF DiffInv, Spelling, Aligning
<1>5. ASSUME phase \in {"start", "aligning"}
      PROVE  <<i, j>> \in Cells /\ <<0, 0>> \in Cells
  BY <1>1, <1>4, <1>5 DEF Cells
<1>6. CASE Replace
  <2>1. Wholesale' /\ phase' = "aligned"
    BY <1>2, <1>6 DEF Replace, Wholesale
  <2> QED
    BY <2>1 DEF WalkIsMinimal
<1>7. CASE StartWalk
  <2>1. phase' = "aligning" /\ i' = 0 /\ j' = 0 /\ pairs' = << >>
    BY <1>7 DEF StartWalk, DiffInv, WalkEnds
  <2>2. Cardinality(EqualPairs(<< >>)) = 0
    <3>1. EqualPairs(<< >>) = {}
      BY DEF EqualPairs
    <3> QED
      BY <3>1, FS_EmptySet
  <2>3. lcs[<<0, 0>>] \in Nat
    BY <1>1, <1>5, <1>7, CellsCount DEF StartWalk
  <2>4. 0 + lcs[<<0, 0>>] = lcs[<<0, 0>>]
    BY <2>3
  <2>5. Cardinality(EqualPairs(pairs')) + lcs'[<<i', j'>>] = lcs'[<<0, 0>>]
    BY <1>3, <2>1, <2>2, <2>4
  <2> QED
    BY <2>1, <2>5 DEF WalkIsMinimal
<1>8. ASSUME Walking
      PROVE  /\ i < Len(left) /\ j < Len(right) /\ phase = "aligning"
             /\ lcs[<<i, j>>] \in Nat /\ lcs[<<i, j>>] = Entry(<<i, j>>, lcs)
             /\ Cardinality(EqualPairs(pairs)) \in Nat
             /\ Cardinality(EqualPairs(pairs)) + lcs[<<i, j>>] = lcs[<<0, 0>>]
             /\ lcs[<<i + 1, j + 1>>] \in Nat
             /\ lcs[<<i + 1, j>>] \in Nat
             /\ lcs[<<i, j + 1>>] \in Nat
  <2>1. i < Len(left) /\ j < Len(right) /\ phase = "aligning"
    BY <1>8 DEF Walking
  <2>2. /\ <<i + 1, j + 1>> \in Cells
        /\ <<i + 1, j>> \in Cells
        /\ <<i, j + 1>> \in Cells
    BY <1>1, <2>1 DEF Cells
  <2> QED
    BY <1>1, <1>5, <2>1, <2>2, CellsCount, EqualsAndChanges DEF WalkIsMinimal
<1>9. CASE TakeEqual
  <2>1. /\ Walking /\ left[i + 1] = right[j + 1]
        /\ pairs' = Append(pairs, Equal(left[i + 1])) /\ i' = i + 1 /\ j' = j + 1
        /\ phase' = "aligning"
    BY <1>9 DEF TakeEqual, Walking
  <2>2. Cardinality(EqualPairs(pairs')) = Cardinality(EqualPairs(pairs)) + 1
    <3>1. Equal(left[i + 1]).kind = "equal"
      BY DEF Equal
    <3> QED
      BY <1>1, <2>1, <3>1, OneMoreEqual
  <2>3. lcs[<<i, j>>] = 1 + lcs[<<i + 1, j + 1>>]
    <3>1. Entry(<<i, j>>, lcs) = 1 + lcs[<<i + 1, j + 1>>]
      BY <1>1, <1>8, <2>1 DEF Entry
    <3> QED
      BY <1>8, <2>1, <3>1
  <2>4. Cardinality(EqualPairs(pairs')) + lcs[<<i + 1, j + 1>>] = lcs[<<0, 0>>]
    <3>1. /\ Cardinality(EqualPairs(pairs)) \in Nat
          /\ lcs[<<i + 1, j + 1>>] \in Nat
          /\ Cardinality(EqualPairs(pairs)) + lcs[<<i, j>>] = lcs[<<0, 0>>]
      BY <1>8, <2>1
    <3> DEFINE count == Cardinality(EqualPairs(pairs))
               rest == lcs[<<i + 1, j + 1>>]
    <3>2. count + (1 + rest) = lcs[<<0, 0>>]
      BY <2>3, <3>1
    <3>3. (count + 1) + rest = count + (1 + rest)
      <4> HIDE DEF count, rest
      <4>1. count \in Nat /\ rest \in Nat
        BY <3>1 DEF count, rest
      <4> QED
        BY <4>1
    <3> QED
      BY <2>2, <3>2, <3>3
  <2>5. Cardinality(EqualPairs(pairs')) + lcs'[<<i', j'>>] = lcs'[<<0, 0>>]
    BY <1>3, <2>1, <2>4
  <2> QED
    BY <2>1, <2>5 DEF WalkIsMinimal
<1>10. ASSUME NEW x \in Pairs, x.kind # "equal", pairs' = Append(pairs, x)
       PROVE  EqualPairs(pairs') = EqualPairs(pairs)
  BY <1>1, <1>10 DEF EqualPairs
<1>11. CASE TakeDelete
  <2>1. /\ Walking /\ left[i + 1] # right[j + 1]
        /\ lcs[<<i + 1, j>>] >= lcs[<<i, j + 1>>]
        /\ pairs' = Append(pairs, Delete(left[i + 1])) /\ i' = i + 1 /\ j' = j
        /\ phase' = "aligning"
    BY <1>11 DEF TakeDelete, Walking, PreferDeletion
  <2>2. EqualPairs(pairs') = EqualPairs(pairs)
    <3>1. left[i + 1] \in Lines
      BY <1>1, <1>8, <2>1 DEF Values
    <3>2. Delete(left[i + 1]) \in Pairs /\ Delete(left[i + 1]).kind # "equal"
      BY <3>1, PairTypes, DeleteFields
    <3> QED
      BY <1>10, <2>1, <3>2
  <2>3. lcs[<<i, j>>] = lcs[<<i + 1, j>>]
    <3>1. Entry(<<i, j>>, lcs) = lcs[<<i + 1, j>>]
      BY <1>1, <1>8, <2>1 DEF Entry
    <3> QED
      BY <1>8, <2>1, <3>1
  <2>4. Cardinality(EqualPairs(pairs')) + lcs'[<<i', j'>>] = lcs'[<<0, 0>>]
    BY <1>3, <1>8, <2>1, <2>2, <2>3
  <2> QED
    BY <2>1, <2>4 DEF WalkIsMinimal
<1>12. CASE TakeInsert
  <2>1. /\ Walking /\ left[i + 1] # right[j + 1]
        /\ ~(lcs[<<i + 1, j>>] >= lcs[<<i, j + 1>>])
        /\ pairs' = Append(pairs, Insert(right[j + 1])) /\ i' = i /\ j' = j + 1
        /\ phase' = "aligning"
    BY <1>12 DEF TakeInsert, Walking, PreferDeletion
  <2>2. EqualPairs(pairs') = EqualPairs(pairs)
    <3>1. right[j + 1] \in Lines
      BY <1>1, <1>8, <2>1 DEF Values
    <3>2. Insert(right[j + 1]) \in Pairs /\ Insert(right[j + 1]).kind # "equal"
      BY <3>1, PairTypes, InsertFields
    <3> QED
      BY <1>10, <2>1, <3>2
  <2>3. lcs[<<i, j>>] = lcs[<<i, j + 1>>]
    <3>1. Entry(<<i, j>>, lcs) = lcs[<<i, j + 1>>]
      BY <1>1, <1>8, <2>1 DEF Entry
    <3> QED
      BY <1>8, <2>1, <3>1
  <2>4. Cardinality(EqualPairs(pairs')) + lcs'[<<i', j'>>] = lcs'[<<0, 0>>]
    BY <1>3, <1>8, <2>1, <2>2, <2>3
  <2> QED
    BY <2>1, <2>4 DEF WalkIsMinimal
<1>13. CASE TakeRest
  <2>1. /\ phase = "aligning" /\ ~(i < Len(left) /\ j < Len(right))
        /\ pairs' = pairs \o Deletes(i) \o Inserts(j) /\ phase' = "aligned"
    BY <1>13 DEF TakeRest
  <2>2. i = Len(left) \/ j = Len(right)
    BY <1>1, <1>4, <2>1
  <2>3. lcs[<<i, j>>] = 0
    <3>1. lcs[<<i, j>>] = Entry(<<i, j>>, lcs)
      BY <1>1, <1>5, <2>1, CellsCount
    <3> QED
      BY <2>2, <3>1 DEF Entry
  <2>4. EqualPairs(pairs') = EqualPairs(pairs)
    <3>1. i <= Len(left) /\ j <= Len(right)
      BY <1>4, <2>1
    <3>2. Deletes(i) \in Seq(Pairs) /\ \A k \in 1 .. Len(Deletes(i)) : Deletes(i)[k].kind # "equal"
      <4>1. Len(left) - i \in Nat
        BY <1>1, <3>1
      <4>2. \A k \in 1 .. Len(left) - i : left[i + k] \in Lines
        BY <1>1, <3>1 DEF Values
      <4>3. \A k \in 1 .. Len(left) - i : /\ Delete(left[i + k]) \in Pairs
                                           /\ Delete(left[i + k]).kind # "equal"
        BY <4>2, PairTypes, DeleteFields
      <4> QED
        BY <4>1, <4>3 DEF Deletes
    <3>3. Inserts(j) \in Seq(Pairs) /\ \A k \in 1 .. Len(Inserts(j)) : Inserts(j)[k].kind # "equal"
      <4>1. Len(right) - j \in Nat
        BY <1>1, <3>1
      <4>2. \A k \in 1 .. Len(right) - j : right[j + k] \in Lines
        BY <1>1, <3>1 DEF Values
      <4>3. \A k \in 1 .. Len(right) - j : /\ Insert(right[j + k]) \in Pairs
                                            /\ Insert(right[j + k]).kind # "equal"
        BY <4>2, PairTypes, InsertFields
      <4> QED
        BY <4>1, <4>3 DEF Inserts
    <3>4. pairs \o Deletes(i) \in Seq(Pairs)
      BY <1>1, <3>2
    <3>5. EqualPairs(pairs \o Deletes(i)) = EqualPairs(pairs)
      BY <1>1, <3>2, NoMoreEqual
    <3>6. EqualPairs((pairs \o Deletes(i)) \o Inserts(j)) = EqualPairs(pairs \o Deletes(i))
      BY <3>3, <3>4, NoMoreEqual
    <3> QED
      BY <2>1, <3>5, <3>6
  <2>5. Cardinality(EqualPairs(pairs)) + 0 = lcs[<<0, 0>>]
    BY <2>1, <2>3 DEF WalkIsMinimal
  <2>6. Cardinality(EqualPairs(pairs)) = lcs[<<0, 0>>]
    BY <1>1, <2>5, EqualsAndChanges
  <2>7. Cardinality(EqualPairs(pairs')) = lcs'[<<0, 0>>]
    BY <1>3, <2>4, <2>6
  <2> QED
    BY <2>1, <2>7 DEF WalkIsMinimal
<1>14. CASE phase' \in {"hunks", "done"}
  BY <1>14 DEF WalkIsMinimal
<1>15. CASE UNCHANGED diffVars
  <2>1. /\ phase' = phase /\ i' = i /\ j' = j /\ pairs' = pairs
        /\ Wholesale' = Wholesale
    BY <1>15 DEF diffVars, Wholesale
  <2> QED
    BY <1>3, <2>1 DEF WalkIsMinimal
<1>16. Filter \/ BuildHunks => phase' \in {"hunks", "done"}
  BY DEF Filter, BuildHunks, SkipEqual, AddHunk, Finish
<1> QED
  BY <1>6, <1>7, <1>9, <1>11, <1>12, <1>13, <1>14, <1>15, <1>16
     DEF DiffNext, Align

\* linediff.go 99-149: wherever the table is within its limit, no alignment of
\* the two values keeps more of their lines.
THEOREM AlignmentIsMinimal == DiffSpec => []AlignmentMinimal
<1>1. DiffInit => WalkIsMinimal
  BY DEF DiffInit, WalkIsMinimal
<1>2. DiffInv /\ WalkIsMinimal /\ [DiffNext]_diffVars => WalkIsMinimal'
  BY WalkStaysMinimal
<1>3. DiffInv /\ WalkIsMinimal => AlignmentMinimal
  <2> SUFFICES ASSUME DiffInv, WalkIsMinimal, phase = "aligned", ~Wholesale,
                      NEW n, n = Len(pairs) - Cardinality(Changes(pairs)) + 1,
                      NEW c \in Subsequences(left, n) \cap Subsequences(right, n)
               PROVE  FALSE
    BY DEF AlignmentMinimal
  <2>1. Values /\ pairs \in Seq(Pairs)
    BY DEF DiffInv, DiffTypeOK, Values
  <2>2. /\ Cardinality(EqualPairs(pairs)) \in Nat
        /\ n = Cardinality(EqualPairs(pairs)) + 1
    BY <2>1, EqualsAndChanges
  <2>3. n \in Nat /\ n > lcs[<<0, 0>>]
    BY <2>2 DEF WalkIsMinimal
  <2>4. n <= lcs[<<0, 0>>]
    BY <2>1, <2>3, NoLongerCommon
  <2>5. lcs[<<0, 0>>] \in Nat
    <3>1. <<0, 0>> \in Cells
      BY <2>1 DEF Cells, Values
    <3> QED
      BY <2>1, <3>1, CellsCount
  <2> QED
    BY <2>3, <2>4, <2>5
<1> QED
  BY <1>1, <1>2, <1>3, DiffInvariant, PTL DEF DiffSpec

=============================================================================
