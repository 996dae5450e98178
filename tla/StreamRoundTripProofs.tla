----------------------- MODULE StreamRoundTripProofs -----------------------
(***************************************************************************)
(* What the readers of stream_parser.go make of the streams its writers    *)
(* write, for records of every number and size, fragments of every size,   *)
(* every limit, every width of a header word, every alphabet of base64     *)
(* without blanks, and every cut: first for the two binary framings, then  *)
(* for lines of text.                                                      *)
(***************************************************************************)
EXTENDS StreamRoundTrip, StreamParserProofs

-----------------------------------------------------------------------------
(***************************************************************************)
(* Sequences of sequences, joined one after the other.                     *)
(***************************************************************************)
\* The function by which FlattenSeq is defined, up to m.
Flattens(f, seqs, m) ==
  f = [i \in 1 .. m |-> IF i = 1 THEN seqs[i] ELSE f[i - 1] \o seqs[i]]

\* It can be taken one element further.
LEMMA FlattensOneMore ==
  ASSUME NEW seqs, NEW m \in Nat, m > 1, NEW g, Flattens(g, seqs, m - 1)
  PROVE  \E f : Flattens(f, seqs, m)
<1> DEFINE last == g[m - 1] \o seqs[m]
           h == [i \in 1 .. m |-> IF i < m THEN g[i] ELSE last]
<1>1. \A i \in 1 .. (m - 1) : g[i] = IF i = 1 THEN seqs[i] ELSE g[i - 1] \o seqs[i]
  BY DEF Flattens
<1>2. last = g[m - 1] \o seqs[m]
  OBVIOUS
<1> HIDE DEF last
<1>3. \A i \in 1 .. m : h[i] = IF i < m THEN g[i] ELSE last
  OBVIOUS
<1>7. h = [i \in 1 .. m |-> h[i]]
  OBVIOUS
<1> HIDE DEF h
<1>4. ASSUME NEW i \in 1 .. m
      PROVE  h[i] = IF i = 1 THEN seqs[i] ELSE h[i - 1] \o seqs[i]
  <2>1. CASE i < m
    <3>1. i \in 1 .. (m - 1) /\ h[i] = g[i]
      BY <1>3, <2>1
    <3>2. i # 1 => i - 1 \in 1 .. m /\ i - 1 < m
      BY <2>1
    <3>3. i # 1 => h[i - 1] = g[i - 1]
      BY <1>3, <3>2
    <3> QED
      BY <1>1, <3>1, <3>3
  <2>2. CASE i = m
    <3>1. h[i] = last
      BY <1>3, <2>2
    <3>2. i # 1 /\ i - 1 \in 1 .. m /\ i - 1 < m
      BY <2>2
    <3>3. h[i - 1] = g[i - 1]
      BY <1>3, <3>2
    <3> QED
      BY <1>2, <2>2, <3>1, <3>2, <3>3
  <2> QED
    BY <2>1, <2>2
<1>5. h = [i \in 1 .. m |-> IF i = 1 THEN seqs[i] ELSE h[i - 1] \o seqs[i]]
  BY <1>4, <1>7, Zenon
<1> QED
  BY <1>5 DEF Flattens

\* There is such a function for every sequence.
LEMMA FlattensExists ==
  ASSUME NEW seqs, NEW n \in Nat, n # 0
  PROVE  \E f : Flattens(f, seqs, n)
<1> DEFINE Bad == {m \in Nat : m # 0 /\ ~ \E f : Flattens(f, seqs, m)}
<1>1. SUFFICES ASSUME Bad # {} PROVE FALSE
  OBVIOUS
<1>2. Bad \in SUBSET Nat
  OBVIOUS
<1>3. PICK m \in Bad : \A k \in Bad : m <= k
  <2> HIDE DEF Bad
  <2> QED
    BY <1>1, <1>2, LeastExists
<1>4. m \in Nat /\ m # 0 /\ ~ \E f : Flattens(f, seqs, m)
  OBVIOUS
<1>5. CASE m = 1
  <2>1. Flattens([i \in 1 .. 1 |-> seqs[1]], seqs, 1)
    BY DEF Flattens
  <2> QED
    BY <1>4, <1>5, <2>1
<1>6. CASE m # 1
  <2>1. m - 1 \in Nat /\ m - 1 # 0 /\ m > 1 /\ ~(m <= m - 1)
    BY <1>4, <1>6
  <2>2. m - 1 \notin Bad
    <3> HIDE DEF Bad
    <3> QED
      BY <1>3, <2>1
  <2>3. \E g : Flattens(g, seqs, m - 1)
    BY <2>1, <2>2
  <2> QED
    BY <1>4, <2>1, <2>3, FlattensOneMore
<1> QED
  BY <1>5, <1>6

\* Its values, for all of a sequence.
Chain(f, seqs) ==
  \A i \in 1 .. Len(seqs) : f[i] = IF i = 1 THEN seqs[i] ELSE f[i - 1] \o seqs[i]

\* FlattenSeq is the last of them.
LEMMA FlattenSeqIs ==
  ASSUME NEW T, NEW seqs \in Seq(T), seqs # << >>
  PROVE  \E f : Chain(f, seqs) /\ FlattenSeq(seqs) = f[Len(seqs)]
<1> DEFINE flatten == CHOOSE f : Flattens(f, seqs, Len(seqs))
<1>1. Len(seqs) \in Nat /\ Len(seqs) # 0
  OBVIOUS
<1>2. Flattens(flatten, seqs, Len(seqs))
  BY <1>1, FlattensExists, Zenon
<1>3. FlattenSeq(seqs) = flatten[Len(seqs)]
  BY <1>1 DEF FlattenSeq, Flattens
<1>4. Chain(flatten, seqs)
  <2> HIDE DEF flatten
  <2> QED
    BY <1>2 DEF Chain, Flattens
<1> QED
  BY <1>3, <1>4

\* They agree where the sequences do.
LEMMA ChainsAgree ==
  ASSUME NEW T, NEW s \in Seq(T), NEW t \in Seq(T), Len(s) <= Len(t),
         \A i \in 1 .. Len(s) : s[i] = t[i],
         NEW f, NEW g, Chain(f, s), Chain(g, t)
  PROVE  \A i \in 1 .. Len(s) : f[i] = g[i]
<1> DEFINE Bad == {i \in 1 .. Len(s) : f[i] # g[i]}
<1>1. SUFFICES ASSUME Bad # {} PROVE FALSE
  OBVIOUS
<1>2. Bad \in SUBSET Nat
  OBVIOUS
<1>3. PICK k \in Bad : \A i \in Bad : k <= i
  <2> HIDE DEF Bad
  <2> QED
    BY <1>1, <1>2, LeastExists
<1>4. k \in 1 .. Len(s) /\ k \in 1 .. Len(t) /\ f[k] # g[k]
  OBVIOUS
<1>5. CASE k = 1
  BY <1>4, <1>5 DEF Chain
<1>6. CASE k # 1
  <2>1. k - 1 \in 1 .. Len(s) /\ ~(k <= k - 1)
    BY <1>4, <1>6
  <2>2. k - 1 \notin Bad
    <3> HIDE DEF Bad
    <3> QED
      BY <1>3, <2>1
  <2>3. f[k - 1] = g[k - 1]
    BY <2>1, <2>2
  <2> QED
    BY <1>4, <1>6, <2>3 DEF Chain
<1> QED
  BY <1>5, <1>6

\* The first k elements of a sequence of sequences, joined.
Joined(seqs, k) == FlattenSeq(SubSeq(seqs, 1, k))

\* What the first k elements of a sequence are.
LEMMA FirstElements ==
  ASSUME NEW T, NEW seqs \in Seq(T), NEW k \in 0 .. Len(seqs)
  PROVE  /\ SubSeq(seqs, 1, k) \in Seq(T) /\ Len(SubSeq(seqs, 1, k)) = k
         /\ \A i \in 1 .. k : SubSeq(seqs, 1, k)[i] = seqs[i]
<1>1. 1 \in 1 .. (Len(seqs) + 1) /\ k \in (1 - 1) .. Len(seqs)
  OBVIOUS
<1>2. \A i \in 1 .. k : seqs[i] \in T
  OBVIOUS
<1> QED
  BY <1>1, <1>2, SubSeqProperties

\* Joining two sequences.
LEMMA JoinTwo ==
  ASSUME NEW T, NEW a \in Seq(T), NEW b \in Seq(T)
  PROVE  /\ a \o b \in Seq(T) /\ Len(a \o b) = Len(a) + Len(b) /\ Len(a) \in Nat /\ Len(b) \in Nat
         /\ \A q \in 1 .. Len(a) : (a \o b)[q] = a[q]
         /\ \A q \in 1 .. Len(b) : (a \o b)[Len(a) + q] = b[q]
OBVIOUS

\* Joining nothing, and one element more.
LEMMA JoinedNothing ==
  ASSUME NEW T, NEW seqs \in Seq(Seq(T))
  PROVE  Joined(seqs, 0) = << >>
<1>1. Len(SubSeq(seqs, 1, 0)) = 0 /\ SubSeq(seqs, 1, 0) \in Seq(T)
  BY FirstElements
<1>2. SubSeq(seqs, 1, 0) = << >>
  BY <1>1
<1> QED
  BY <1>1, <1>2 DEF Joined, FlattenSeq

\* The first of them alone.
LEMMA JoinedFirst ==
  ASSUME NEW T, NEW seqs \in Seq(Seq(T)), Len(seqs) >= 1
  PROVE  Joined(seqs, 1) = seqs[1]
<1> DEFINE t == SubSeq(seqs, 1, 1)
<1>1. t \in Seq(Seq(T)) /\ Len(t) = 1 /\ t[1] = seqs[1]
  <2>1. 1 \in 0 .. Len(seqs) /\ 1 \in 1 .. 1
    OBVIOUS
  <2> QED
    BY <2>1, FirstElements
<1>2. t # << >>
  BY <1>1
<1>3. PICK g : Chain(g, t) /\ FlattenSeq(t) = g[Len(t)]
  <2> HIDE DEF t
  <2> QED
    BY <1>1, <1>2, FlattenSeqIs
<1>4. g[1] = t[1]
  BY <1>1, <1>3 DEF Chain
<1> QED
  BY <1>1, <1>3, <1>4 DEF Joined

\* A sequence that is one element longer joins to one element more.
LEMMA FlattenOneMore ==
  ASSUME NEW T, NEW s \in Seq(T), NEW t \in Seq(T), s # << >>, Len(t) = Len(s) + 1,
         \A i \in 1 .. Len(s) : s[i] = t[i]
  PROVE  FlattenSeq(t) = FlattenSeq(s) \o t[Len(t)]
<1>1. t # << >> /\ Len(s) <= Len(t)
  OBVIOUS
<1>2. PICK g : Chain(g, t) /\ FlattenSeq(t) = g[Len(t)]
  BY <1>1, FlattenSeqIs
<1>3. PICK f : Chain(f, s) /\ FlattenSeq(s) = f[Len(s)]
  BY FlattenSeqIs
<1>4. Chain(f, s) /\ Chain(g, t)
  BY <1>2, <1>3
<1>5. \A i \in 1 .. Len(s) : f[i] = g[i]
  BY <1>1, <1>4, ChainsAgree
<1>6. Len(s) \in 1 .. Len(s) /\ Len(t) \in 1 .. Len(t) /\ Len(t) # 1 /\ Len(t) - 1 = Len(s)
  OBVIOUS
<1>7. g[Len(t)] = g[Len(t) - 1] \o t[Len(t)]
  BY <1>4, <1>6 DEF Chain
<1> QED
  BY <1>2, <1>3, <1>5, <1>6, <1>7

\* So joining k of them appends the last to what the others join to.
LEMMA JoinedNext ==
  ASSUME NEW T, NEW seqs \in Seq(Seq(T)), NEW k \in 2 .. Len(seqs)
  PROVE  Joined(seqs, k) = Joined(seqs, k - 1) \o seqs[k]
<1> DEFINE s == SubSeq(seqs, 1, k - 1)
           t == SubSeq(seqs, 1, k)
<1>1. t \in Seq(Seq(T)) /\ Len(t) = k /\ \A i \in 1 .. k : t[i] = seqs[i]
  <2>1. k \in 0 .. Len(seqs)
    OBVIOUS
  <2> QED
    BY <2>1, FirstElements
<1>2. s \in Seq(Seq(T)) /\ Len(s) = k - 1 /\ \A i \in 1 .. (k - 1) : s[i] = seqs[i]
  <2>1. k - 1 \in 0 .. Len(seqs)
    OBVIOUS
  <2> QED
    BY <2>1, FirstElements
<1>3. Joined(seqs, k) = FlattenSeq(t) /\ Joined(seqs, k - 1) = FlattenSeq(s)
  BY DEF Joined
<1> HIDE DEF s, t
<1>4. Len(t) = Len(s) + 1
  BY <1>1, <1>2
<1>5. \A i \in 1 .. Len(s) : s[i] = t[i]
  <2>1. \A i \in 1 .. (k - 1) : i \in 1 .. k
    OBVIOUS
  <2> QED
    BY <1>1, <1>2, <2>1
<1>6. s # << >>
  BY <1>2
<1>7. FlattenSeq(t) = FlattenSeq(s) \o t[Len(t)]
  BY <1>1, <1>2, <1>4, <1>5, <1>6, FlattenOneMore
<1>8. k \in 1 .. k
  OBVIOUS
<1> QED
  BY <1>1, <1>3, <1>7, <1>8

\* Each step of the joining, with its type.
LEMMA JoinedStep ==
  ASSUME NEW T, NEW seqs \in Seq(Seq(T)), NEW k \in 1 .. Len(seqs),
         Joined(seqs, k - 1) \in Seq(T)
  PROVE  Joined(seqs, k) = Joined(seqs, k - 1) \o seqs[k]
<1>1. CASE k = 1
  <2>1. Joined(seqs, 0) = << >>
    BY JoinedNothing
  <2>2. Joined(seqs, 1) = seqs[1] /\ seqs[1] \in Seq(T)
    BY <1>1, JoinedFirst
  <2>3. << >> \o seqs[1] = seqs[1]
    BY <2>2
  <2> QED
    BY <1>1, <2>1, <2>2, <2>3
<1>2. CASE k # 1
  <2>1. k \in 2 .. Len(seqs)
    BY <1>2
  <2> QED
    BY <2>1, JoinedNext
<1> QED
  BY <1>1, <1>2

\* What is joined is a sequence of the elements' elements.
LEMMA JoinedType ==
  ASSUME NEW T, NEW seqs \in Seq(Seq(T)), NEW k \in 0 .. Len(seqs)
  PROVE  Joined(seqs, k) \in Seq(T)
<1> DEFINE Bad == {i \in 0 .. Len(seqs) : Joined(seqs, i) \notin Seq(T)}
<1>1. SUFFICES ASSUME Bad # {} PROVE FALSE
  OBVIOUS
<1>2. Bad \in SUBSET Nat
  OBVIOUS
<1>3. PICK b \in Bad : \A i \in Bad : b <= i
  <2> HIDE DEF Bad
  <2> QED
    BY <1>1, <1>2, LeastExists
<1>4. b \in 0 .. Len(seqs) /\ Joined(seqs, b) \notin Seq(T)
  OBVIOUS
<1>5. CASE b = 0
  <2>1. Joined(seqs, 0) = << >>
    BY JoinedNothing
  <2>2. << >> \in Seq(T)
    OBVIOUS
  <2> QED
    BY <1>4, <1>5, <2>1, <2>2
<1>6. CASE b # 0
  <2>1. b - 1 \in 0 .. Len(seqs) /\ ~(b <= b - 1) /\ b \in 1 .. Len(seqs)
    BY <1>4, <1>6
  <2>2. b - 1 \notin Bad
    <3> HIDE DEF Bad
    <3> QED
      BY <1>3, <2>1
  <2>3. Joined(seqs, b - 1) \in Seq(T)
    BY <2>1, <2>2
  <2>4. Joined(seqs, b) = Joined(seqs, b - 1) \o seqs[b]
    BY <2>1, <2>3, JoinedStep
  <2>5. seqs[b] \in Seq(T)
    BY <2>1
  <2> QED
    BY <1>4, <2>3, <2>4, <2>5, JoinTwo
<1> QED
  BY <1>5, <1>6

\* Joining all of it is FlattenSeq.
LEMMA JoinedAll ==
  ASSUME NEW T, NEW seqs \in Seq(Seq(T))
  PROVE  Joined(seqs, Len(seqs)) = FlattenSeq(seqs)
<1>1. SubSeq(seqs, 1, Len(seqs)) = seqs
  <2>1. Len(seqs) \in 0 .. Len(seqs)
    OBVIOUS
  <2>2. /\ SubSeq(seqs, 1, Len(seqs)) \in Seq(Seq(T)) /\ Len(SubSeq(seqs, 1, Len(seqs))) = Len(seqs)
        /\ \A i \in 1 .. Len(seqs) : SubSeq(seqs, 1, Len(seqs))[i] = seqs[i]
    BY <2>1, FirstElements
  <2> HIDE DEF SubSeq
  <2> QED
    BY <2>2, SeqEqual
<1> QED
  BY <1>1 DEF Joined

\* What is joined first stays where it is.
LEMMA JoinedKeeps ==
  ASSUME NEW T, NEW seqs \in Seq(Seq(T)), NEW j \in 0 .. Len(seqs), NEW k \in j .. Len(seqs)
  PROVE  /\ Len(Joined(seqs, j)) <= Len(Joined(seqs, k))
         /\ \A q \in 1 .. Len(Joined(seqs, j)) : Joined(seqs, k)[q] = Joined(seqs, j)[q]
<1> DEFINE Fits(i) == /\ Len(Joined(seqs, j)) <= Len(Joined(seqs, i))
                      /\ \A q \in 1 .. Len(Joined(seqs, j)) : Joined(seqs, i)[q] = Joined(seqs, j)[q]
           Bad == {i \in j .. Len(seqs) : ~Fits(i)}
<1>1. SUFFICES ASSUME Bad # {} PROVE FALSE
  OBVIOUS
<1>2. Bad \in SUBSET Nat
  OBVIOUS
<1>3. PICK b \in Bad : \A i \in Bad : b <= i
  <2> HIDE DEF Bad
  <2> QED
    BY <1>1, <1>2, LeastExists
<1>4. b \in j .. Len(seqs) /\ ~Fits(b)
  OBVIOUS
<1>5. CASE b = j
  <2>1. Joined(seqs, j) \in Seq(T)
    BY JoinedType
  <2>2. Fits(j)
    BY <2>1
  <2> QED
    BY <1>4, <1>5, <2>2
<1>6. CASE b # j
  <2>1. b - 1 \in j .. Len(seqs) /\ ~(b <= b - 1) /\ b \in 1 .. Len(seqs) /\ b - 1 \in 0 .. Len(seqs)
    BY <1>4, <1>6
  <2>2. b - 1 \notin Bad
    <3> HIDE DEF Bad
    <3> QED
      BY <1>3, <2>1
  <2>3. Fits(b - 1)
    BY <2>1, <2>2
  <2>4. Joined(seqs, b - 1) \in Seq(T)
    BY <2>1, JoinedType
  <2>5. Joined(seqs, b) = Joined(seqs, b - 1) \o seqs[b]
    BY <2>1, <2>4, JoinedStep
  <2>9. seqs[b] \in Seq(T)
    BY <2>1
  <2> HIDE DEF Bad, Fits
  <2>6. Len(Joined(seqs, b)) >= Len(Joined(seqs, b - 1)) /\ \A q \in 1 .. Len(Joined(seqs, b - 1)) : Joined(seqs, b)[q] = Joined(seqs, b - 1)[q]
    <3> DEFINE a == Joined(seqs, b - 1)
               c == seqs[b]
    <3>1. a \in Seq(T) /\ c \in Seq(T) /\ Joined(seqs, b) = a \o c
      BY <2>4, <2>5, <2>9
    <3> HIDE DEF a, c
    <3>2. Len(a \o c) >= Len(a) /\ \A q \in 1 .. Len(a) : (a \o c)[q] = a[q]
      BY <3>1, JoinTwo
    <3> QED
      BY <3>1, <3>2 DEF a
  <2>7. Joined(seqs, j) \in Seq(T) /\ Joined(seqs, b) \in Seq(T)
    <3>1. b \in 0 .. Len(seqs)
      BY <2>1
    <3> QED
      BY <3>1, JoinedType
  <2>8. Fits(b)
    BY <2>3, <2>4, <2>6, <2>7 DEF Fits
  <2> QED
    BY <1>4, <2>8
<1> QED
  BY <1>5, <1>6

\* Where the elements of a sequence of sequences stand when they are joined.
LEMMA JoinedBlocks ==
  ASSUME NEW T, NEW seqs \in Seq(Seq(T)), NEW k \in 1 .. Len(seqs)
  PROVE  /\ Len(Joined(seqs, k - 1)) \in Nat
         /\ Len(Joined(seqs, k)) = Len(Joined(seqs, k - 1)) + Len(seqs[k])
         /\ Len(Joined(seqs, k)) <= Len(FlattenSeq(seqs))
         /\ \A q \in 1 .. Len(seqs[k]) : FlattenSeq(seqs)[Len(Joined(seqs, k - 1)) + q] = seqs[k][q]
<1>1. k - 1 \in 0 .. Len(seqs) /\ k \in 0 .. Len(seqs) /\ Len(seqs) \in k .. Len(seqs)
  OBVIOUS
<1>2. Joined(seqs, k - 1) \in Seq(T) /\ Joined(seqs, k) \in Seq(T) /\ seqs[k] \in Seq(T)
  BY <1>1, JoinedType
<1>3. Joined(seqs, k) = Joined(seqs, k - 1) \o seqs[k]
  BY <1>2, JoinedStep
<1>4. FlattenSeq(seqs) = Joined(seqs, Len(seqs))
  BY JoinedAll
<1>5. Len(Joined(seqs, k)) = Len(Joined(seqs, k - 1)) + Len(seqs[k])
      /\ \A q \in 1 .. Len(seqs[k]) : Joined(seqs, k)[Len(Joined(seqs, k - 1)) + q] = seqs[k][q]
  <2> DEFINE a == Joined(seqs, k - 1)
             b == seqs[k]
  <2>1. a \in Seq(T) /\ b \in Seq(T) /\ Joined(seqs, k) = a \o b
    BY <1>2, <1>3
  <2> HIDE DEF a, b
  <2>2. Len(a \o b) = Len(a) + Len(b) /\ \A q \in 1 .. Len(b) : (a \o b)[Len(a) + q] = b[q]
    BY <2>1, JoinTwo
  <2> QED
    BY <2>1, <2>2, Zenon DEF a, b
<1>6. Len(Joined(seqs, k)) <= Len(FlattenSeq(seqs))
      /\ \A q \in 1 .. Len(Joined(seqs, k)) : FlattenSeq(seqs)[q] = Joined(seqs, k)[q]
  BY <1>1, <1>4, JoinedKeeps
<1>7. Len(Joined(seqs, k - 1)) \in Nat /\ Len(seqs[k]) \in Nat
  BY <1>2
<1>8. \A q \in 1 .. Len(seqs[k]) : Len(Joined(seqs, k - 1)) + q \in 1 .. Len(Joined(seqs, k))
  <2> DEFINE x == Len(Joined(seqs, k - 1))
             y == Len(seqs[k])
             z == Len(Joined(seqs, k))
  <2>1. x \in Nat /\ y \in Nat /\ z = x + y
    BY <1>5, <1>7
  <2> HIDE DEF x, y, z
  <2>2. \A q \in 1 .. y : x + q \in 1 .. z
    BY <2>1
  <2> QED
    BY <2>2 DEF x, y, z
<1> QED
  BY <1>5, <1>6, <1>7, <1>8

-----------------------------------------------------------------------------
(***************************************************************************)
(* Words, and how a record is cut into fragments.                          *)
(***************************************************************************)
\* Division with a remainder.
LEMMA Quotient ==
  ASSUME NEW a \in Nat, NEW n \in Nat, n > 0
  PROVE  /\ a \div n \in Nat /\ a % n \in Nat /\ a % n < n
         /\ a = (a \div n) * n + (a % n)
OBVIOUS

\* A product grows with its factor.
LEMMA Multiples ==
  ASSUME NEW a \in Nat, NEW b \in Nat, NEW n \in Nat
  PROVE  /\ a * n \in Nat /\ (a + 1) * n = a * n + n
         /\ a <= b => a * n <= b * n
         /\ a * n < b * n => a < b
OBVIOUS

\* PutUint32 writes a word in two units, the high one first, and reading them back
\* gives the word.
LEMMA WordParts ==
  ASSUME NEW h \in Nat, h < WordSpan
  PROVE  /\ PutUint32(h) \in Seq(Units) /\ Len(PutUint32(h)) = HeaderLen
         /\ PutUint32(h)[1] * Radix + PutUint32(h)[2] = h
         /\ PutUint32(h)[1] = h \div Radix /\ PutUint32(h)[2] = h % Radix
<1>1. Radix \in Nat /\ Radix > 0 /\ WordSpan = Radix * Radix
  BY WordWidth, RadixAssumption DEF WordSpan, RFC5531LastFragMask, Radix
<1>2. /\ h \div Radix \in Nat /\ h % Radix \in Nat /\ h % Radix < Radix
      /\ h = (h \div Radix) * Radix + (h % Radix)
  BY <1>1, Quotient
<1>3. (h \div Radix) * Radix < Radix * Radix
  BY <1>1, <1>2, Multiples
<1>4. h \div Radix < Radix
  BY <1>1, <1>2, <1>3, Multiples
<1>5. h \div Radix \in Units /\ h % Radix \in Units
  BY <1>1, <1>2, <1>4 DEF Units
<1> QED
  BY <1>2, <1>5 DEF PutUint32, HeaderLen

\* How a record of n units is cut: the number of its fragments, and where each
\* of them starts, in the record and with the headers counted, and its size.
Count(n, m) == IF m = 0 \/ m >= n THEN 1 ELSE (n + m - 1) \div m
StartOf(m, f) == (f - 1) * m
SizeOf(n, m, f) == IF f = Count(n, m) THEN n - StartOf(m, f) ELSE m
PlaceOf(m, f) == StartOf(m, f) + HeaderLen * (f - 1)

\* The fragments of WriteRecordMarking follow each other without a gap, the last
\* one ends with the record, and all the others are full.
LEMMA Cuts ==
  ASSUME NEW n \in Nat, NEW m \in Nat
  PROVE  /\ Count(n, m) \in Nat \ {0} /\ StartOf(m, 1) = 0
         /\ \A f \in 1 .. Count(n, m) :
              /\ StartOf(m, f) \in Nat /\ SizeOf(n, m, f) \in Nat
              /\ StartOf(m, f) + SizeOf(n, m, f) <= n
              /\ f = Count(n, m) => StartOf(m, f) + SizeOf(n, m, f) = n
              /\ f # Count(n, m) => /\ SizeOf(n, m, f) = m /\ 0 < m /\ m < n
                                    /\ StartOf(m, f + 1) = StartOf(m, f) + m
                                    /\ StartOf(m, f + 1) < n
              /\ 0 < m /\ m < n => SizeOf(n, m, f) > 0 /\ SizeOf(n, m, f) <= m
<1>1. CASE m = 0 \/ m >= n
  <2>1. Count(n, m) = 1 /\ StartOf(m, 1) = 0
    BY <1>1 DEF Count, StartOf
  <2>2. SizeOf(n, m, 1) = n
    BY <2>1 DEF SizeOf
  <2> QED
    BY <1>1, <2>1, <2>2
<1>2. CASE m # 0 /\ m < n
  <2> DEFINE c == (n + m - 1) \div m
  <2>1. /\ n + m - 1 \in Nat /\ c \in Nat /\ (n + m - 1) % m \in Nat /\ (n + m - 1) % m < m
        /\ n + m - 1 = c * m + ((n + m - 1) % m)
    <3>1. n + m - 1 \in Nat /\ m > 0
      BY <1>2
    <3> QED
      BY <3>1, Quotient
  <2>2. Count(n, m) = c
    BY <1>2 DEF Count
  <2> HIDE DEF c
  <2>3. c * m \in Nat /\ c * m < n + m /\ n <= c * m
    BY <2>1, Multiples
  <2>4. c > 0
    <3>1. CASE c = 0
      <4>1. c * m = 0
        BY <3>1
      <4> QED
        BY <2>3, <4>1, <1>2
    <3> QED
      BY <2>1, <3>1
  <2>5. ASSUME NEW f \in 1 .. c
        PROVE  /\ StartOf(m, f) \in Nat /\ StartOf(m, f) < n
               /\ StartOf(m, f + 1) = StartOf(m, f) + m
               /\ StartOf(m, f + 1) \in Nat
               /\ f # c => StartOf(m, f + 1) < n
               /\ f = c => n <= StartOf(m, f + 1)
    <3>1. f - 1 \in Nat /\ f \in Nat /\ (f - 1) + 1 = f /\ (f + 1) - 1 = f /\ f <= c /\ c - 1 \in Nat /\ (c - 1) + 1 = c /\ f - 1 <= c - 1
      BY <2>1, <2>4
    <3>2. f * m = (f - 1) * m + m /\ (f - 1) * m \in Nat
      BY <3>1, Multiples
    <3>3. c * m = (c - 1) * m + m /\ (c - 1) * m \in Nat
      BY <3>1, Multiples
    <3>4. (c - 1) * m < n
      BY <2>3, <3>3
    <3>5. (f - 1) * m <= (c - 1) * m
      BY <3>1, Multiples
    <3>6. f # c => f * m <= (c - 1) * m
      <4> SUFFICES ASSUME f # c PROVE f * m <= (c - 1) * m
        OBVIOUS
      <4>1. f <= c - 1
        BY <3>1
      <4> QED
        BY <3>1, <4>1, Multiples
    <3>7. StartOf(m, f) = (f - 1) * m /\ StartOf(m, f + 1) = f * m
      BY <3>1 DEF StartOf
    <3> QED
      BY <2>3, <3>2, <3>3, <3>4, <3>5, <3>6, <3>7
  <2>6. StartOf(m, 1) = 0
    BY DEF StartOf
  <2>7. ASSUME NEW f \in 1 .. c
        PROVE  /\ SizeOf(n, m, f) = IF f = c THEN n - StartOf(m, f) ELSE m
    BY <2>2 DEF SizeOf
  <2> QED
    BY <1>2, <2>1, <2>2, <2>4, <2>5, <2>6, <2>7
<1> QED
  BY <1>1, <1>2

-----------------------------------------------------------------------------
(***************************************************************************)
(* A record as the binary writers frame it.                                *)
(***************************************************************************)
\* A header and the data behind it.
LEMMA HeaderAndData ==
  ASSUME NEW h \in Nat, h < WordSpan, NEW d \in Seq(Units)
  PROVE  LET b == PutUint32(h) \o d IN
         /\ b \in Seq(Units) /\ Len(b) = HeaderLen + Len(d)
         /\ b[1] = h \div Radix /\ b[2] = h % Radix
         /\ \A q \in 1 .. Len(d) : b[HeaderLen + q] = d[q]
<1> DEFINE x == PutUint32(h)
           b == x \o d
<1>1. /\ x \in Seq(Units) /\ Len(x) = HeaderLen
      /\ x[1] = h \div Radix /\ x[2] = h % Radix
  BY WordParts
<1> HIDE DEF x
<1>2. /\ b \in Seq(Units) /\ Len(b) = Len(x) + Len(d)
      /\ \A q \in 1 .. Len(x) : b[q] = x[q]
      /\ \A q \in 1 .. Len(d) : b[Len(x) + q] = d[q]
  <2>1. x \in Seq(Units) /\ d \in Seq(Units)
    BY <1>1
  <2>2. /\ x \o d \in Seq(Units) /\ Len(x \o d) = Len(x) + Len(d)
        /\ \A q \in 1 .. Len(x) : (x \o d)[q] = x[q]
        /\ \A q \in 1 .. Len(d) : (x \o d)[Len(x) + q] = d[q]
    BY <2>1
  <2> QED
    BY <2>2
<1> HIDE DEF b
<1>3. 1 \in 1 .. Len(x) /\ 2 \in 1 .. Len(x)
  BY <1>1 DEF HeaderLen
<1>4. b[1] = h \div Radix /\ b[2] = h % Radix
  <2>1. b[1] = x[1] /\ b[2] = x[2]
    BY <1>2, <1>3, Zenon
  <2> QED
    BY <1>1, <2>1, Zenon
<1>5. \A q \in 1 .. Len(d) : b[HeaderLen + q] = d[q]
  BY <1>1, <1>2, Zenon
<1>6. Len(b) = HeaderLen + Len(d)
  BY <1>1, <1>2, Zenon
<1> QED
  BY <1>2, <1>4, <1>5, <1>6, Zenon DEF b, x

\* The value of the header of fragment f, and what a framed record looks like.
HeadOf(w, n, f) ==
  IF w.framing = "recordMarking" /\ f = Count(n, w.frag)
  THEN RFC5531LastFragMask + SizeOf(n, w.frag, f) ELSE SizeOf(n, w.frag, f)

\* Fragment f of a record stands where it should in the framed record b: its
\* header, and the data behind it.
FragmentAt(b, rec, w, f) ==
  LET p == PlaceOf(w.frag, f)
      s == SizeOf(Len(rec), w.frag, f)
  IN  /\ p \in Nat /\ s \in Nat
      /\ p + HeaderLen + s <= Len(b)
      /\ b[p + 1] = HeadOf(w, Len(rec), f) \div Radix
      /\ b[p + 2] = HeadOf(w, Len(rec), f) % Radix
      /\ \A q \in 1 .. s : b[p + HeaderLen + q] = rec[StartOf(w.frag, f) + q]
      /\ IF f = Count(Len(rec), w.frag) THEN p + HeaderLen + s = Len(b)
         ELSE p + HeaderLen + s = PlaceOf(w.frag, f + 1)

\* All of them do.
LaidOut(b, rec, w) ==
  /\ b \in Seq(Units)
  /\ \A f \in 1 .. Count(Len(rec), w.frag) : FragmentAt(b, rec, w, f)

\* The header of a record that is short enough fits a word, and its length field
\* leaves the last-fragment bit alone.
LEMMA HeadFits ==
  ASSUME NEW n \in Nat, n < RFC5531LastFragMask, NEW w \in Writers, w.frag \in Nat,
         NEW f \in 1 .. Count(n, w.frag)
  PROVE  /\ HeadOf(w, n, f) \in Nat /\ HeadOf(w, n, f) < WordSpan
         /\ SizeOf(n, w.frag, f) \in Nat /\ SizeOf(n, w.frag, f) < RFC5531LastFragMask
<1>1. SizeOf(n, w.frag, f) \in Nat /\ SizeOf(n, w.frag, f) <= n
  <2>1. /\ StartOf(w.frag, f) \in Nat /\ SizeOf(n, w.frag, f) \in Nat
        /\ StartOf(w.frag, f) + SizeOf(n, w.frag, f) <= n
    BY Cuts
  <2> QED
    BY <2>1
<1> QED
  BY <1>1, WordWidth DEF HeadOf

\* A record in one piece.
LEMMA OnePiece ==
  ASSUME NEW rec \in Seq(Units), Len(rec) < RFC5531LastFragMask, NEW w \in Writers,
         w.frag \in Nat, w.frag = 0 \/ w.frag >= Len(rec)
  PROVE  LaidOut(PutUint32(HeadOf(w, Len(rec), 1)) \o rec, rec, w)
<1> DEFINE n == Len(rec)
           h == HeadOf(w, n, 1)
           b == PutUint32(h) \o rec
<1>1. n \in Nat /\ Count(n, w.frag) = 1 /\ 1 \in 1 .. Count(n, w.frag)
  BY DEF Count
<1>2. StartOf(w.frag, 1) = 0 /\ PlaceOf(w.frag, 1) = 0 /\ SizeOf(n, w.frag, 1) = n
  BY <1>1 DEF StartOf, PlaceOf, SizeOf, HeaderLen
<1>3. h \in Nat /\ h < WordSpan
  BY <1>1, HeadFits
<1> HIDE DEF h
<1>4. /\ b \in Seq(Units) /\ Len(b) = HeaderLen + n
      /\ b[1] = h \div Radix /\ b[2] = h % Radix
      /\ \A q \in 1 .. n : b[HeaderLen + q] = rec[q]
  BY <1>3, HeaderAndData
<1> HIDE DEF b
<1>5. FragmentAt(b, rec, w, 1)
  <2>1. \A q \in 1 .. n : b[0 + HeaderLen + q] = rec[0 + q]
    BY <1>1, <1>4 DEF HeaderLen
  <2>2. 0 + HeaderLen + n = Len(b) /\ 0 + 1 = 1 /\ 0 + 2 = 2 /\ 0 \in Nat
        /\ 0 + HeaderLen + n <= Len(b)
    BY <1>1, <1>4 DEF HeaderLen
  <2>3. b[0 + 1] = h \div Radix /\ b[0 + 2] = h % Radix
    BY <1>4, <2>2
  <2> QED
    BY <1>1, <1>2, <2>1, <2>2, <2>3, Zenon DEF FragmentAt, h
<1>6. \A f \in 1 .. Count(n, w.frag) : f = 1
  BY <1>1
<1> QED
  BY <1>4, <1>5, <1>6 DEF LaidOut, b, h

\* A piece of a sequence.
LEMMA Piece ==
  ASSUME NEW T, NEW s \in Seq(T), NEW p \in Nat, NEW n \in Nat, p + n <= Len(s)
  PROVE  /\ SubSeq(s, p + 1, p + n) \in Seq(T) /\ Len(SubSeq(s, p + 1, p + n)) = n
         /\ \A q \in 1 .. n : SubSeq(s, p + 1, p + n)[q] = s[p + q]
<1>1. \A i \in (p + 1) .. (p + n) : s[i] \in T
  OBVIOUS
<1>2. (p + n) - (p + 1) + 1 = n /\ p + 1 \in Int /\ p + n \in Int /\ \A q \in 1 .. n : (p + 1) + q - 1 = p + q
  OBVIOUS
<1> QED
  BY <1>1, <1>2, SubSeqProperties

\* The same of one fragment.
LEMMA CutAt ==
  ASSUME NEW n \in Nat, NEW m \in Nat, NEW f \in 1 .. Count(n, m)
  PROVE  /\ StartOf(m, f) \in Nat /\ SizeOf(n, m, f) \in Nat
         /\ StartOf(m, f) + SizeOf(n, m, f) <= n
         /\ f = Count(n, m) => StartOf(m, f) + SizeOf(n, m, f) = n
         /\ f # Count(n, m) => /\ SizeOf(n, m, f) = m /\ 0 < m /\ m < n
                               /\ StartOf(m, f + 1) = StartOf(m, f) + m
                               /\ StartOf(m, f + 1) < n
         /\ 0 < m /\ m < n => SizeOf(n, m, f) > 0 /\ SizeOf(n, m, f) <= m
BY Cuts, Zenon

\* One fragment of a record that is cut.
LEMMA OneFragment ==
  ASSUME NEW rec \in Seq(Units), Len(rec) < RFC5531LastFragMask, NEW w \in Writers,
         w.framing = "recordMarking", w.frag \in Nat, 0 < w.frag, w.frag < Len(rec),
         NEW f \in 1 .. Count(Len(rec), w.frag)
  PROVE  LET n == Len(rec)
             s == SizeOf(n, w.frag, f)
             b == Fragment(rec, (f - 1) * w.frag, w.frag)
         IN  /\ b \in Seq(Units) /\ Len(b) = HeaderLen + s
             /\ b[1] = HeadOf(w, n, f) \div Radix /\ b[2] = HeadOf(w, n, f) % Radix
             /\ \A q \in 1 .. s : b[HeaderLen + q] = rec[StartOf(w.frag, f) + q]
<1> DEFINE n == Len(rec)
           m == w.frag
           s == SizeOf(n, m, f)
           o == StartOf(m, f)
           h == HeadOf(w, n, f)
           d == SubSeq(rec, o + 1, o + s)
<1>1. /\ n \in Nat /\ m \in Nat /\ o \in Nat /\ s \in Nat /\ o + s <= n
      /\ f = Count(n, m) => o + s = n
      /\ f # Count(n, m) => s = m /\ o + m < n
      /\ s <= m
  <2>1. n \in Nat /\ m \in Nat /\ 0 < m /\ m < n
    OBVIOUS
  <2>2. /\ o \in Nat /\ s \in Nat /\ o + s <= n
        /\ f = Count(n, m) => o + s = n
        /\ f # Count(n, m) => s = m /\ StartOf(m, f + 1) = o + m /\ StartOf(m, f + 1) < n
        /\ s <= m
    BY <2>1, CutAt, ZenonT(60)
  <2> QED
    BY <2>1, <2>2, Zenon
<1>2. h \in Nat /\ h < WordSpan /\ s < RFC5531LastFragMask
  BY <1>1, HeadFits
<1>3. h = IF f = Count(n, m) THEN RFC5531LastFragMask + s ELSE s
  BY DEF HeadOf
<1>4. (f - 1) * m = o
  BY DEF StartOf
<1>5. WithLastBit(s) = RFC5531LastFragMask + s
  <2>1. s % RFC5531LastFragMask = s
    BY <1>1, <1>2, WordWidth, SmallRemainder
  <2> QED
    BY <2>1 DEF WithLastBit
<1> HIDE DEF n, m, s, o, h
<1>6. n - o <= m <=> f = Count(n, m)
  BY <1>1
<1>7. Fragment(rec, o, m) = PutUint32(h) \o d
  <2>1. (IF n - o <= m THEN n - o ELSE m) = s
    BY <1>1
  <2>2. (IF n - o <= m THEN WithLastBit(s) ELSE s) = h
    BY <1>3, <1>5, <1>6
  <2> QED
    BY <2>1, <2>2, Zenon DEF Fragment, n
<1>8. d \in Seq(Units) /\ Len(d) = s /\ \A q \in 1 .. s : d[q] = rec[o + q]
  BY <1>1, Piece DEF n
<1> HIDE DEF d
<1>9. LET b == PutUint32(h) \o d IN
      /\ b \in Seq(Units) /\ Len(b) = HeaderLen + Len(d)
      /\ b[1] = h \div Radix /\ b[2] = h % Radix
      /\ \A q \in 1 .. Len(d) : b[HeaderLen + q] = d[q]
  BY <1>2, <1>8, HeaderAndData
<1>10. LET b == Fragment(rec, (f - 1) * m, m) IN
      /\ b \in Seq(Units) /\ Len(b) = HeaderLen + s
      /\ b[1] = h \div Radix /\ b[2] = h % Radix
      /\ \A q \in 1 .. s : b[HeaderLen + q] = rec[o + q]
  BY <1>4, <1>7, <1>8, <1>9, Zenon
<1> QED
  BY <1>10, Zenon DEF n, m, s, o, h

\* Where the fragments start when their headers are counted.
LEMMA Places ==
  ASSUME NEW m \in Nat, NEW f \in Nat \ {0}
  PROVE  /\ PlaceOf(m, f) \in Nat /\ PlaceOf(m, 1) = 0
         /\ PlaceOf(m, f + 1) = PlaceOf(m, f) + HeaderLen + m
<1>1. f - 1 \in Nat /\ (f - 1) + 1 = f /\ (f + 1) - 1 = f
  OBVIOUS
<1>2. f * m = (f - 1) * m + m /\ (f - 1) * m \in Nat
  BY <1>1, Multiples
<1>3. StartOf(m, f) = (f - 1) * m /\ StartOf(m, f + 1) = f * m /\ StartOf(m, 1) = 0
  BY <1>1 DEF StartOf
<1> QED
  BY <1>1, <1>2, <1>3 DEF PlaceOf, HeaderLen

\* A record in several pieces.
LEMMA ManyPieces ==
  ASSUME NEW rec \in Seq(Units), Len(rec) < RFC5531LastFragMask, NEW w \in Writers,
         w.framing = "recordMarking", w.frag \in Nat, 0 < w.frag, w.frag < Len(rec)
  PROVE  LaidOut(WriteRecordMarking(rec, w.frag), rec, w)
<1> DEFINE n == Len(rec)
           m == w.frag
           c == Count(n, m)
           frags == [k \in 1 .. c |-> Fragment(rec, (k - 1) * m, m)]
           b == FlattenSeq(frags)
<1>1. n \in Nat /\ m \in Nat /\ c \in Nat \ {0} /\ c = (n + m - 1) \div m
  <2>1. n \in Nat /\ m \in Nat /\ ~(m = 0 \/ m >= n)
    OBVIOUS
  <2>2. c \in Nat \ {0}
    BY <2>1, Cuts, Zenon
  <2> QED
    BY <2>1, <2>2, Zenon DEF Count
<1>2. WriteRecordMarking(rec, m) = b
  <2>1. rec # << >> /\ ~(m = 0 \/ m >= n)
    BY <1>1
  <2>2. Offsets(rec, m) = [k \in 1 .. c |-> (k - 1) * m]
    BY <1>1 DEF Offsets
  <2>3. DOMAIN Offsets(rec, m) = 1 .. c /\ \A k \in 1 .. c : Offsets(rec, m)[k] = (k - 1) * m
    BY <2>2
  <2>4. [k \in DOMAIN Offsets(rec, m) |-> Fragment(rec, Offsets(rec, m)[k], m)] = frags
    BY <2>3
  <2> QED
    BY <2>1, <2>4, Zenon DEF WriteRecordMarking
<1>3. ASSUME NEW k \in 1 .. c
      PROVE  /\ frags[k] \in Seq(Units) /\ Len(frags[k]) = HeaderLen + SizeOf(n, m, k)
             /\ frags[k][1] = HeadOf(w, n, k) \div Radix
             /\ frags[k][2] = HeadOf(w, n, k) % Radix
             /\ \A q \in 1 .. SizeOf(n, m, k) : frags[k][HeaderLen + q] = rec[StartOf(m, k) + q]
  <2>1. frags[k] = Fragment(rec, (k - 1) * m, m)
    OBVIOUS
  <2> QED
    BY <2>1, OneFragment, Zenon
<1>4. frags \in Seq(Seq(Units)) /\ Len(frags) = c
  <2> DEFINE frag(k) == Fragment(rec, (k - 1) * m, m)
  <2>1. \A k \in 1 .. c : frag(k) \in Seq(Units)
    <3> TAKE k \in 1 .. c
    <3>1. frags[k] = frag(k)
      OBVIOUS
    <3> QED
      BY <1>3, <3>1, Zenon
  <2> HIDE DEF frag
  <2>2. [k \in 1 .. c |-> frag(k)] \in Seq(Seq(Units)) /\ Len([k \in 1 .. c |-> frag(k)]) = c
    <3>1. c \in Nat
      BY <1>1
    <3> HIDE DEF c, b, n, m
    <3>2. [k \in 1 .. c |-> frag(k)] \in [1 .. c -> Seq(Units)]
      BY <2>1
    <3> QED
      BY <3>1, <3>2
  <2> QED
    BY <2>2 DEF frag
<1> HIDE DEF frags, c
<1>5. ASSUME NEW k \in 1 .. c
      PROVE  /\ Len(Joined(frags, k - 1)) \in Nat
             /\ Len(Joined(frags, k)) = Len(Joined(frags, k - 1)) + Len(frags[k])
             /\ Len(Joined(frags, k)) <= Len(b)
             /\ \A q \in 1 .. Len(frags[k]) : b[Len(Joined(frags, k - 1)) + q] = frags[k][q]
  <2>1. k \in 1 .. Len(frags)
    BY <1>4
  <2> QED
    BY <1>4, <2>1, JoinedBlocks, Zenon
<1>6. \A k \in 1 .. c : Len(Joined(frags, k - 1)) = PlaceOf(m, k)
  <2> DEFINE Bad == {k \in 1 .. c : Len(Joined(frags, k - 1)) # PlaceOf(m, k)}
  <2>1. SUFFICES ASSUME Bad # {} PROVE FALSE
    OBVIOUS
  <2>2. Bad \in SUBSET Nat
    BY <1>1
  <2>3. PICK k \in Bad : \A i \in Bad : k <= i
    <3> HIDE DEF Bad
    <3> QED
      BY <2>1, <2>2, LeastExists
  <2>4. k \in 1 .. c /\ Len(Joined(frags, k - 1)) # PlaceOf(m, k)
    OBVIOUS
  <2>5. k # 1
    <3>1. Joined(frags, 0) = << >>
      BY <1>4, JoinedNothing
    <3>2. PlaceOf(m, 1) = 0
      BY <1>1, Places
    <3> QED
      BY <2>4, <3>1, <3>2
  <2>6. k - 1 \in 1 .. c /\ k - 1 \notin Bad /\ k - 1 \in Nat \ {0} /\ (k - 1) + 1 = k
    BY <1>1, <2>3, <2>4, <2>5
  <2>7. Len(Joined(frags, (k - 1) - 1)) = PlaceOf(m, k - 1)
    BY <2>6
  <2>8. Len(Joined(frags, k - 1)) = PlaceOf(m, k - 1) + Len(frags[k - 1])
    BY <1>5, <2>6, <2>7, Zenon
  <2>9. Len(frags[k - 1]) = HeaderLen + m
    <3>1. PICK j \in 1 .. c : j = k - 1 /\ j # c
      BY <1>1, <2>4, <2>6
    <3>2. SizeOf(n, m, j) = m
      <4>1. n \in Nat /\ m \in Nat /\ j \in 1 .. Count(n, m) /\ j # Count(n, m)
        BY <1>1, <3>1 DEF c
      <4> QED
        BY <4>1, CutAt, Zenon
    <3> QED
      BY <1>3, <2>6, <3>1, <3>2, Zenon
  <2>10. PlaceOf(m, k) = PlaceOf(m, k - 1) + HeaderLen + m /\ PlaceOf(m, k - 1) \in Nat
    BY <1>1, <2>6, Places
  <2> DEFINE x == PlaceOf(m, k)
             y == PlaceOf(m, k - 1)
             z == Len(frags[k - 1])
             u == Len(Joined(frags, k - 1))
  <2>11. u # x /\ u = y + z /\ z = HeaderLen + m /\ x = y + HeaderLen + m /\ y \in Nat /\ m \in Nat
    BY <1>1, <2>4, <2>8, <2>9, <2>10
  <2> HIDE DEF x, y, z, u
  <2> QED
    BY <2>11 DEF HeaderLen
<1>7. ASSUME NEW f \in 1 .. c
      PROVE  FragmentAt(b, rec, w, f)
  <2> DEFINE p == PlaceOf(m, f)
             s == SizeOf(n, m, f)
             g == frags[f]
  <2>1. Len(Joined(frags, f - 1)) = p /\ p \in Nat
    BY <1>5, <1>6, Zenon
  <2>2. s \in Nat /\ (f # c => s = m)
    BY <1>1, CutAt, Zenon DEF c
  <2>3. /\ g \in Seq(Units) /\ Len(g) = HeaderLen + s
        /\ g[1] = HeadOf(w, n, f) \div Radix /\ g[2] = HeadOf(w, n, f) % Radix
        /\ \A q \in 1 .. s : g[HeaderLen + q] = rec[StartOf(m, f) + q]
    BY <1>3, Zenon
  <2>4. /\ Len(Joined(frags, f)) = p + Len(g) /\ Len(Joined(frags, f)) <= Len(b)
        /\ \A q \in 1 .. Len(g) : b[p + q] = g[q]
    BY <1>5, <2>1, Zenon
  <2>5. f = c => Len(b) = p + Len(g)
    <3>1. Joined(frags, c) = b
      BY <1>4, JoinedAll
    <3> QED
      BY <2>4, <3>1
  <2>6. f # c => PlaceOf(m, f + 1) = p + HeaderLen + s
    BY <1>1, <2>2, Places
  <2> HIDE DEF p, s, g, b
  <2>7. b[p + 1] = HeadOf(w, n, f) \div Radix /\ b[p + 2] = HeadOf(w, n, f) % Radix
    <3>1. 1 \in 1 .. Len(g) /\ 2 \in 1 .. Len(g)
      BY <2>2, <2>3 DEF HeaderLen
    <3>2. b[p + 1] = g[1] /\ b[p + 2] = g[2]
      BY <2>4, <3>1, Zenon
    <3> QED
      BY <2>3, <3>2, Zenon
  <2>8. \A q \in 1 .. s : b[p + HeaderLen + q] = rec[StartOf(m, f) + q]
    <3> TAKE q \in 1 .. s
    <3>1. HeaderLen + q \in 1 .. Len(g) /\ p + (HeaderLen + q) = p + HeaderLen + q
      BY <2>1, <2>2, <2>3 DEF HeaderLen
    <3>2. b[p + (HeaderLen + q)] = g[HeaderLen + q]
      BY <2>4, <3>1, Zenon
    <3> QED
      BY <2>3, <3>1, <3>2, Zenon
  <2>10. p + HeaderLen + s = p + Len(g)
    BY <2>1, <2>2, <2>3 DEF HeaderLen
  <2>11. p + HeaderLen + s <= Len(b)
    BY <2>4, <2>10
  <2>12. IF f = Count(n, m) THEN p + HeaderLen + s = Len(b) ELSE p + HeaderLen + s = PlaceOf(m, f + 1)
    BY <2>5, <2>6, <2>10 DEF c
  <2> QED
    BY <2>1, <2>2, <2>7, <2>8, <2>11, <2>12, Zenon DEF FragmentAt, p, s
<1>8. b \in Seq(Units)
  <2>1. Joined(frags, c) \in Seq(Units)
    <3>1. c \in 0 .. Len(frags)
      BY <1>1, <1>4
    <3> QED
      BY <1>4, <3>1, JoinedType
  <2> QED
    BY <1>4, <2>1, JoinedAll
<1> HIDE DEF b
<1> QED
  BY <1>2, <1>7, <1>8, Zenon DEF LaidOut, c

\* The framed record, whichever of the two binary writers wrote it.
LEMMA WrittenLaidOut ==
  ASSUME NEW rec \in Seq(Units), Len(rec) < RFC5531LastFragMask, NEW w \in Writers,
         w.framing # "base64Lines"
  PROVE  LaidOut(Written(rec, w), rec, w)
<1> DEFINE n == Len(rec)
<1>1. /\ n \in Nat /\ w.frag \in Nat
      /\ w.framing \in {"recordMarking", "lengthPrefixed"}
      /\ w.framing = "lengthPrefixed" => w.frag = 0
  <2>1. n \in Nat
    OBVIOUS
  <2>2. CASE w \in [framing : {"recordMarking"}, frag : Fragments]
    <3>1. w.framing = "recordMarking" /\ w.frag \in Fragments
      BY <2>2
    <3> QED
      BY <2>1, <3>1, RoundTripAssumption
  <2>3. CASE w \in [framing : {"lengthPrefixed", "base64Lines"}, frag : {0}]
    <3>1. w.framing \in {"lengthPrefixed", "base64Lines"} /\ w.frag = 0
      BY <2>3
    <3> QED
      BY <2>1, <3>1
  <2> QED
    BY <2>2, <2>3 DEF Writers
<1>2. n % RFC5531LastFragMask = n /\ n % WordSpan = n
  <2>1. n < WordSpan
    BY <1>1, WordWidth
  <2> QED
    BY <1>1, <2>1, WordWidth, SmallRemainder
<1>3. CASE w.framing = "lengthPrefixed"
  <2>1. Written(rec, w) = PutUint32(n) \o rec
    BY <1>2, <1>3 DEF Written, WriteLengthPrefixed
  <2>2. HeadOf(w, n, 1) = n
    BY <1>1, <1>3 DEF HeadOf, SizeOf, Count, StartOf
  <2> QED
    BY <1>1, <1>3, <2>1, <2>2, OnePiece
<1>4. CASE w.framing = "recordMarking" /\ (w.frag = 0 \/ w.frag >= n)
  <2>1. HeadOf(w, n, 1) = RFC5531LastFragMask + n
    BY <1>1, <1>4 DEF HeadOf, SizeOf, Count, StartOf
  <2>2. Written(rec, w) = PutUint32(RFC5531LastFragMask + n) \o rec
    <3>1. CASE rec = << >>
      <4>1. n = 0 /\ RFC5531LastFragMask + n = RFC5531LastFragMask
        BY <3>1, WordWidth
      <4>2. PutUint32(RFC5531LastFragMask) \in Seq(Units)
        BY <1>1, WordWidth, WordParts
      <4>3. PutUint32(RFC5531LastFragMask) \o << >> = PutUint32(RFC5531LastFragMask)
        BY <4>2, ConcatEmptySeq
      <4>4. Written(rec, w) = PutUint32(RFC5531LastFragMask)
        BY <1>4, <3>1 DEF Written, WriteRecordMarking
      <4> QED
        BY <3>1, <4>1, <4>3, <4>4, Zenon
    <3>2. CASE rec # << >>
      BY <1>2, <1>4, <3>2 DEF Written, WriteRecordMarking, WithLastBit
    <3> QED
      BY <3>1, <3>2
  <2> QED
    BY <1>1, <1>4, <2>1, <2>2, OnePiece
<1>5. CASE w.framing = "recordMarking" /\ ~(w.frag = 0 \/ w.frag >= n)
  <2>1. Written(rec, w) = WriteRecordMarking(rec, w.frag)
    BY <1>5 DEF Written
  <2>2. 0 < w.frag /\ w.frag < n
    BY <1>1, <1>5
  <2> QED
    BY <1>1, <1>5, <2>1, <2>2, ManyPieces
<1> QED
  BY <1>1, <1>3, <1>4, <1>5

\* A function on 1 .. n is a sequence of length n.
LEMMA FunctionIsSeq ==
  ASSUME NEW T, NEW n \in Nat, NEW g \in [1 .. n -> T]
  PROVE  g \in Seq(T) /\ Len(g) = n
OBVIOUS

\* The framed records, one by one.
Blocks(recs, w) == [i \in DOMAIN recs |-> Written(recs[i], w)]

\* Every framed record is laid out in its fragments.
LEMMA BlocksOf ==
  ASSUME NEW recs \in Seq(Seq(Units)),
         \A i \in 1 .. Len(recs) : Len(recs[i]) < RFC5531LastFragMask,
         NEW w \in Writers, w.framing # "base64Lines"
  PROVE  /\ Blocks(recs, w) \in Seq(Seq(Units)) /\ Len(Blocks(recs, w)) = Len(recs)
         /\ \A i \in 1 .. Len(recs) : /\ Blocks(recs, w)[i] = Written(recs[i], w)
                                      /\ LaidOut(Blocks(recs, w)[i], recs[i], w)
<1> DEFINE b(i) == Written(recs[i], w)
<1>1. \A i \in 1 .. Len(recs) : LaidOut(b(i), recs[i], w)
  <2> TAKE i \in 1 .. Len(recs)
  <2>1. recs[i] \in Seq(Units)
    OBVIOUS
  <2> QED
    BY <2>1, WrittenLaidOut
<1>2. \A i \in 1 .. Len(recs) : b(i) \in Seq(Units)
  BY <1>1, Zenon DEF LaidOut
<1>3. Blocks(recs, w) = [i \in 1 .. Len(recs) |-> b(i)]
  BY DEF Blocks
<1> HIDE DEF b
<1>4. Blocks(recs, w) \in [1 .. Len(recs) -> Seq(Units)]
  BY <1>2, <1>3
<1>5. Len(recs) \in Nat
  OBVIOUS
<1>6. \A i \in 1 .. Len(recs) : Blocks(recs, w)[i] = b(i)
  BY <1>3
<1>7. Blocks(recs, w) \in Seq(Seq(Units)) /\ Len(Blocks(recs, w)) = Len(recs)
  BY <1>4, <1>5, FunctionIsSeq, Zenon
<1> QED
  BY <1>1, <1>6, <1>7, Zenon DEF b

\* The records are framed in sequences of units, one for each.
Framed(recs, w) ==
  /\ Blocks(recs, w) \in Seq(Seq(Units)) /\ Len(Blocks(recs, w)) = Len(recs)
  /\ \A i \in 1 .. Len(recs) : Blocks(recs, w)[i] = Written(recs[i], w)

\* The stream of the first k records.
LEMMA WrittenFirst ==
  ASSUME NEW recs \in Seq(Seq(Units)), NEW w, Framed(recs, w), NEW k \in 0 .. Len(recs)
  PROVE  WrittenAll(SubSeq(recs, 1, k), w) = Joined(Blocks(recs, w), k)
<1> DEFINE first == SubSeq(recs, 1, k)
           b == Blocks(recs, w)
<1>1. first \in Seq(Seq(Units)) /\ Len(first) = k /\ \A i \in 1 .. k : first[i] = recs[i]
  BY FirstElements
<1>2. b \in Seq(Seq(Units)) /\ Len(b) = Len(recs) /\ \A i \in 1 .. Len(recs) : b[i] = Written(recs[i], w)
  BY DEF Framed
<1>3. /\ SubSeq(b, 1, k) \in Seq(Seq(Units)) /\ Len(SubSeq(b, 1, k)) = k
      /\ \A i \in 1 .. k : SubSeq(b, 1, k)[i] = b[i]
  <2>1. k \in 0 .. Len(b)
    BY <1>2
  <2> QED
    BY <1>2, <2>1, FirstElements
<1>4. \A i \in 1 .. k : SubSeq(b, 1, k)[i] = Written(first[i], w)
  BY <1>1, <1>2, <1>3
<1>5. [i \in DOMAIN first |-> Written(first[i], w)] = SubSeq(b, 1, k)
  <2> HIDE DEF first, b
  <2>1. DOMAIN first = 1 .. k
    BY <1>1
  <2>2. SubSeq(b, 1, k) = [i \in 1 .. k |-> SubSeq(b, 1, k)[i]]
    BY <1>3
  <2> QED
    BY <1>4, <2>1, <2>2
<1> QED
  BY <1>5 DEF WrittenAll, Joined

\* The whole stream is the framed records joined.
LEMMA WrittenWhole ==
  ASSUME NEW recs \in Seq(Seq(Units)), NEW w, Framed(recs, w)
  PROVE  /\ WrittenAll(recs, w) = FlattenSeq(Blocks(recs, w))
         /\ WrittenAll(recs, w) = Joined(Blocks(recs, w), Len(recs))
         /\ WrittenAll(recs, w) \in Seq(Units)
<1>1. WrittenAll(recs, w) = FlattenSeq(Blocks(recs, w))
  BY DEF WrittenAll, Blocks
<1>2. Blocks(recs, w) \in Seq(Seq(Units)) /\ Len(Blocks(recs, w)) = Len(recs)
  BY DEF Framed
<1>3. FlattenSeq(Blocks(recs, w)) = Joined(Blocks(recs, w), Len(recs))
  BY <1>2, JoinedAll
<1>4. Joined(Blocks(recs, w), Len(recs)) \in Seq(Units)
  <2>1. Len(recs) \in 0 .. Len(Blocks(recs, w))
    BY <1>2
  <2> QED
    BY <1>2, <2>1, JoinedType
<1> QED
  BY <1>1, <1>3, <1>4

-----------------------------------------------------------------------------
(***************************************************************************)
(* The stream that is read, and where its records lie.                     *)
(***************************************************************************)
\* The stream that is read: what InitCut says of it, which no step changes.
Stream ==
  /\ written \in Seq(Seq(Units))
  /\ \A k \in 1 .. Len(written) : Len(written[k]) <= MaxUnits
  /\ writer \in Writers /\ framing \in {writer.framing, "auto"}
  /\ framing = "auto" => DetectableWriter(writer, written)
  /\ ends = [k \in DOMAIN written |-> Len(WrittenAll(SubSeq(written, 1, k), writer))]
  /\ lost \in 0 .. Len(WrittenAll(written, writer))
  /\ input = SubSeq(WrittenAll(written, writer), 1,
                    Len(WrittenAll(written, writer)) - lost)

\* The stream is that of a binary writer, and its lengths fit the length field.
Binary == Stream /\ writer.framing # "base64Lines" /\ MaxUnits < RFC5531LastFragMask

\* What is known of a stream, cut or not: where each framed record ends, and that
\* what is read is the beginning of what was written.
LEMMA StreamParts ==
  ASSUME Stream, Framed(written, writer)
  PROVE  LET b == Blocks(written, writer)
             s == WrittenAll(written, writer)
         IN  /\ Len(written) \in Nat /\ writer.frag \in Nat
             /\ b \in Seq(Seq(Units)) /\ Len(b) = Len(written)
             /\ s \in Seq(Units) /\ s = FlattenSeq(b) /\ s = Joined(b, Len(written))
             /\ \A k \in 0 .. Len(written) : EndOf(k) = Len(Joined(b, k)) /\ EndOf(k) \in Nat
             /\ input \in Seq(Units) /\ Len(input) = Len(s) - lost /\ Len(input) <= Len(s)
             /\ lost \in Nat
             /\ \A q \in 1 .. Len(input) : input[q] = s[q]
<1> DEFINE b == Blocks(written, writer)
           s == WrittenAll(written, writer)
<1>1. written \in Seq(Seq(Units)) /\ writer \in Writers /\ Len(written) \in Nat
  BY DEF Stream
<1>3. b \in Seq(Seq(Units)) /\ Len(b) = Len(written)
  BY DEF Framed
<1>4. s \in Seq(Units) /\ s = FlattenSeq(b) /\ s = Joined(b, Len(written))
  BY <1>1, WrittenWhole
<1>5. ASSUME NEW k \in 0 .. Len(written)
      PROVE  EndOf(k) = Len(Joined(b, k)) /\ EndOf(k) \in Nat
  <2>1. Joined(b, k) \in Seq(Units)
    <3>1. k \in 0 .. Len(b)
      BY <1>3
    <3> QED
      BY <1>3, <3>1, JoinedType
  <2>2. CASE k = 0
    <3>1. Joined(b, 0) = << >>
      BY <1>3, JoinedNothing
    <3> QED
      BY <2>2, <3>1 DEF EndOf
  <2>3. CASE k # 0
    <3>1. k \in DOMAIN written
      BY <1>1, <2>3
    <3>2. EndOf(k) = Len(WrittenAll(SubSeq(written, 1, k), writer))
      BY <2>3, <3>1 DEF EndOf, Stream
    <3>3. WrittenAll(SubSeq(written, 1, k), writer) = Joined(b, k)
      BY <1>1, WrittenFirst
    <3>4. EndOf(k) = Len(Joined(b, k))
      BY <3>2, <3>3, Zenon
    <3> HIDE DEF b
    <3> QED
      BY <2>1, <3>4
  <2> QED
    BY <2>2, <2>3
<1>6. lost \in 0 .. Len(s) /\ input = SubSeq(s, 1, Len(s) - lost)
  BY DEF Stream
<1> HIDE DEF s, b
<1>7. /\ input \in Seq(Units) /\ Len(input) = Len(s) - lost /\ Len(input) <= Len(s) /\ lost \in Nat
      /\ \A q \in 1 .. Len(input) : input[q] = s[q]
  <2>1. Len(s) \in Nat /\ Len(s) - lost \in 0 .. Len(s) /\ lost \in Nat
    BY <1>4, <1>6
  <2>2. /\ input \in Seq(Units) /\ Len(input) = Len(s) - lost
        /\ \A q \in 1 .. (Len(s) - lost) : input[q] = s[q]
    BY <1>4, <1>6, <2>1, FirstElements
  <2> QED
    BY <2>1, <2>2
<1>8. writer.frag \in Nat
  <2>1. CASE writer \in [framing : {"recordMarking"}, frag : Fragments]
    <3>1. writer.frag \in Fragments
      BY <2>1
    <3> QED
      BY <3>1, RoundTripAssumption
  <2>2. CASE writer \in [framing : {"lengthPrefixed", "base64Lines"}, frag : {0}]
    <3>1. writer.frag = 0
      BY <2>2
    <3> QED
      BY <3>1
  <2> QED
    BY <1>1, <2>1, <2>2 DEF Writers
<1> QED
  BY <1>1, <1>3, <1>4, <1>5, <1>7, <1>8, Zenon DEF s, b

\* Where record k lies in the stream.
LEMMA BlockAt ==
  ASSUME Stream, Framed(written, writer), NEW k \in 1 .. Len(written)
  PROVE  /\ EndOf(k - 1) \in Nat /\ EndOf(k) \in Nat
         /\ EndOf(k) = EndOf(k - 1) + Len(Blocks(written, writer)[k])
         /\ EndOf(k) <= Len(WrittenAll(written, writer))
         /\ \A q \in 1 .. Len(Blocks(written, writer)[k]) :
              WrittenAll(written, writer)[EndOf(k - 1) + q] = Blocks(written, writer)[k][q]
<1> DEFINE b == Blocks(written, writer)
           s == WrittenAll(written, writer)
<1>1. /\ Len(written) \in Nat /\ b \in Seq(Seq(Units)) /\ Len(b) = Len(written) /\ s = FlattenSeq(b)
      /\ \A i \in 0 .. Len(written) : EndOf(i) = Len(Joined(b, i)) /\ EndOf(i) \in Nat
  BY StreamParts, Zenon
<1> HIDE DEF b, s
<1>2. k \in 0 .. Len(written) /\ k - 1 \in 0 .. Len(written) /\ k \in 1 .. Len(b)
  BY <1>1
<1>3. /\ Len(Joined(b, k)) = Len(Joined(b, k - 1)) + Len(b[k])
      /\ Len(Joined(b, k)) <= Len(FlattenSeq(b))
      /\ \A q \in 1 .. Len(b[k]) : FlattenSeq(b)[Len(Joined(b, k - 1)) + q] = b[k][q]
  BY <1>1, <1>2, JoinedBlocks, Zenon
<1>4. EndOf(k) = Len(Joined(b, k)) /\ EndOf(k - 1) = Len(Joined(b, k - 1)) /\ EndOf(k) \in Nat /\ EndOf(k - 1) \in Nat
  BY <1>1, <1>2, Zenon
<1> QED
  BY <1>1, <1>3, <1>4, Zenon DEF b, s

\* Records end in the order in which they were written.
LEMMA EndsInOrder ==
  ASSUME Stream, Framed(written, writer), NEW i \in 0 .. Len(written),
         NEW j \in 0 .. Len(written), i <= j
  PROVE  EndOf(i) <= EndOf(j) /\ EndOf(i) \in Nat /\ EndOf(j) \in Nat
<1> DEFINE b == Blocks(written, writer)
<1>1. /\ Len(written) \in Nat /\ b \in Seq(Seq(Units)) /\ Len(b) = Len(written)
      /\ \A k \in 0 .. Len(written) : EndOf(k) = Len(Joined(b, k)) /\ EndOf(k) \in Nat
  BY StreamParts, Zenon
<1> HIDE DEF b
<1>2. i \in 0 .. Len(b) /\ j \in i .. Len(b)
  BY <1>1
<1>3. Len(Joined(b, i)) <= Len(Joined(b, j))
  BY <1>1, <1>2, JoinedKeeps, Zenon
<1> QED
  BY <1>1, <1>3, Zenon

\* The framed records of a binary stream.
LEMMA BinaryParts ==
  ASSUME Binary
  PROVE  LET b == Blocks(written, writer)
             s == WrittenAll(written, writer)
         IN  /\ Len(written) \in Nat /\ writer.frag \in Nat
             /\ b \in Seq(Seq(Units)) /\ Len(b) = Len(written) /\ Framed(written, writer)
             /\ \A k \in 1 .. Len(written) :
                  /\ written[k] \in Seq(Units) /\ Len(written[k]) < RFC5531LastFragMask
                  /\ LaidOut(b[k], written[k], writer)
             /\ s \in Seq(Units) /\ s = FlattenSeq(b) /\ s = Joined(b, Len(written))
             /\ \A k \in 0 .. Len(written) : EndOf(k) = Len(Joined(b, k)) /\ EndOf(k) \in Nat
             /\ input \in Seq(Units) /\ Len(input) = Len(s) - lost /\ Len(input) <= Len(s)
             /\ lost \in Nat
             /\ \A q \in 1 .. Len(input) : input[q] = s[q]
<1> DEFINE b == Blocks(written, writer)
<1>1. /\ written \in Seq(Seq(Units)) /\ writer \in Writers /\ writer.framing # "base64Lines"
      /\ \A k \in 1 .. Len(written) : Len(written[k]) <= MaxUnits
      /\ MaxUnits < RFC5531LastFragMask /\ MaxUnits \in Nat /\ Len(written) \in Nat
  BY RoundTripAssumption DEF Binary, Stream
<1>2. \A k \in 1 .. Len(written) : written[k] \in Seq(Units) /\ Len(written[k]) < RFC5531LastFragMask
  BY <1>1, WordWidth
<1>3. /\ b \in Seq(Seq(Units)) /\ Len(b) = Len(written)
      /\ \A k \in 1 .. Len(written) : b[k] = Written(written[k], writer) /\ LaidOut(b[k], written[k], writer)
  BY <1>1, <1>2, BlocksOf
<1>4. Framed(written, writer)
  BY <1>3, Zenon DEF Framed
<1> HIDE DEF b
<1>5. Stream
  BY DEF Binary
<1> QED
  BY <1>2, <1>3, <1>4, <1>5, StreamParts, Zenon DEF b

\* Where fragment f of record k starts in the stream.
Place(k, f) == EndOf(k - 1) + PlaceOf(writer.frag, f)
Size(k, f) == SizeOf(Len(written[k]), writer.frag, f)
Pieces(k) == Count(Len(written[k]), writer.frag)
Start(f) == StartOf(writer.frag, f)
HeadAt(k, f) == HeadOf(writer, Len(written[k]), f)

\* Where record k lies in a binary stream.
LEMMA RecordAt ==
  ASSUME Binary, NEW k \in 1 .. Len(written)
  PROVE  /\ EndOf(k - 1) \in Nat /\ EndOf(k) \in Nat
         /\ EndOf(k) = EndOf(k - 1) + Len(Blocks(written, writer)[k])
         /\ EndOf(k) <= Len(WrittenAll(written, writer))
         /\ \A q \in 1 .. Len(Blocks(written, writer)[k]) :
              WrittenAll(written, writer)[EndOf(k - 1) + q] = Blocks(written, writer)[k][q]
BY BinaryParts, BlockAt, Zenon DEF Binary

\* What the reader finds there.
LEMMA FragmentInStream ==
  ASSUME Binary, NEW k \in 1 .. Len(written), NEW f \in 1 .. Pieces(k)
  PROVE  /\ Place(k, f) \in Nat /\ Size(k, f) \in Nat /\ EndOf(k) \in Nat
         /\ Place(k, f) + HeaderLen + Size(k, f) <= EndOf(k)
         /\ f = Pieces(k) => Place(k, f) + HeaderLen + Size(k, f) = EndOf(k)
         /\ f # Pieces(k) => Place(k, f) + HeaderLen + Size(k, f) = Place(k, f + 1)
         /\ Place(k, f) + HeaderLen <= Len(input) =>
              /\ input[Place(k, f) + 1] = HeadAt(k, f) \div Radix
              /\ input[Place(k, f) + 2] = HeadAt(k, f) % Radix
              /\ Header(Place(k, f)) = HeadAt(k, f)
         /\ Place(k, f) + HeaderLen + Size(k, f) <= Len(input) =>
              \A q \in 1 .. Size(k, f) :
                input[Place(k, f) + HeaderLen + q] = written[k][Start(f) + q]
<1> DEFINE b == Blocks(written, writer)[k]
           s == WrittenAll(written, writer)
           e == EndOf(k - 1)
           n == Len(written[k])
           m == writer.frag
           p == PlaceOf(m, f)
           z == SizeOf(n, m, f)
           h == HeadOf(writer, n, f)
<1>1. /\ writer \in Writers /\ m \in Nat /\ n < RFC5531LastFragMask /\ written[k] \in Seq(Units)
      /\ LaidOut(b, written[k], writer) /\ s \in Seq(Units) /\ Len(input) <= Len(s)
      /\ \A q \in 1 .. Len(input) : input[q] = s[q]
      /\ input \in Seq(Units)
  BY BinaryParts, Zenon DEF Binary, Stream
<1>2. n \in Nat
  BY <1>1
<1>3. h \in Nat /\ h < WordSpan
  BY <1>1, <1>2, HeadFits DEF Pieces
<1>4. FragmentAt(b, written[k], writer, f)
  BY <1>1, Zenon DEF LaidOut, Pieces
<1>5. /\ p \in Nat /\ z \in Nat /\ p + HeaderLen + z <= Len(b)
      /\ b[p + 1] = h \div Radix /\ b[p + 2] = h % Radix
      /\ \A q \in 1 .. z : b[p + HeaderLen + q] = written[k][StartOf(m, f) + q]
      /\ f = Pieces(k) => p + HeaderLen + z = Len(b)
      /\ f # Pieces(k) => p + HeaderLen + z = PlaceOf(m, f + 1)
  BY <1>4, Zenon DEF FragmentAt, Pieces
<1>6. /\ e \in Nat /\ EndOf(k) = e + Len(b) /\ EndOf(k) \in Nat
      /\ \A q \in 1 .. Len(b) : s[e + q] = b[q]
  BY RecordAt, Zenon
<1>7. b \in Seq(Units)
  BY <1>1, Zenon DEF LaidOut
<1>8. Place(k, f) = e + p /\ Size(k, f) = z /\ Start(f) = StartOf(m, f) /\ HeadAt(k, f) = h
      /\ Place(k, f + 1) = e + PlaceOf(m, f + 1)
  BY DEF Place, Size, Start, HeadAt
<1>9. h = (h \div Radix) * Radix + (h % Radix)
  <2>1. Radix \in Nat /\ Radix > 0
    BY WordWidth
  <2> HIDE DEF h
  <2> QED
    BY <1>3, <2>1, Quotient, Zenon
<1> DEFINE u == h \div Radix
           v == h % Radix
           w == written[k]
           st == StartOf(m, f)
           np == PlaceOf(m, f + 1)
           L == Len(b)
           E == EndOf(k)
           pk == Place(k, f)
<1>10. /\ p \in Nat /\ z \in Nat /\ p + HeaderLen + z <= L /\ L \in Nat
       /\ b[p + 1] = u /\ b[p + 2] = v
       /\ \A q \in 1 .. z : b[p + HeaderLen + q] = w[st + q]
       /\ f = Pieces(k) => p + HeaderLen + z = L
       /\ f # Pieces(k) => p + HeaderLen + z = np
       /\ e \in Nat /\ E = e + L
       /\ \A q \in 1 .. L : s[e + q] = b[q]
       /\ \A q \in 1 .. Len(input) : input[q] = s[q]
       /\ input \in Seq(Units)
       /\ h = u * Radix + v
       /\ pk = e + p
  <2>1. /\ p \in Nat /\ z \in Nat /\ p + HeaderLen + z <= L
        /\ b[p + 1] = u /\ b[p + 2] = v
        /\ \A q \in 1 .. z : b[p + HeaderLen + q] = w[st + q]
        /\ f = Pieces(k) => p + HeaderLen + z = L
        /\ f # Pieces(k) => p + HeaderLen + z = np
    BY <1>5, Zenon
  <2>2. L \in Nat
    BY <1>7
  <2>3. e \in Nat /\ E = e + L /\ \A q \in 1 .. L : s[e + q] = b[q]
    BY <1>6, Zenon
  <2>4. input \in Seq(Units) /\ \A q \in 1 .. Len(input) : input[q] = s[q]
    BY <1>1, Zenon
  <2>5. h = u * Radix + v /\ pk = e + p
    BY <1>8, <1>9, Zenon
  <2> QED
    BY <2>1, <2>2, <2>3, <2>4, <2>5, Zenon
<1> HIDE DEF b, s, e, n, m, p, z, h, u, v, w, st, np, L, E, pk
<1>11. Len(input) \in Nat
  BY <1>10
<1>12. pk + HeaderLen <= Len(input) => input[pk + 1] = u /\ input[pk + 2] = v
  <2> SUFFICES ASSUME pk + HeaderLen <= Len(input) PROVE input[pk + 1] = u /\ input[pk + 2] = v
    OBVIOUS
  <2>1. /\ pk + 1 \in 1 .. Len(input) /\ pk + 2 \in 1 .. Len(input)
        /\ p + 1 \in 1 .. L /\ p + 2 \in 1 .. L
        /\ e + (p + 1) = pk + 1 /\ e + (p + 2) = pk + 2
    BY <1>10, <1>11 DEF HeaderLen
  <2>2. input[pk + 1] = s[e + (p + 1)] /\ input[pk + 2] = s[e + (p + 2)]
    BY <1>10, <2>1, Zenon
  <2>3. s[e + (p + 1)] = b[p + 1] /\ s[e + (p + 2)] = b[p + 2]
    BY <1>10, <2>1, Zenon
  <2> QED
    BY <1>10, <2>2, <2>3, Zenon
<1>13. pk + HeaderLen <= Len(input) => Header(pk) = h
  BY <1>10, <1>12, Zenon DEF Header
<1>14. pk + HeaderLen + z <= Len(input) => \A q \in 1 .. z : input[pk + HeaderLen + q] = w[st + q]
  <2> SUFFICES ASSUME pk + HeaderLen + z <= Len(input), NEW q \in 1 .. z
               PROVE  input[pk + HeaderLen + q] = w[st + q]
    OBVIOUS
  <2>1. /\ pk + HeaderLen + q \in 1 .. Len(input) /\ p + HeaderLen + q \in 1 .. L
        /\ e + (p + HeaderLen + q) = pk + HeaderLen + q
    BY <1>10, <1>11 DEF HeaderLen
  <2>2. input[pk + HeaderLen + q] = s[e + (p + HeaderLen + q)]
    BY <1>10, <2>1, Zenon
  <2>3. s[e + (p + HeaderLen + q)] = b[p + HeaderLen + q]
    BY <1>10, <2>1, Zenon
  <2> QED
    BY <1>10, <2>2, <2>3, Zenon
<1>15. /\ pk \in Nat /\ z \in Nat /\ E \in Nat
       /\ pk + HeaderLen + z <= E
       /\ f = Pieces(k) => pk + HeaderLen + z = E
       /\ f # Pieces(k) => pk + HeaderLen + z = e + np
  BY <1>10 DEF HeaderLen
<1>16. Place(k, f) = pk /\ Size(k, f) = z /\ Start(f) = st /\ HeadAt(k, f) = h
       /\ Place(k, f + 1) = e + np /\ EndOf(k) = E /\ u = h \div Radix /\ v = h % Radix /\ w = written[k]
  BY <1>8 DEF pk, z, st, h, e, np, E, u, v, w
<1> QED
  BY <1>12, <1>13, <1>14, <1>15, <1>16, Zenon

-----------------------------------------------------------------------------
(***************************************************************************)
(* The inductive invariant: where the reader stands between two steps.     *)
(***************************************************************************)

\* How many records the caller has.
Returned == Len(delivered)

\* Between two fragments: what is put together is a prefix of the record, and
\* the reader stands at the header of its next fragment.
InRecord ==
  IF Returned = Len(written) THEN pos = EndOf(Returned)
  ELSE \E f \in 1 .. Pieces(Returned + 1) :
         /\ pos = Place(Returned + 1, f)
         /\ totalSize = Start(f) /\ Len(record) = Start(f)
         /\ \A q \in 1 .. Start(f) : record[q] = written[Returned + 1][q]

\* Nothing whole is left to return.
Exhausted ==
  Returned = Len(written) \/ EndOf(Returned + 1) > Len(input)

\* Between two steps, what is returned is the beginning of what was written, the
\* reader stands where the last of it ends, or inside the next record, and an
\* error other than a refusal comes after the last whole record.
ReadInv ==
  /\ Returned <= Len(written)
  /\ \A i \in 1 .. Returned : delivered[i] = written[i]
  /\ EndOf(Returned) <= Len(input)
  /\ totalBytes = pos
  /\ closed => outcome # {}
  /\ detected \in {"auto", writer.framing}
  /\ framing = "auto" /\ detected = "auto" => pc = "idle" /\ Returned = 0
  /\ pc \in {"idle", writer.framing}
  /\ pc # "idle" => outcome = {}
  /\ pc # "recordMarking" /\ outcome = {} => pos = EndOf(Returned)
  /\ pc = "recordMarking" => InRecord
  /\ outcome # {} /\ outcome # {"ErrRecordTooLarge"} => Exhausted

\* The three kinds of steps that a caller can tell apart: the next record comes
\* back whole, an error ends the reading, or neither yet.
Returns ==
  /\ outcome = {} /\ outcome' = {}
  /\ Returned < Len(written) /\ EndOf(Returned + 1) <= Len(input)
  /\ Len(written[Returned + 1]) <= maxRecordSize
  /\ delivered' = Append(delivered, written[Returned + 1])

GivesUp ==
  /\ outcome = {} /\ outcome' # {} /\ delivered' = delivered
  /\ IF outcome' = {"ErrRecordTooLarge"}
     THEN IF Exhausted THEN lost # 0 ELSE Len(written[Returned + 1]) > maxRecordSize
     ELSE /\ Exhausted /\ "ErrRecordTooLarge" \notin outcome'
          /\ "EOF" \in outcome' \/ lost # 0 \/ tail # "eof"

Quiet == outcome' = outcome /\ delivered' = delivered

CallerSees == Returns \/ GivesUp \/ Quiet

\* Nothing of the stream changes.
SameStream == UNCHANGED <<written, writer, ends, lost, source>>

\* No step of the reading changes the stream.
LEMMA StreamStays ==
  ASSUME Binary, SameStream
  PROVE  Binary'
BY DEF Binary, Stream, SameStream, source

\* A step that returns an error keeps the invariant.
LEMMA FailStays ==
  ASSUME TypeOK, ReadInv, SameStream, pc' = "idle", outcome' # {},
         delivered' = delivered, detected' = detected, totalBytes' = pos',
         outcome' # {"ErrRecordTooLarge"} => Exhausted
  PROVE  ReadInv'
<1>1. /\ EndOf(Returned)' = EndOf(Returned) /\ EndOf(Returned + 1)' = EndOf(Returned + 1)
      /\ Returned' = Returned /\ input' = input /\ writer' = writer /\ framing' = framing
      /\ written' = written
  BY DEF SameStream, source, EndOf, Returned
<1>2. Exhausted' <=> Exhausted
  BY <1>1 DEF Exhausted
<1> QED
  BY <1>1, <1>2 DEF ReadInv

\* A step that returns the next record keeps it.
LEMMA DeliverStays ==
  ASSUME TypeOK, Binary, ReadInv, SameStream, pc # "idle", pc' = "idle", outcome' = {},
         Returned < Len(written), delivered' = Append(delivered, written[Returned + 1]),
         detected' = detected, closed' = closed, totalBytes' = pos',
         pos' = EndOf(Returned + 1), pos' <= Len(input)
  PROVE  ReadInv'
<1>1. /\ input' = input /\ writer' = writer /\ framing' = framing /\ written' = written
      /\ ends' = ends
  BY DEF SameStream, source
<1>2. /\ Returned \in Nat /\ Returned' = Returned + 1 /\ Len(written) \in Nat
      /\ \A i \in 1 .. Returned : delivered'[i] = delivered[i]
      /\ delivered'[Returned + 1] = written[Returned + 1]
  <2>1. delivered \in Seq(Seq(Units)) /\ written \in Seq(Seq(Units))
    BY DEF TypeOK, Binary, Stream
  <2>2. Returned + 1 \in 1 .. Len(written)
    BY <2>1 DEF Returned
  <2>3. written[Returned + 1] \in Seq(Units)
    BY <2>1, <2>2
  <2> QED
    BY <2>1, <2>3 DEF Returned
<1>3. EndOf(Returned)' = EndOf(Returned + 1)
  BY <1>1, <1>2 DEF EndOf
<1>4. \A i \in 1 .. Returned' : delivered'[i] = written[i]
  <2> TAKE i \in 1 .. Returned'
  <2>1. i \in 1 .. Returned \/ i = Returned + 1
    BY <1>2
  <2>2. i \in 1 .. Returned => delivered[i] = written[i]
    BY DEF ReadInv
  <2>3. i \in 1 .. Returned => delivered'[i] = written[i]
    BY <1>2, <2>2, Zenon
  <2>4. i = Returned + 1 => delivered'[i] = written[i]
    BY <1>2, Zenon
  <2> QED
    BY <2>1, <2>3, <2>4, Zenon
<1>5. outcome = {} /\ ~closed /\ ~(framing = "auto" /\ detected = "auto")
  BY DEF ReadInv
<1>6. Returned' <= Len(written)
  BY <1>2
<1>7. (\A i \in 1 .. Returned : delivered[i] = written[i])'
  BY <1>1, <1>4, Zenon
<1>8. /\ pos' = EndOf(Returned)' /\ EndOf(Returned)' <= Len(input)
  BY <1>3
<1>9. detected \in {"auto", writer.framing} 
  BY DEF ReadInv
<1>10. (Returned <= Len(written))' /\ (EndOf(Returned) <= Len(input))' /\ (pos = EndOf(Returned))'
  BY <1>1, <1>6, <1>8, Zenon
<1> HIDE DEF Returned
<1> QED
  BY <1>1, <1>5, <1>7, <1>9, <1>10, Zenon DEF ReadInv

\* Where the end of the stream is.
LEMMA AllRead ==
  ASSUME Binary, TypeOK, ReadInv
  PROVE  /\ Returned \in Nat /\ Len(written) \in Nat /\ Len(input) \in Nat /\ EndOf(Returned) \in Nat
         /\ Returned = Len(written) => Len(input) <= EndOf(Returned)
         /\ Returned # Len(written) =>
              /\ Returned + 1 \in 1 .. Len(written) /\ (Returned + 1) - 1 = Returned
              /\ EndOf(Returned) + HeaderLen <= EndOf(Returned + 1)
              /\ EndOf(Returned + 1) \in Nat
              /\ 1 \in 1 .. Pieces(Returned + 1) /\ Start(1) = 0
              /\ Place(Returned + 1, 1) = EndOf(Returned)
<1>1. Returned \in Nat /\ Returned <= Len(written) /\ Len(written) \in Nat /\ Len(input) \in Nat /\ writer.frag \in Nat
  <2>1. delivered \in Seq(Seq(Units)) /\ input \in Seq(Units)
    BY DEF TypeOK
  <2> QED
    BY <2>1, BinaryParts DEF Returned, ReadInv
<1>2. EndOf(Returned) \in Nat
  BY <1>1, BinaryParts
<1>3. Returned = Len(written) => Len(input) <= EndOf(Returned)
  <2>1. /\ EndOf(Len(written)) = Len(Joined(Blocks(written, writer), Len(written)))
        /\ WrittenAll(written, writer) = Joined(Blocks(written, writer), Len(written))
        /\ Len(input) <= Len(WrittenAll(written, writer))
    <3>1. Len(written) \in 0 .. Len(written)
      BY <1>1
    <3> QED
      BY <3>1, BinaryParts, Zenon
  <2> QED
    BY <2>1
<1>4. ASSUME Returned # Len(written)
      PROVE  /\ Returned + 1 \in 1 .. Len(written) /\ (Returned + 1) - 1 = Returned
             /\ EndOf(Returned) + HeaderLen <= EndOf(Returned + 1)
             /\ EndOf(Returned + 1) \in Nat
             /\ 1 \in 1 .. Pieces(Returned + 1) /\ Start(1) = 0
             /\ Place(Returned + 1, 1) = EndOf(Returned)
  <2> DEFINE k == Returned + 1
  <2>1. k \in 1 .. Len(written) /\ k - 1 = Returned
    BY <1>1, <1>4
  <2> HIDE DEF k
  <2>2. Len(written[k]) \in Nat
    <3>1. written[k] \in Seq(Units)
      BY <2>1, BinaryParts, Zenon
    <3> QED
      BY <3>1
  <2>3. 1 \in 1 .. Pieces(k)
    <3>1. Pieces(k) \in Nat \ {0}
      BY <1>1, <2>2, Cuts, Zenon DEF Pieces
    <3> QED
      BY <3>1
  <2>4. StartOf(writer.frag, 1) = 0 /\ PlaceOf(writer.frag, 1) = 0
    BY <1>1 DEF StartOf, PlaceOf, HeaderLen
  <2>5. Place(k, 1) = EndOf(Returned)
    <3>1. EndOf(Returned) + 0 = EndOf(Returned)
      BY <1>2
    <3> QED
      BY <2>1, <2>4, <3>1, Zenon DEF Place
  <2>6. /\ Place(k, 1) + HeaderLen + Size(k, 1) <= EndOf(k) /\ Size(k, 1) \in Nat
        /\ EndOf(k) \in Nat
    BY <2>1, <2>3, FragmentInStream, Zenon
  <2>7. EndOf(Returned) + HeaderLen <= EndOf(k)
    BY <1>2, <2>5, <2>6 DEF HeaderLen
  <2>8. Start(1) = 0
    BY <2>4 DEF Start
  <2> QED
    BY <2>1, <2>3, <2>5, <2>6, <2>7, <2>8, Zenon DEF k
<1> QED
  BY <1>1, <1>2, <1>3, <1>4, Zenon

\* A record that is not all there was cut off.
LEMMA Torn ==
  ASSUME Binary, TypeOK, ReadInv, Exhausted, Returned # Len(written)
  PROVE  lost # 0
<1>1. Returned + 1 \in 1 .. Len(written) /\ EndOf(Returned + 1) \in Nat
  BY AllRead, Zenon
<1>2. EndOf(Returned + 1) > Len(input)
  BY DEF Exhausted
<1> DEFINE s == WrittenAll(written, writer)
           e == EndOf(Returned + 1)
<1>3. e <= Len(s)
  BY <1>1, RecordAt, Zenon
<1>4. Len(input) = Len(s) - lost /\ s \in Seq(Units) /\ lost \in Nat
  BY BinaryParts, Zenon
<1>5. e \in Nat /\ e > Len(input)
  BY <1>1, <1>2
<1> HIDE DEF s, e
<1> QED
  BY <1>3, <1>4, <1>5

\* An error at a header: at the end of a whole stream it is the end of input.
LEMMA HeaderError ==
  ASSUME Binary, TypeOK, ReadInv, Exhausted, HeaderRead.err # {},
         Returned = Len(written) => pos = EndOf(Returned)
  PROVE  /\ "ErrRecordTooLarge" \notin HeaderRead.err
         /\ "EOF" \in HeaderRead.err \/ lost # 0 \/ tail # "eof"
<1>1. "ErrRecordTooLarge" \notin HeaderRead.err
  <2>1. HeaderRead.err \in SUBSET {"EOF", "ErrUnexpectedEOF", "ReadError"}
    BY BinaryReads, TypeParts
  <2> QED
    BY <2>1
<1>2. CASE Returned # Len(written)
  BY <1>1, <1>2, Torn
<1>3. CASE Returned = Len(written)
  <2>1. Len(input) <= pos
    BY <1>3, AllRead
  <2>2. ~(pos < Len(input))
    BY <2>1 DEF TypeOK
  <2>3. HeaderRead.err = TailError
    BY <2>2 DEF HeaderRead, ReadFull
  <2>4. tail = "eof" => "EOF" \in HeaderRead.err
    BY <2>3 DEF TailError
  <2> QED
    BY <1>1, <2>4
<1> QED
  BY <1>2, <1>3

-----------------------------------------------------------------------------
(***************************************************************************)
(* The calls: detection and dispatch.                                      *)
(***************************************************************************)
\* The word of a header with the last-fragment bit does not begin like text.
LEMMA TopBit ==
  ASSUME NEW h \in Nat, RFC5531LastFragMask <= h
  PROVE  h \div Radix \notin TextUnits
<1> DEFINE u == h \div Radix
           v == h % Radix
<1>1. Radix \in Nat /\ Radix > 0 /\ HalfRadix \in Nat /\ HalfRadix - 1 \in Nat /\ (HalfRadix - 1) + 1 = HalfRadix
      /\ HalfRadix * Radix = RFC5531LastFragMask
  BY WordWidth, RadixAssumption DEF RFC5531LastFragMask
<1>2. u \in Nat /\ v \in Nat /\ v < Radix /\ h = u * Radix + v
  BY <1>1, Quotient, Zenon
<1> HIDE DEF u, v
<1>3. SUFFICES ASSUME u \in TextUnits PROVE FALSE
  BY DEF u
<1>4. u <= HalfRadix - 1
  BY <1>1, <1>2, <1>3, TextAssumption
<1>5. u * Radix <= (HalfRadix - 1) * Radix
  BY <1>1, <1>2, <1>4, Multiples, Zenon
<1>6. HalfRadix * Radix = (HalfRadix - 1) * Radix + Radix
  BY <1>1, Multiples
<1> DEFINE x == u * Radix
           y == (HalfRadix - 1) * Radix
<1>7. x \in Nat /\ y \in Nat
  BY <1>1, <1>2, Multiples, Zenon
<1>8. x <= y /\ RFC5531LastFragMask = y + Radix /\ h = x + v
  BY <1>1, <1>2, <1>5, <1>6
<1> HIDE DEF x, y
<1> QED
  BY <1>1, <1>2, <1>7, <1>8, WordWidth

\* What the first header of a stream says, where detection is attempted.
LEMMA DetectsItsWriter ==
  ASSUME Binary, NoTextHeader, TypeOK, ReadInv, framing = "auto", detected = "auto",
         outcome = {}, DetectError = {}
  PROVE  DetectFraming = writer.framing
<1>1. Returned = 0 /\ pc = "idle" /\ pos = EndOf(Returned)
  BY DEF ReadInv
<1>2. pos = 0
  BY <1>1 DEF EndOf
<1>3. Len(input) \in Nat /\ Len(input) >= HeaderLen
  <2>1. Len(input) - pos >= HeaderLen
    BY DEF DetectError, TailError
  <2> QED
    BY <1>2, <2>1 DEF TypeOK
<1>4. Returned # Len(written)
  BY <1>1, <1>2, <1>3, AllRead DEF HeaderLen
<1>5. /\ 1 \in 1 .. Len(written) /\ 1 \in 1 .. Pieces(1) /\ Place(1, 1) = 0 /\ Start(1) = 0
  <2>1. Returned + 1 = 1
    BY <1>1
  <2>2. /\ Returned + 1 \in 1 .. Len(written) /\ 1 \in 1 .. Pieces(Returned + 1)
        /\ Place(Returned + 1, 1) = EndOf(Returned) /\ Start(1) = 0
    BY <1>4, AllRead, Zenon
  <2> QED
    BY <1>1, <1>2, <2>1, <2>2, Zenon
<1>6. /\ input[1] = HeadAt(1, 1) \div Radix /\ input[2] = HeadAt(1, 1) % Radix
      /\ Header(0) = HeadAt(1, 1)
  <2>1. Place(1, 1) + HeaderLen <= Len(input) /\ 0 + 1 = 1 /\ 0 + 2 = 2
    BY <1>3, <1>5 DEF HeaderLen
  <2>2. /\ input[Place(1, 1) + 1] = HeadAt(1, 1) \div Radix
        /\ input[Place(1, 1) + 2] = HeadAt(1, 1) % Radix
        /\ Header(Place(1, 1)) = HeadAt(1, 1)
    BY <1>5, <2>1, FragmentInStream, Zenon
  <2>3. input[0 + 1] = input[1] /\ input[0 + 2] = input[2]
    BY <2>1, Zenon
  <2> QED
    BY <1>5, <2>2, <2>3, Zenon
<1>7. /\ writer \in Writers /\ writer.frag \in Nat /\ written[1] \in Seq(Units)
      /\ Len(written[1]) < RFC5531LastFragMask /\ Len(written[1]) <= MaxUnits
      /\ Len(written[1]) \in Nat /\ written # << >>
  <2>1. writer \in Writers /\ writer.frag \in Nat /\ written[1] \in Seq(Units)
        /\ Len(written[1]) < RFC5531LastFragMask /\ Len(written[1]) <= MaxUnits
    BY <1>5, BinaryParts, Zenon DEF Binary, Stream
  <2>2. written # << >>
    BY <1>5
  <2> QED
    BY <2>1, <2>2
<1>8. Pieces(1) = 1
  <2>1. CASE writer.framing = "recordMarking"
    <3>1. writer.frag = 0 \/ Len(written[1]) <= writer.frag
      BY <1>7, <2>1 DEF Binary, Stream, DetectableWriter
    <3> QED
      BY <1>7, <3>1 DEF Pieces, Count
  <2>2. CASE writer.framing # "recordMarking"
    <3>1. writer.frag = 0
      <4>1. writer \in [framing : {"lengthPrefixed", "base64Lines"}, frag : {0}]
        BY <1>7, <2>2 DEF Writers
      <4> QED
        BY <4>1
    <3> QED
      BY <3>1 DEF Pieces, Count
  <2> QED
    BY <2>1, <2>2
<1>9. Size(1, 1) = Len(written[1])
  BY <1>7, <1>8 DEF Size, SizeOf, StartOf, Pieces
<1>10. DetectFraming = IF input[1] \in TextUnits /\ input[2] \in TextUnits THEN "base64Lines"
                       ELSE IF IsLast(Header(0)) THEN "recordMarking" ELSE "lengthPrefixed"
  <2>1. (0 + 1) .. (0 + HeaderLen) = {1, 2}
    BY DEF HeaderLen
  <2>2. (\A i \in (pos + 1) .. (pos + HeaderLen) : input[i] \in TextUnits)
          <=> input[1] \in TextUnits /\ input[2] \in TextUnits
    BY <1>2, <2>1
  <2> QED
    BY <1>2, <2>2, Zenon DEF DetectFraming
<1>11. CASE writer.framing = "recordMarking"
  <2>1. HeadAt(1, 1) = RFC5531LastFragMask + Len(written[1])
    BY <1>8, <1>9, <1>11 DEF HeadAt, HeadOf, Size, Pieces
  <2>2. RFC5531LastFragMask <= HeadAt(1, 1) /\ HeadAt(1, 1) \in Nat
    BY <1>7, <2>1, WordWidth
  <2>3. input[1] \notin TextUnits
    BY <1>6, <2>2, TopBit
  <2>4. IsLast(Header(0))
    BY <1>6, <2>2 DEF IsLast
  <2> QED
    BY <1>10, <1>11, <2>3, <2>4
<1>12. CASE writer.framing = "lengthPrefixed"
  <2>1. HeadAt(1, 1) = Len(written[1])
    BY <1>8, <1>9, <1>12 DEF HeadAt, HeadOf, Size
  <2>2. ~(input[1] \in TextUnits /\ input[2] \in TextUnits)
    <3>1. HeadAt(1, 1) \in 0 .. MaxUnits
      BY <1>7, <2>1, RoundTripAssumption
    <3> QED
      BY <1>6, <3>1, Zenon DEF NoTextHeader
  <2>3. ~IsLast(Header(0))
    BY <1>6, <1>7, <2>1, WordWidth DEF IsLast
  <2> QED
    BY <1>10, <1>12, <2>2, <2>3
<1>13. writer.framing \in {"recordMarking", "lengthPrefixed"}
  <2>1. writer.framing # "base64Lines"
    BY DEF Binary
  <2> QED
    BY <1>7, <2>1 DEF Writers
<1> QED
  BY <1>11, <1>12, <1>13

\* The start of a call.
LEMMA CallerStays ==
  ASSUME Binary, NoTextHeader, TypeOK, IInv, ReadInv, CallerNext
  PROVE  ReadInv' /\ CallerSees
<1>1. outcome = {} /\ UNCHANGED <<written, writer, ends, lost>> /\ ~closed
  BY DEF CallerNext, ReadInv
<1>2. CASE NextDetectFails
  <2>1. /\ SameStream /\ pc' = "idle" /\ outcome' = DetectError /\ DetectError # {}
        /\ delivered' = delivered /\ detected' = detected /\ totalBytes' = totalBytes /\ pos' = pos
        /\ pc = "idle"
    BY <1>1, <1>2 DEF NextDetectFails, Fail, SameStream
  <2>2. Exhausted
    <3>1. pos = EndOf(Returned)
      BY <1>1, <2>1 DEF ReadInv
    <3>2. Len(input) - pos < HeaderLen
      <4>1. ~(Len(input) - pos >= HeaderLen)
        BY <2>1 DEF DetectError
      <4> QED
        BY <4>1 DEF HeaderLen, TypeOK
    <3> QED
      BY <3>1, <3>2, AllRead DEF Exhausted, HeaderLen
  <2>3. totalBytes' = pos'
    BY <2>1 DEF ReadInv
  <2>4. "ErrRecordTooLarge" \notin DetectError /\ ("EOF" \in DetectError \/ tail # "eof")
    BY <2>1 DEF DetectError, TailError
  <2>5. GivesUp
    BY <1>1, <2>1, <2>2, <2>4 DEF GivesUp
  <2>6. ReadInv'
    BY <2>1, <2>2, <2>3, FailStays
  <2> QED
    BY <2>5, <2>6 DEF CallerSees
<1>3. CASE NextUnknownFraming
  <2>1. writer.framing # "unknown" /\ framing \in {writer.framing, "auto"}
    BY DEF Binary, Stream, Writers
  <2> QED
    BY <1>3, <2>1 DEF NextUnknownFraming
<1>4. CASE NextDispatches
  <2>1. /\ input' = input /\ framing' = framing /\ written' = written /\ writer' = writer
        /\ ends' = ends /\ pos' = pos /\ totalBytes' = totalBytes /\ closed' = closed
        /\ record' = record /\ totalSize' = totalSize /\ outcome' = outcome /\ delivered' = delivered
        /\ pc = "idle"
        /\ detected' = IF Detecting THEN DetectFraming ELSE detected
        /\ pc' = EffectiveFraming
        /\ Detecting => DetectError = {}
    BY <1>1, <1>4 DEF NextDispatches, source
  <2>2. EffectiveFraming = writer.framing /\ detected' \in {"auto", writer.framing}
        /\ (framing = "auto" => detected' = writer.framing)
    <3>1. framing \in {writer.framing, "auto"} /\ detected \in {"auto", writer.framing}
      BY DEF Binary, Stream, ReadInv
    <3>2. CASE Detecting
      <4>1. DetectFraming = writer.framing
        BY <1>1, <2>1, <3>2, DetectsItsWriter DEF Detecting
      <4> QED
        BY <2>1, <3>1, <3>2, <4>1 DEF EffectiveFraming, Detecting
    <3>3. CASE ~Detecting
      BY <2>1, <3>1, <3>3 DEF EffectiveFraming, Detecting
    <3> QED
      BY <3>2, <3>3
  <2>3. writer.framing # "auto" /\ writer.framing # "idle"
    BY DEF Binary, Stream, Writers
  <2>4. pos = EndOf(Returned) /\ record = << >> /\ totalSize = 0
    BY <1>1, <2>1 DEF ReadInv, IInv, RecordInv
  <2>5. InRecord
    <3>1. CASE Returned = Len(written)
      BY <2>4, <3>1 DEF InRecord
    <3>2. CASE Returned # Len(written)
      <4>1. /\ 1 \in 1 .. Pieces(Returned + 1) /\ Start(1) = 0
            /\ Place(Returned + 1, 1) = EndOf(Returned)
        BY <3>2, AllRead, Zenon
      <4>2. Len(record) = 0 /\ \A q \in 1 .. 0 : record[q] = written[Returned + 1][q]
        BY <2>4
      <4> QED
        BY <2>4, <3>2, <4>1, <4>2 DEF InRecord
    <3> QED
      BY <3>1, <3>2
  <2>6. InRecord' <=> InRecord
    BY <2>1 DEF InRecord, Returned, EndOf, Place, Start, Pieces
  <2>7. /\ Returned' = Returned /\ EndOf(Returned)' = EndOf(Returned)
    BY <2>1 DEF Returned, EndOf
  <2>8. /\ Returned <= Len(written)
        /\ \A i \in 1 .. Returned : delivered[i] = written[i]
        /\ EndOf(Returned) <= Len(input)
        /\ totalBytes = pos
    BY DEF ReadInv
  <2> HIDE DEF Returned
  <2>9. ReadInv'
    BY <1>1, <2>1, <2>2, <2>3, <2>4, <2>5, <2>6, <2>7, <2>8 DEF ReadInv
  <2> QED
    BY <2>1, <2>9 DEF CallerSees, Quiet
<1>5. CASE CallDrain
  <2>1. /\ input' = input /\ framing' = framing /\ written' = written /\ writer' = writer
        /\ ends' = ends /\ pos' = pos /\ totalBytes' = totalBytes /\ closed' = closed
        /\ record' = record /\ totalSize' = totalSize /\ outcome' = outcome /\ delivered' = delivered
        /\ pc' = pc /\ detected' = detected /\ pc = "idle"
    BY <1>1, <1>5 DEF CallDrain, source
  <2>2. /\ Returned' = Returned /\ EndOf(Returned)' = EndOf(Returned)
    BY <2>1 DEF Returned, EndOf
  <2>3. ReadInv'
    BY <1>1, <2>1, <2>2, Zenon DEF ReadInv
  <2> QED
    BY <2>1, <2>3 DEF CallerSees, Quiet
<1>6. CASE NextClosed
  BY <1>1, <1>6 DEF NextClosed
<1> QED
  BY <1>2, <1>3, <1>4, <1>5, <1>6 DEF CallerNext, CallNext

-----------------------------------------------------------------------------
(***************************************************************************)
(* Reading a record of a length prefix.                                    *)
(***************************************************************************)
\* Consuming units keeps the count and the position together.
LEMMA CountKept ==
  ASSUME ReadInv, TypeOK, NEW n, Consume(n)
  PROVE  totalBytes' = pos'
BY DEF Consume, ReadInv

\* A header that is not all there means that the record is not either.
LEMMA HeaderShort ==
  ASSUME Binary, TypeOK, ReadInv, HeaderRead.err # {},
         \/ Returned = Len(written)
         \/ /\ Returned # Len(written)
            /\ \E f \in 1 .. Pieces(Returned + 1) : pos = Place(Returned + 1, f)
  PROVE  Exhausted
<1>1. Len(input) \in Nat /\ pos \in Nat /\ pos <= Len(input)
  BY DEF TypeOK
<1>2. pos + HeaderLen > Len(input)
  <2>1. input \in Seq(Units) /\ tail \in {"eof", "ioerr"} /\ pos \in 0 .. Len(input) /\ HeaderLen \in Nat
    BY DEF TypeOK, HeaderLen
  <2>2. HeaderRead.err = {} <=> HeaderLen <= Len(input) - pos
    BY <2>1, ReadFullSpec, Zenon DEF HeaderRead
  <2> QED
    BY <1>1, <2>2 DEF HeaderLen
<1>3. CASE Returned = Len(written)
  BY <1>3 DEF Exhausted
<1>4. CASE Returned # Len(written)
  <2>1. PICK f \in 1 .. Pieces(Returned + 1) : pos = Place(Returned + 1, f)
    BY <1>4
  <2>2. Returned + 1 \in 1 .. Len(written)
    BY <1>4, AllRead, Zenon
  <2> DEFINE k == Returned + 1
             z == Size(k, f)
             E == EndOf(k)
  <2>3. z \in Nat /\ E \in Nat /\ pos + HeaderLen + z <= E
    BY <2>1, <2>2, FragmentInStream, Zenon
  <2> HIDE DEF k, z
  <2>4. E > Len(input)
    <3> HIDE DEF E
    <3> QED
      BY <1>1, <1>2, <2>3 DEF HeaderLen
  <2> QED
    BY <2>4 DEF Exhausted, k
<1> QED
  BY <1>3, <1>4

\* A body that is not all there, likewise.
LEMMA BodyShort ==
  ASSUME Binary, TypeOK, Returned # Len(written), Returned + 1 \in 1 .. Len(written),
         NEW f \in 1 .. Pieces(Returned + 1), pos = Place(Returned + 1, f),
         pos + HeaderLen <= Len(input), ReadFull(Size(Returned + 1, f), pos + HeaderLen).err # {}
  PROVE  Exhausted
<1> DEFINE k == Returned + 1
           z == Size(k, f)
           E == EndOf(k)
<1>1. z \in Nat /\ E \in Nat /\ pos + HeaderLen + z <= E
  BY FragmentInStream, Zenon
<1>2. Len(input) \in Nat /\ pos \in Nat /\ input \in Seq(Units) /\ tail \in {"eof", "ioerr"}
      /\ pos + HeaderLen \in 0 .. Len(input)
  BY DEF TypeOK, HeaderLen
<1>3. ReadFull(z, pos + HeaderLen).err = {} <=> z <= Len(input) - (pos + HeaderLen)
  BY <1>1, <1>2, ReadFullSpec, Zenon
<1>4. ReadFull(z, pos + HeaderLen).err # {}
  OBVIOUS
<1> HIDE DEF k, z
<1>5. E > Len(input)
  <2> HIDE DEF E
  <2> QED
    BY <1>1, <1>2, <1>3, <1>4 DEF HeaderLen
<1> QED
  BY <1>5 DEF Exhausted, k

\* A whole body is the next part of the record.
LEMMA BodyWhole ==
  ASSUME Binary, TypeOK, Returned # Len(written), Returned + 1 \in 1 .. Len(written),
         NEW f \in 1 .. Pieces(Returned + 1), pos = Place(Returned + 1, f),
         pos + HeaderLen <= Len(input), ReadFull(Size(Returned + 1, f), pos + HeaderLen).err = {}
  PROVE  LET z == Size(Returned + 1, f)
             d == SubSeq(input, pos + HeaderLen + 1, pos + HeaderLen + z)
         IN  /\ d \in Seq(Units) /\ Len(d) = z /\ z \in Nat
             /\ pos + (HeaderLen + z) <= Len(input)
             /\ \A q \in 1 .. z : d[q] = written[Returned + 1][Start(f) + q]
<1> DEFINE k == Returned + 1
           z == Size(k, f)
           d == SubSeq(input, pos + HeaderLen + 1, pos + HeaderLen + z)
<1>1. z \in Nat
  BY FragmentInStream, Zenon
<1>2. Len(input) \in Nat /\ pos \in Nat /\ input \in Seq(Units) /\ tail \in {"eof", "ioerr"}
      /\ pos + HeaderLen \in 0 .. Len(input) /\ pos + HeaderLen \in Nat
  BY DEF TypeOK, HeaderLen
<1>3. ReadFull(z, pos + HeaderLen).err = {} <=> z <= Len(input) - (pos + HeaderLen)
  BY <1>1, <1>2, ReadFullSpec, Zenon
<1>4. ReadFull(z, pos + HeaderLen).err = {}
  OBVIOUS
<1>5. pos + HeaderLen + z <= Len(input) /\ pos + (HeaderLen + z) <= Len(input)
  <2> HIDE DEF z
  <2> QED
    BY <1>1, <1>2, <1>3, <1>4 DEF HeaderLen
<1>6. \A q \in 1 .. z : input[pos + HeaderLen + q] = written[k][Start(f) + q]
  BY <1>5, FragmentInStream, Zenon
<1>7. /\ d \in Seq(Units) /\ Len(d) = z
      /\ \A q \in 1 .. z : d[q] = input[pos + HeaderLen + q]
  <2> DEFINE p == pos + HeaderLen
             x == SubSeq(input, p + 1, p + z)
  <2>1. p \in Nat /\ p + z <= Len(input) /\ d = x
    BY <1>2, <1>5
  <2> HIDE DEF z, p, d
  <2>2. /\ x \in Seq(Units) /\ Len(x) = z
        /\ \A q \in 1 .. z : x[q] = input[p + q]
    BY <1>1, <1>2, <2>1, Piece
  <2> QED
    BY <2>1, <2>2, Zenon DEF p
<1> HIDE DEF d
<1>8. \A q \in 1 .. z : d[q] = written[k][Start(f) + q]
  BY <1>6, <1>7, Zenon
<1> QED
  BY <1>1, <1>5, <1>7, <1>8, Zenon DEF d

\* A binary stream gives the reader a header of the record that is next.
LEMMA HeaderHere ==
  ASSUME Binary, TypeOK, ReadInv, HeaderRead.err = {}, pos = EndOf(Returned) \/ Returned # Len(written)
  PROVE  /\ Returned # Len(written) /\ Returned + 1 \in 1 .. Len(written)
         /\ pos + HeaderLen <= Len(input)
<1>1. pos + HeaderLen <= Len(input)
  BY BinaryReads, TypeParts
<1>2. Returned # Len(written)
  <2>1. SUFFICES ASSUME Returned = Len(written) PROVE FALSE
    OBVIOUS
  <2>2. Len(input) <= pos
    BY <2>1, AllRead
  <2> QED
    BY <1>1, <2>2 DEF HeaderLen, TypeOK
<1> QED
  BY <1>1, <1>2, AllRead, Zenon

\* A record read in one piece by readLengthPrefixed.
LEMMA LengthPrefixedStays ==
  ASSUME Binary, TypeOK, ReadInv, SameStream, ReadLengthPrefixed
  PROVE  ReadInv' /\ CallerSees
<1> DEFINE k == Returned + 1
<1>1. /\ pc = "lengthPrefixed" /\ writer.framing = "lengthPrefixed" /\ outcome = {}
      /\ pos = EndOf(Returned)
  BY DEF ReadLengthPrefixed, PrefixFails, PrefixTooLarge, PrefixedDataFails, PrefixedRecord, ReadInv
<1>2. ASSUME Returned # Len(written)
      PROVE  /\ k \in 1 .. Len(written) /\ 1 \in 1 .. Pieces(k) /\ pos = Place(k, 1) /\ Start(1) = 0
             /\ Size(k, 1) = Len(written[k]) /\ HeadAt(k, 1) = Len(written[k])
             /\ 1 = Pieces(k) /\ written[k] \in Seq(Units)
  <2>1. /\ k \in 1 .. Len(written) /\ 1 \in 1 .. Pieces(k) /\ EndOf(Returned) = Place(k, 1) /\ Start(1) = 0
    BY <1>2, AllRead, Zenon
  <2>2. written[k] \in Seq(Units) /\ writer \in Writers
    BY <2>1, BinaryParts, Zenon DEF Binary, Stream
  <2>3. writer.frag = 0
    <3>1. writer \in [framing : {"lengthPrefixed", "base64Lines"}, frag : {0}]
      BY <1>1, <2>2 DEF Writers
    <3> QED
      BY <3>1
  <2>4. Pieces(k) = 1
    BY <2>3 DEF Pieces, Count
  <2>5. Size(k, 1) = Len(written[k])
    <3>1. Len(written[k]) \in Nat
      BY <2>2
    <3> QED
      BY <2>3, <2>4, <3>1 DEF Size, SizeOf, StartOf, Pieces
  <2>6. HeadAt(k, 1) = Len(written[k])
    BY <1>1, <2>5 DEF HeadAt, HeadOf, Size
  <2> QED
    BY <1>1, <2>1, <2>2, <2>4, <2>5, <2>6
<1>3. CASE PrefixFails
  <2> DEFINE err == IF "EOF" \in HeaderRead.err THEN {"EOF"} ELSE {"ErrPrematureEOF"} \cup HeaderRead.err
  <2>1. /\ HeaderRead.err # {} /\ Consume(HeaderRead.n) /\ FailReading(err)
    BY <1>3 DEF PrefixFails
  <2>2. err # {}
    OBVIOUS
  <2> HIDE DEF err
  <2>3. pc' = "idle" /\ outcome' # {} /\ delivered' = delivered /\ detected' = detected
    BY <2>1, <2>2 DEF FailReading, Fail
  <2>4. Returned # Len(written) => \E f \in 1 .. Pieces(Returned + 1) : pos = Place(Returned + 1, f)
    BY <1>2
  <2>5. Exhausted
    BY <2>1, <2>4, HeaderShort
  <2>6. /\ "ErrRecordTooLarge" \notin HeaderRead.err
        /\ "EOF" \in HeaderRead.err \/ lost # 0 \/ tail # "eof"
    BY <1>1, <2>1, <2>5, HeaderError
  <2>7. outcome' = err /\ "ErrRecordTooLarge" \notin err /\ ("EOF" \in err \/ lost # 0 \/ tail # "eof")
    BY <2>1, <2>6 DEF FailReading, Fail, err
  <2>8. GivesUp
    BY <1>1, <2>3, <2>5, <2>7 DEF GivesUp
  <2>9. ReadInv'
    BY <2>1, <2>3, <2>5, CountKept, FailStays
  <2> QED
    BY <2>8, <2>9 DEF CallerSees
<1>5. ASSUME HeaderRead.err = {}
      PROVE  /\ Returned # Len(written) /\ k \in 1 .. Len(written) /\ pos + HeaderLen <= Len(input)
             /\ 1 \in 1 .. Pieces(k) /\ pos = Place(k, 1) /\ Header(pos) = Size(k, 1)
             /\ Size(k, 1) = Len(written[k]) /\ Start(1) = 0 /\ 1 = Pieces(k) /\ written[k] \in Seq(Units)
  <2>1. Returned # Len(written) /\ k \in 1 .. Len(written) /\ pos + HeaderLen <= Len(input)
    BY <1>1, <1>5, HeaderHere, Zenon
  <2>2. /\ 1 \in 1 .. Pieces(k) /\ pos = Place(k, 1) /\ Start(1) = 0
        /\ Size(k, 1) = Len(written[k]) /\ HeadAt(k, 1) = Len(written[k])
        /\ 1 = Pieces(k) /\ written[k] \in Seq(Units)
    BY <1>2, <2>1, Zenon
  <2>3. Header(Place(k, 1)) = HeadAt(k, 1)
    BY <2>1, <2>2, FragmentInStream, Zenon
  <2> QED
    BY <2>1, <2>2, <2>3, Zenon
<1>4. CASE PrefixTooLarge
  <2>1. /\ Consume(HeaderLen) /\ pc' = "idle" /\ outcome' = {"ErrRecordTooLarge"}
        /\ delivered' = delivered /\ detected' = detected
    BY <1>4 DEF PrefixTooLarge, FailReading, Fail
  <2>2. HeaderRead.err = {} /\ Header(pos) > maxRecordSize
    BY <1>4 DEF PrefixTooLarge, TooLarge
  <2>3. Returned # Len(written) /\ Len(written[k]) > maxRecordSize
    BY <1>5, <2>2, Zenon
  <2>4. Exhausted => lost # 0
    BY <2>3, Torn
  <2>5. GivesUp
    BY <1>1, <2>1, <2>3, <2>4 DEF GivesUp
  <2>6. ReadInv'
    BY <2>1, CountKept, FailStays
  <2> QED
    BY <2>5, <2>6 DEF CallerSees
<1>6. CASE PrefixedDataFails
  <2>1. /\ HeaderRead.err = {} /\ PrefixedRead.err # {} /\ Consume(HeaderLen + PrefixedRead.n)
        /\ pc' = "idle" /\ outcome' = {"ErrPrematureEOF"} \cup PrefixedRead.err
        /\ delivered' = delivered /\ detected' = detected
    BY <1>6 DEF PrefixedDataFails, FailReading, Fail
  <2>2. ReadFull(Size(k, 1), pos + HeaderLen).err # {}
    BY <1>5, <2>1, Zenon DEF PrefixedRead
  <2>3. Exhausted
    BY <1>5, <2>1, <2>2, BodyShort, Zenon
  <2>4. outcome' # {}
    BY <2>1
  <2>5. "ErrRecordTooLarge" \notin outcome'
    <3>1. ReaderOK /\ Header(pos) \in Nat
      BY <2>1, TypeParts, BinaryReads
    <3>2. PrefixedRead.err \in SUBSET {"EOF", "ErrUnexpectedEOF", "ReadError"}
      BY <2>1, <3>1, BodyReads DEF PrefixedRead
    <3> QED
      BY <2>1, <3>2
  <2>6. lost # 0
    BY <1>5, <2>1, <2>3, Torn
  <2>7. GivesUp
    BY <1>1, <2>1, <2>3, <2>4, <2>5, <2>6 DEF GivesUp
  <2>8. ReadInv'
    BY <2>1, <2>3, <2>4, CountKept, FailStays, Zenon
  <2> QED
    BY <2>7, <2>8 DEF CallerSees
<1>7. CASE PrefixedRecord
  <2> DEFINE z == Size(k, 1)
             d == SubSeq(input, pos + HeaderLen + 1, pos + HeaderLen + z)
  <2>1. /\ HeaderRead.err = {} /\ PrefixedRead.err = {} /\ Consume(HeaderLen + Header(pos))
        /\ Deliver(SubSeq(input, pos + HeaderLen + 1, pos + HeaderLen + Header(pos)))
    BY <1>7 DEF PrefixedRecord
  <2>2. /\ Consume(HeaderLen + z) /\ Deliver(d)
    BY <1>5, <2>1, Zenon
  <2>3. ReadFull(Size(k, 1), pos + HeaderLen).err = {}
    BY <1>5, <2>1, Zenon DEF PrefixedRead
  <2>4. /\ d \in Seq(Units) /\ Len(d) = z /\ z \in Nat /\ pos + (HeaderLen + z) <= Len(input)
        /\ \A q \in 1 .. z : d[q] = written[k][Start(1) + q]
    BY <1>5, <2>1, <2>3, BodyWhole, Zenon
  <2>5. d = written[k]
    <3>1. written[k] \in Seq(Units) /\ Len(written[k]) = z /\ Start(1) = 0
      BY <1>5, <2>1, Zenon
    <3> HIDE DEF d, z
    <3>2. \A q \in 1 .. z : d[q] = written[k][q]
      BY <2>4, <3>1
    <3> QED
      BY <2>4, <3>1, <3>2, SeqEqual
  <2>6. pos + HeaderLen + z = EndOf(k)
    BY <1>5, <2>1, FragmentInStream, Zenon
  <2>7. /\ pc' = "idle" /\ outcome' = {} /\ delivered' = Append(delivered, written[k])
        /\ detected' = detected /\ closed' = closed
    BY <2>2, <2>5, Zenon DEF Deliver
  <2>8. pos' = EndOf(k) /\ pos' <= Len(input)
    <3>1. pos' = pos + (HeaderLen + z) /\ pos \in Nat
      BY <2>2 DEF Consume, TypeOK
    <3> HIDE DEF z
    <3> QED
      BY <2>4, <2>6, <3>1 DEF HeaderLen
  <2>9. Returned < Len(written)
    <3>1. Returned # Len(written)
      BY <1>5, <2>1
    <3> QED
      BY <3>1, AllRead DEF ReadInv
  <2>10. totalBytes' = pos' /\ pc # "idle"
    BY <1>1, <2>2, CountKept
  <2>11. Len(written[k]) <= maxRecordSize
    <3>1. Header(pos) = Len(written[k]) /\ ~TooLarge(Header(pos)) /\ written[k] \in Seq(Units)
      BY <1>5, <1>7, Zenon DEF PrefixedRecord
    <3> QED
      BY <3>1 DEF TooLarge, TypeOK
  <2>12. Returns
    BY <1>1, <2>7, <2>8, <2>9, <2>11, Zenon DEF Returns
  <2>13. ReadInv'
    BY <2>7, <2>8, <2>9, <2>10, DeliverStays, Zenon
  <2> QED
    BY <2>12, <2>13 DEF CallerSees
<1> QED
  BY <1>3, <1>4, <1>6, <1>7 DEF ReadLengthPrefixed

-----------------------------------------------------------------------------
(***************************************************************************)
(* Reading a record of several fragments.                                  *)
(***************************************************************************)
\* A remainder above one multiple.
LEMMA RemainderAbove ==
  ASSUME NEW s \in Nat, NEW n \in Nat, s < n
  PROVE  (n + s) % n = s
OBVIOUS

\* What a fragment header says.
LEMMA HeadSays ==
  ASSUME Binary, writer.framing = "recordMarking", NEW k \in 1 .. Len(written), NEW f \in 1 .. Pieces(k)
  PROVE  /\ FragLen(HeadAt(k, f)) = Size(k, f)
         /\ IsLast(HeadAt(k, f)) <=> f = Pieces(k)
         /\ Size(k, f) \in Nat /\ Size(k, f) < RFC5531LastFragMask
         /\ Start(f) \in Nat /\ Start(f) + Size(k, f) <= Len(written[k])
         /\ f = Pieces(k) => Start(f) + Size(k, f) = Len(written[k])
         /\ f # Pieces(k) => Start(f + 1) = Start(f) + Size(k, f) /\ f + 1 \in 1 .. Pieces(k)
         /\ Len(written[k]) < RFC5531LastFragMask /\ written[k] \in Seq(Units)
<1> DEFINE n == Len(written[k])
           z == Size(k, f)
<1>1. /\ written[k] \in Seq(Units) /\ n < RFC5531LastFragMask /\ writer \in Writers /\ writer.frag \in Nat
  BY BinaryParts, Zenon DEF Binary, Stream
<1>2. n \in Nat
  BY <1>1
<1>3. z \in Nat /\ z < RFC5531LastFragMask
  BY <1>1, <1>2, HeadFits, Zenon DEF Size, Pieces
<1>4. HeadAt(k, f) = IF f = Pieces(k) THEN RFC5531LastFragMask + z ELSE z
  BY DEF HeadAt, HeadOf, Size, Pieces
<1>5. /\ Start(f) \in Nat /\ Start(f) + z <= n
      /\ f = Pieces(k) => Start(f) + z = n
      /\ f # Pieces(k) => Start(f + 1) = Start(f) + z
  <2> DEFINE m == writer.frag
             c == Count(n, m)
  <2>1. n \in Nat /\ m \in Nat /\ f \in 1 .. c
    BY <1>1, <1>2 DEF Pieces
  <2>2. /\ StartOf(m, f) \in Nat /\ StartOf(m, f) + SizeOf(n, m, f) <= n
        /\ f = c => StartOf(m, f) + SizeOf(n, m, f) = n
        /\ f # c => SizeOf(n, m, f) = m /\ StartOf(m, f + 1) = StartOf(m, f) + m
    BY <2>1, CutAt, ZenonT(60)
  <2>3. /\ Start(f) = StartOf(m, f) /\ Start(f + 1) = StartOf(m, f + 1)
        /\ z = SizeOf(n, m, f) /\ Pieces(k) = c
    BY DEF Start, Size, Pieces
  <2> HIDE DEF m, c, n, z
  <2> QED
    BY <2>2, <2>3, Zenon
<1>6. f # Pieces(k) => f + 1 \in 1 .. Pieces(k)
  <2>1. Pieces(k) \in Nat
    BY <1>1, <1>2, Cuts, Zenon DEF Pieces
  <2> QED
    BY <2>1
<1> HIDE DEF n, z
<1>7. z % RFC5531LastFragMask = z /\ (RFC5531LastFragMask + z) % RFC5531LastFragMask = z
  BY <1>3, WordWidth, SmallRemainder, RemainderAbove
<1>8. FragLen(HeadAt(k, f)) = z
  BY <1>4, <1>7 DEF FragLen
<1>9. IsLast(HeadAt(k, f)) <=> f = Pieces(k)
  BY <1>3, <1>4, WordWidth DEF IsLast
<1> QED
  BY <1>1, <1>3, <1>5, <1>6, <1>8, <1>9, Zenon DEF n, z

\* The record that is put together, with the next fragment appended.
LEMMA ExtendedIs ==
  ASSUME NEW part \in Seq(Units), NEW data \in Seq(Units), NEW full \in Seq(Units),
         \A q \in 1 .. Len(part) : part[q] = full[q],
         \A q \in 1 .. Len(data) : data[q] = full[Len(part) + q]
  PROVE  /\ part \o data \in Seq(Units) /\ Len(part \o data) = Len(part) + Len(data)
         /\ \A q \in 1 .. (Len(part) + Len(data)) : (part \o data)[q] = full[q]
         /\ Len(part) + Len(data) = Len(full) => part \o data = full
<1> DEFINE x == part \o data
           len == Len(part)
           more == Len(data)
<1>1. /\ x \in Seq(Units) /\ Len(x) = len + more
      /\ \A q \in 1 .. len : x[q] = part[q]
      /\ \A q \in 1 .. more : x[len + q] = data[q]
      /\ len \in Nat /\ more \in Nat
      /\ \A q \in 1 .. len : part[q] = full[q]
      /\ \A q \in 1 .. more : data[q] = full[len + q]
  <2>1. /\ part \o data \in Seq(Units) /\ Len(part \o data) = Len(part) + Len(data)
        /\ Len(part) \in Nat /\ Len(data) \in Nat
        /\ \A q \in 1 .. Len(part) : (part \o data)[q] = part[q]
        /\ \A q \in 1 .. Len(data) : (part \o data)[Len(part) + q] = data[q]
    BY JoinTwo
  <2> QED
    BY <2>1, Zenon
<1> HIDE DEF x, len, more
<1>2. \A q \in 1 .. (len + more) : x[q] = full[q]
  <2> TAKE q \in 1 .. (len + more)
  <2>1. CASE q <= len
    <3>1. q \in 1 .. len
      BY <2>1
    <3> QED
      BY <1>1, <3>1, Zenon
  <2>2. CASE ~(q <= len)
    <3>1. PICK p \in 1 .. more : len + p = q
      <4>1. q - len \in 1 .. more /\ len + (q - len) = q
        BY <1>1, <2>2
      <4> QED
        BY <4>1
    <3>2. x[len + p] = data[p] /\ data[p] = full[len + p]
      BY <1>1, Zenon
    <3> QED
      BY <3>1, <3>2, Zenon
  <2> QED
    BY <2>1, <2>2, Zenon
<1>3. len + more = Len(full) => x = full
  <2> SUFFICES ASSUME len + more = Len(full) PROVE x = full
    OBVIOUS
  <2>1. Len(x) = Len(full) /\ \A q \in 1 .. Len(x) : x[q] = full[q]
    BY <1>1, <1>2, Zenon
  <2> QED
    BY <1>1, <2>1, SeqEqual
<1> QED
  BY <1>1, <1>2, <1>3, Zenon DEF x, len, more

\* One turn of readRecordMarking.
LEMMA RecordMarkingStays ==
  ASSUME Binary, TypeOK, ReadInv, SameStream, ReadRecordMarking
  PROVE  ReadInv' /\ CallerSees
<1> DEFINE k == Returned + 1
<1>1. /\ pc = "recordMarking" /\ writer.framing = "recordMarking" /\ outcome = {} /\ InRecord
  BY DEF ReadRecordMarking, FragmentHeaderFails, EmptyLastFragment, FragmentTooLarge, DataFragment,
         FragmentBodyFails, ReadFragment, ReadInv
<1>2. CASE FragmentHeaderFails
  <2> DEFINE err == IF "EOF" \in HeaderRead.err /\ record = << >>
                    THEN {"EOF"} ELSE {"ErrPrematureEOF"} \cup HeaderRead.err
  <2>1. /\ HeaderRead.err # {} /\ Consume(HeaderRead.n) /\ FailReading(err)
    BY <1>2 DEF FragmentHeaderFails
  <2>2. err # {}
    OBVIOUS
  <2> HIDE DEF err
  <2>3. pc' = "idle" /\ outcome' # {} /\ delivered' = delivered /\ detected' = detected
    BY <2>1, <2>2 DEF FailReading, Fail
  <2>4. Returned # Len(written) => \E f \in 1 .. Pieces(Returned + 1) : pos = Place(Returned + 1, f)
    BY <1>1 DEF InRecord
  <2>5. Exhausted
    BY <2>1, <2>4, HeaderShort
  <2>10. Returned = Len(written) => pos = EndOf(Returned)
    BY <1>1 DEF InRecord
  <2>6. /\ "ErrRecordTooLarge" \notin HeaderRead.err
        /\ "EOF" \in HeaderRead.err \/ lost # 0 \/ tail # "eof"
    BY <2>1, <2>5, <2>10, HeaderError
  <2>7. outcome' = err /\ "ErrRecordTooLarge" \notin err /\ ("EOF" \in err \/ lost # 0 \/ tail # "eof")
    BY <2>1, <2>6 DEF FailReading, Fail, err
  <2>8. GivesUp
    BY <1>1, <2>3, <2>5, <2>7 DEF GivesUp
  <2>9. ReadInv'
    BY <2>1, <2>3, <2>5, CountKept, FailStays
  <2> QED
    BY <2>8, <2>9 DEF CallerSees
<1>4. ASSUME HeaderRead.err = {}
      PROVE  /\ Returned # Len(written) /\ k \in 1 .. Len(written) /\ pos + HeaderLen <= Len(input)
             /\ Returned < Len(written)
             /\ \E f \in 1 .. Pieces(k) :
                  /\ pos = Place(k, f) /\ totalSize = Start(f) /\ Len(record) = Start(f)
                  /\ \A q \in 1 .. Start(f) : record[q] = written[k][q]
  <2>1. pos = EndOf(Returned) \/ Returned # Len(written)
    BY <1>1 DEF InRecord
  <2>2. Returned # Len(written) /\ k \in 1 .. Len(written) /\ pos + HeaderLen <= Len(input)
    BY <1>4, <2>1, HeaderHere, Zenon
  <2>3. Returned < Len(written)
    BY <2>2, AllRead DEF ReadInv
  <2> QED
    BY <1>1, <2>2, <2>3, Zenon DEF InRecord
<1>5. CASE HeaderRead.err = {}
  <2>1. /\ Returned # Len(written) /\ k \in 1 .. Len(written) /\ pos + HeaderLen <= Len(input)
        /\ Returned < Len(written)
    BY <1>4, <1>5
  <2>2. PICK f \in 1 .. Pieces(k) :
           /\ pos = Place(k, f) /\ totalSize = Start(f) /\ Len(record) = Start(f)
           /\ \A q \in 1 .. Start(f) : record[q] = written[k][q]
    BY <1>4, <1>5
  <2> DEFINE z == Size(k, f)
             s == Start(f)
             d == SubSeq(input, pos + HeaderLen + 1, pos + HeaderLen + z)
             h == Header(pos)
  <2>3. h = HeadAt(k, f)
    BY <2>1, <2>2, FragmentInStream, Zenon
  <2>4. /\ FragLen(h) = z /\ (IsLast(h) <=> f = Pieces(k))
        /\ z \in Nat /\ z < RFC5531LastFragMask /\ s \in Nat /\ s + z <= Len(written[k])
        /\ f = Pieces(k) => s + z = Len(written[k])
        /\ f # Pieces(k) => Start(f + 1) = s + z /\ f + 1 \in 1 .. Pieces(k)
        /\ Len(written[k]) < RFC5531LastFragMask /\ written[k] \in Seq(Units)
    BY <1>1, <2>1, <2>3, HeadSays, Zenon
  <2>5. /\ f = Pieces(k) => pos + HeaderLen + z = EndOf(k)
        /\ f # Pieces(k) => pos + HeaderLen + z = Place(k, f + 1)
        /\ EndOf(k) \in Nat /\ pos + HeaderLen + z <= EndOf(k)
    BY <2>1, <2>2, FragmentInStream, Zenon
  <2>6. pos \in Nat /\ record \in Seq(Units) /\ totalSize \in Nat
    BY WordWidth DEF TypeOK
  <2>7. ReadFull(z, pos + HeaderLen).err = {} =>
          /\ d \in Seq(Units) /\ Len(d) = z /\ pos + (HeaderLen + z) <= Len(input)
          /\ \A q \in 1 .. z : d[q] = written[k][s + q]
    BY <2>1, <2>2, BodyWhole, Zenon
  <2>8. ReadFull(z, pos + HeaderLen).err # {} => Exhausted
    BY <2>1, <2>2, BodyShort, Zenon
  <2>9. /\ record \o d \in Seq(Units) \/ ReadFull(z, pos + HeaderLen).err # {}
        /\ ReadFull(z, pos + HeaderLen).err = {} =>
             /\ Len(record \o d) = s + z
             /\ \A q \in 1 .. (s + z) : (record \o d)[q] = written[k][q]
             /\ s + z = Len(written[k]) => record \o d = written[k]
    <3> SUFFICES ASSUME ReadFull(z, pos + HeaderLen).err = {}
                 PROVE  /\ record \o d \in Seq(Units)
                        /\ Len(record \o d) = s + z
                        /\ \A q \in 1 .. (s + z) : (record \o d)[q] = written[k][q]
                        /\ s + z = Len(written[k]) => record \o d = written[k]
      OBVIOUS
    <3>1. /\ d \in Seq(Units) /\ Len(d) = z /\ Len(record) = s
          /\ \A q \in 1 .. z : d[q] = written[k][s + q]
          /\ \A q \in 1 .. s : record[q] = written[k][q]
      BY <2>2, <2>7, Zenon
    <3>2. record \in Seq(Units) /\ written[k] \in Seq(Units)
      BY <2>4, <2>6
    <3> HIDE DEF d, z, s
    <3>3. /\ \A q \in 1 .. Len(record) : record[q] = written[k][q]
          /\ \A q \in 1 .. Len(d) : d[q] = written[k][Len(record) + q]
      BY <3>1, Zenon
    <3> DEFINE w == written[k]
    <3>5. /\ record \in Seq(Units) /\ d \in Seq(Units) /\ w \in Seq(Units)
          /\ \A q \in 1 .. Len(record) : record[q] = w[q]
          /\ \A q \in 1 .. Len(d) : d[q] = w[Len(record) + q]
      BY <3>1, <3>2, <3>3, Zenon
    <3> HIDE DEF w, k, h
    <3>4. record \o d \in Seq(Units)
      BY <3>5, ExtendedIs
    <3>6. Len(record \o d) = Len(record) + Len(d)
      BY <3>5
    <3>7. \A q \in 1 .. (Len(record) + Len(d)) : (record \o d)[q] = w[q]
      BY <3>5, ExtendedIs
    <3>8. Len(record) + Len(d) = Len(w) => record \o d = w
      BY <3>5, ExtendedIs
    <3> QED
      BY <3>1, <3>4, <3>6, <3>7, <3>8, Zenon DEF w
  <2>20. s + z <= RFC5531LastFragMask /\ s <= RFC5531LastFragMask
    <3> HIDE DEF s, z
    <3>1. Len(written[k]) \in Nat
      BY <2>4
    <3> QED
      BY <2>4, <3>1, WordWidth
  <2>21. AddSize(totalSize, FragLen(h)) = s + z
    <3>1. AddSize(s, z) = s + z
      BY <2>4, <2>20, NoWrap, Zenon
    <3> QED
      BY <2>2, <2>4, <3>1, Zenon
  <2>22. maxRecordSize \in Nat /\ Len(written[k]) \in Nat
    BY <2>4 DEF TypeOK
  <2>13. CASE FragmentTooLarge
    <3>1. /\ Consume(HeaderLen) /\ pc' = "idle" /\ outcome' = {"ErrRecordTooLarge"}
          /\ delivered' = delivered /\ detected' = detected
          /\ TooLarge(AddSize(totalSize, FragLen(h)))
      BY <2>13 DEF FragmentTooLarge, FailReading, Fail
    <3>2. Len(written[k]) > maxRecordSize
      <4>1. s + z > maxRecordSize
        BY <2>21, <3>1 DEF TooLarge
      <4> HIDE DEF s, z
      <4> QED
        BY <2>4, <2>22, <4>1
    <3>3. Exhausted => lost # 0
      BY <2>1, Torn
    <3>4. GivesUp
      BY <1>1, <3>1, <3>2, <3>3 DEF GivesUp
    <3>5. ReadInv'
      BY <3>1, CountKept, FailStays
    <3> QED
      BY <3>4, <3>5 DEF CallerSees
  <2>10. CASE EmptyLastFragment
    <3>1. /\ FragLen(h) = 0 /\ IsLast(h) /\ Consume(HeaderLen) /\ Deliver(record)
      BY <2>10 DEF EmptyLastFragment
    <3>2. z = 0 /\ f = Pieces(k) /\ s = Len(written[k])
      <4> HIDE DEF z, s, h
      <4> QED
        BY <2>4, <3>1
    <3>3. record = written[k]
      <4>1. Len(record) = Len(written[k]) /\ \A q \in 1 .. Len(record) : record[q] = written[k][q]
        BY <2>2, <3>2, Zenon
      <4> QED
        BY <2>4, <2>6, <4>1, SeqEqual, Zenon
    <3>4. pos' = EndOf(k)
      <4>1. pos' = pos + HeaderLen
        BY <3>1 DEF Consume
      <4> HIDE DEF z
      <4> QED
        BY <2>5, <2>6, <3>2, <4>1 DEF HeaderLen
    <3>5. pos' <= Len(input)
      BY <2>1, <3>1 DEF Consume
    <3>6. /\ pc' = "idle" /\ outcome' = {} /\ delivered' = Append(delivered, written[k])
          /\ detected' = detected /\ closed' = closed
      BY <3>1, <3>3, Zenon DEF Deliver
    <3>7. totalBytes' = pos' /\ pc # "idle"
      BY <1>1, <3>1, CountKept
    <3>8. Len(written[k]) <= maxRecordSize
      <4>1. f = 1
        <5> DEFINE m == writer.frag
                   n == Len(written[k])
        <5>1. m \in Nat /\ n \in Nat /\ f \in 1 .. Count(n, m) /\ SizeOf(n, m, f) = 0
          BY <2>1, <2>22, <3>2, BinaryParts DEF Size, Pieces
        <5>2. ~(0 < m /\ m < n)
          <6>1. 0 < m /\ m < n => SizeOf(n, m, f) > 0
            BY <5>1, CutAt, Zenon
          <6> QED
            BY <5>1, <6>1
        <5>3. Count(n, m) = 1
          BY <5>1, <5>2 DEF Count
        <5> QED
          BY <5>1, <5>3
      <4>2. Len(written[k]) = 0
        <5>1. writer.frag \in Nat
          BY BinaryParts
        <5>2. Start(f) = 0
          BY <4>1, <5>1 DEF Start, StartOf
        <5> QED
          BY <3>2, <5>2
      <4> QED
        BY <4>2 DEF TypeOK
    <3>9. Returns
      BY <1>1, <2>1, <3>4, <3>5, <3>6, <3>8, Zenon DEF Returns
    <3>10. ReadInv'
      BY <2>1, <3>4, <3>5, <3>6, <3>7, DeliverStays, Zenon
    <3> QED
      BY <3>9, <3>10 DEF CallerSees
  <2>11. CASE FragmentBodyFails
    <3>1. /\ BodyRead.err # {} /\ Consume(HeaderLen + BodyRead.n)
          /\ pc' = "idle" /\ outcome' = {"ErrPrematureEOF"} \cup BodyRead.err
          /\ delivered' = delivered /\ detected' = detected
      BY <2>11 DEF FragmentBodyFails, FailReading, Fail
    <3>2. ReadFull(z, pos + HeaderLen).err # {}
      BY <2>4, <3>1, Zenon DEF BodyRead
    <3>3. outcome' # {} /\ Exhausted
      BY <2>8, <3>1, <3>2
    <3>4. "ErrRecordTooLarge" \notin outcome'
      <4>1. ReaderOK /\ FragLen(h) \in Nat
        BY <2>4, TypeParts, Zenon
      <4>2. BodyRead.err \in SUBSET {"EOF", "ErrUnexpectedEOF", "ReadError"}
        BY <1>5, <4>1, BodyReads DEF BodyRead
      <4> QED
        BY <3>1, <4>2
    <3>5. lost # 0
      BY <2>1, <3>3, Torn
    <3>6. GivesUp
      BY <1>1, <3>1, <3>3, <3>4, <3>5 DEF GivesUp
    <3>7. ReadInv'
      BY <3>1, <3>3, CountKept, FailStays, Zenon
    <3> QED
      BY <3>6, <3>7 DEF CallerSees
  <2>12. CASE ReadFragment
    <3>1. /\ BodyRead.err = {} /\ Consume(HeaderLen + FragLen(h))
          /\ \/ IsLast(h) /\ Deliver(Extended)
             \/ /\ ~IsLast(h) /\ record' = Extended /\ totalSize' = AddSize(totalSize, FragLen(h))
                /\ UNCHANGED <<detected, chunkIndex, closed, pc, outcome, delivered, draining, drain>>
      BY <2>12 DEF ReadFragment
    <3>2. ReadFull(z, pos + HeaderLen).err = {} /\ Consume(HeaderLen + z) /\ Extended = record \o d
      BY <2>4, <3>1, Zenon DEF BodyRead, Extended
    <3>3. pos' = pos + HeaderLen + z /\ pos' <= Len(input)
      <4>1. pos' = pos + (HeaderLen + z) /\ pos + (HeaderLen + z) <= Len(input)
        BY <2>7, <3>2 DEF Consume
      <4> HIDE DEF z
      <4> QED
        BY <2>4, <2>6, <4>1 DEF HeaderLen
    <3>4. totalBytes' = pos' /\ pc # "idle"
      BY <1>1, <3>2, CountKept
    <3>5. CASE IsLast(h) /\ Deliver(Extended)
      <4>1. f = Pieces(k) /\ record \o d = written[k]
        BY <2>4, <2>9, <3>2, <3>5, Zenon
      <4>2. /\ pc' = "idle" /\ outcome' = {} /\ delivered' = Append(delivered, written[k])
            /\ detected' = detected /\ closed' = closed
        BY <3>2, <3>5, <4>1, Zenon DEF Deliver
      <4>3. pos' = EndOf(k)
        BY <2>5, <3>3, <4>1, Zenon
      <4>4. Len(written[k]) <= maxRecordSize
        <5>1. ~(s + z > maxRecordSize)
          BY <2>12, <2>21 DEF ReadFragment, TooLarge
        <5> HIDE DEF s, z
        <5> QED
          BY <2>4, <2>22, <4>1, <5>1
      <4>5. Returns
        BY <1>1, <2>1, <3>3, <4>2, <4>3, <4>4, Zenon DEF Returns
      <4>6. ReadInv'
        BY <2>1, <3>3, <3>4, <4>2, <4>3, DeliverStays, Zenon
      <4> QED
        BY <4>5, <4>6 DEF CallerSees
    <3>6. CASE ~IsLast(h) /\ record' = Extended /\ totalSize' = AddSize(totalSize, FragLen(h))
               /\ UNCHANGED <<detected, chunkIndex, closed, pc, outcome, delivered, draining, drain>>
      <4>1. f # Pieces(k) /\ Start(f + 1) = s + z /\ f + 1 \in 1 .. Pieces(k)
        BY <2>4, <3>6, Zenon
      <4>2. pos' = Place(k, f + 1)
        BY <2>5, <3>3, <4>1, Zenon
      <4>3. totalSize' = Start(f + 1)
        <5>1. totalSize' = AddSize(totalSize, FragLen(h))
          BY <3>6
        <5> QED
          BY <2>21, <4>1, <5>1, Zenon
      <4>4. /\ Len(record') = Start(f + 1)
            /\ \A q \in 1 .. Start(f + 1) : record'[q] = written[k][q]
        BY <2>9, <3>2, <3>6, <4>1, Zenon
      <4>5. /\ input' = input /\ framing' = framing /\ written' = written /\ writer' = writer
            /\ ends' = ends /\ closed' = closed /\ outcome' = outcome /\ delivered' = delivered
            /\ pc' = pc /\ detected' = detected
        BY <3>6 DEF SameStream, source
      <4>6. /\ Returned' = Returned /\ EndOf(Returned)' = EndOf(Returned) /\ Pieces(k)' = Pieces(k)
            /\ \A g : Place(k, g)' = Place(k, g) /\ Start(g)' = Start(g)
        BY <4>5 DEF Returned, EndOf, Place, Start, Pieces
      <4>7. InRecord'
        <5>1. Returned' # Len(written')
          BY <2>1, <4>5, <4>6
        <5>2. \E g \in 1 .. Pieces(k) :
                 /\ pos' = Place(k, g) /\ totalSize' = Start(g) /\ Len(record') = Start(g)
                 /\ \A q \in 1 .. Start(g) : record'[q] = written[k][q]
          BY <4>1, <4>2, <4>3, <4>4, Zenon
        <5>3. (\E g \in 1 .. Pieces(Returned + 1) :
                 /\ pos = Place(Returned + 1, g) /\ totalSize = Start(g) /\ Len(record) = Start(g)
                 /\ \A q \in 1 .. Start(g) : record[q] = written[Returned + 1][q])'
          <6>1. Returned' + 1 = k
            BY <4>6, Zenon
          <6>2. Pieces(Returned + 1)' = Pieces(k) /\ written'[Returned' + 1] = written[k]
                /\ \A g : Place(Returned + 1, g)' = Place(k, g) /\ Start(g)' = Start(g)
            BY <4>5, <4>6 DEF Returned, EndOf, Place, Start, Pieces
          <6> HIDE DEF k
          <6>3. PICK g \in 1 .. Pieces(k) :
                  /\ pos' = Place(k, g) /\ totalSize' = Start(g) /\ Len(record') = Start(g)
                  /\ \A q \in 1 .. Start(g) : record'[q] = written[k][q]
            BY <5>2
          <6>4. /\ g \in 1 .. Pieces(Returned + 1)'
                /\ pos' = Place(Returned + 1, g)' /\ totalSize' = Start(g)' /\ Len(record') = Start(g)'
                /\ \A q \in 1 .. Start(g)' : record'[q] = written'[Returned' + 1][q]
            BY <6>2, <6>3
          <6> QED
            BY <6>4, Zenon
        <5> QED
          BY <5>1, <5>3 DEF InRecord
      <4>8. /\ Returned <= Len(written)
            /\ \A i \in 1 .. Returned : delivered[i] = written[i]
            /\ EndOf(Returned) <= Len(input)
            /\ closed => outcome # {}
            /\ detected \in {"auto", writer.framing}
            /\ framing = "auto" /\ detected = "auto" => pc = "idle" /\ Returned = 0
        BY DEF ReadInv
      <4> HIDE DEF Returned, InRecord
      <4>9. ReadInv'
        BY <1>1, <3>4, <4>5, <4>6, <4>7, <4>8, Zenon DEF ReadInv
      <4> QED
        BY <4>5, <4>9 DEF CallerSees, Quiet
    <3> QED
      BY <3>1, <3>5, <3>6, Zenon
  <2> QED
    BY <1>5, <2>10, <2>11, <2>12, <2>13 DEF ReadRecordMarking, FragmentHeaderFails
<1> QED
  BY <1>2, <1>5 DEF ReadRecordMarking, EmptyLastFragment, FragmentTooLarge, FragmentBodyFails, ReadFragment, DataFragment

-----------------------------------------------------------------------------
(***************************************************************************)
(* The reading as a whole.                                                 *)
(***************************************************************************)
\* Reading a binary stream, whichever framing the parser is told.
LEMMA ReadStays ==
  ASSUME Binary, TypeOK, ReadInv, SameStream, Read
  PROVE  ReadInv' /\ CallerSees
<1>1. ~ReadBase64Line
  <2>1. pc # "base64Lines"
    BY DEF Binary, ReadInv
  <2> QED
    BY <2>1 DEF ReadBase64Line, BlankLine, MalformedLine, DecodedLine
<1> QED
  BY <1>1, RecordMarkingStays, LengthPrefixedStays DEF Read

\* The records that are written.
LEMMA RecordsWritten ==
  ASSUME NEW recs \in BoundedSeq(BoundedSeq(RecordUnits, MaxUnits), MaxRecords)
  PROVE  /\ recs \in Seq(Seq(Units))
         /\ \A k \in 1 .. Len(recs) : Len(recs[k]) <= MaxUnits
<1> DEFINE S == BoundedSeq(RecordUnits, MaxUnits)
<1>1. ASSUME NEW r \in S
      PROVE  r \in Seq(Units) /\ Len(r) <= MaxUnits
  <2>1. PICK m \in 0 .. MaxUnits : r \in [1 .. m -> RecordUnits]
    BY DEF BoundedSeq, SeqOf
  <2>2. m \in Nat /\ r \in [1 .. m -> Units]
    BY <2>1, RoundTripAssumption
  <2>3. r \in Seq(Units) /\ Len(r) = m
    BY <2>2, FunctionIsSeq, Zenon
  <2> QED
    BY <2>1, <2>3
<1>2. PICK m \in 0 .. MaxRecords : recs \in [1 .. m -> S]
  BY DEF BoundedSeq, SeqOf
<1> HIDE DEF S
<1>3. m \in Nat /\ recs \in [1 .. m -> Seq(Units)]
  BY <1>1, <1>2, RoundTripAssumption
<1>4. recs \in Seq(Seq(Units)) /\ Len(recs) = m
  BY <1>3, FunctionIsSeq, Zenon
<1>5. \A k \in 1 .. Len(recs) : recs[k] \in S
  BY <1>2, <1>4
<1> QED
  BY <1>1, <1>4, <1>5, Zenon

\* A stream that was written, and perhaps cut, is one to be read.
LEMMA InitStream == InitCut => Stream
<1> SUFFICES ASSUME InitCut PROVE Stream
  OBVIOUS
<1>1. /\ written \in BoundedSeq(BoundedSeq(RecordUnits, MaxUnits), MaxRecords)
      /\ writer \in Writers /\ framing \in {writer.framing, "auto"}
      /\ ends = [k \in DOMAIN written |-> Len(WrittenAll(SubSeq(written, 1, k), writer))]
      /\ framing = "auto" => DetectableWriter(writer, written)
      /\ lost \in 0 .. Len(WrittenAll(written, writer))
      /\ input = SubSeq(WrittenAll(written, writer), 1, Len(WrittenAll(written, writer)) - lost)
  BY DEF InitCut, Init0
<1>2. written \in Seq(Seq(Units)) /\ \A k \in 1 .. Len(written) : Len(written[k]) <= MaxUnits
  BY <1>1, RecordsWritten
<1> QED
  BY <1>1, <1>2, Zenon DEF Stream

\* At first nothing is read of it and nothing returned.
LEMMA InitReads ==
  ASSUME InitCut, Binary
  PROVE  IInv /\ ReadInv
<1>1. input \in Seq(Units) /\ Len(written) \in Nat /\ Len(input) \in Nat
  <2>1. input \in Seq(Units) /\ Len(written) \in Nat
    BY BinaryParts, Zenon
  <2> QED
    BY <2>1
<1>2. tail \in {"eof", "ioerr"} /\ maxRecordSize \in 1 .. (WordSpan - 1) /\ NewStreamParser
  BY RoundTripAssumption DEF InitCut, Init0
<1>3. framing \in Configurations
  BY DEF Binary, Stream, Writers, Configurations, Framings
<1>4. IInv
  BY <1>1, <1>2, <1>3, InitIInv DEF Init
<1>5. ReadInv
  <2>1. /\ delivered = << >> /\ outcome = {} /\ pc = "idle" /\ pos = 0 /\ totalBytes = 0
        /\ closed = FALSE /\ detected = "auto"
    BY <1>2 DEF NewStreamParser
  <2>2. Returned = 0 /\ EndOf(Returned) = 0
    BY <2>1 DEF Returned, EndOf
  <2> QED
    BY <1>1, <2>1, <2>2 DEF ReadInv
<1> QED
  BY <1>4, <1>5

\* The inductive invariant: for a binary writer, the parser's own invariant
\* and the position of the reader between the records.
RTInv ==
  /\ Stream
  /\ writer.framing # "base64Lines" => IInv /\ ReadInv

\* No step of the caller or of the parser touches the stream.
LEMMA StreamUnchanged ==
  ASSUME [RTNext]_rtVars
  PROVE  SameStream
<1>1. CASE CallerNext
  BY <1>1 DEF CallerNext, CallNext, NextClosed, NextDetectFails, NextUnknownFraming,
              NextDispatches, CallDrain, SameStream
<1>2. CASE ParserReads
  BY <1>2 DEF ParserReads, SameStream, Read, ReadRecordMarking, ReadLengthPrefixed, ReadBase64Line,
              FragmentHeaderFails, EmptyLastFragment, FragmentTooLarge, FragmentBodyFails, ReadFragment,
              PrefixFails, PrefixTooLarge, PrefixedDataFails, PrefixedRecord,
              BlankLine, MalformedLine, DecodedLine
<1>3. CASE CallerDone \/ UNCHANGED rtVars
  BY <1>3 DEF CallerDone, rtVars, vars, SameStream, source
<1> QED
  BY <1>1, <1>2, <1>3 DEF RTNext

\* Every step of the caller and of the parser keeps the invariant, leaves the
\* stream alone, and shows the caller of a binary stream the next record, an
\* error with its reason, or nothing yet.
LEMMA StepKeeps ==
  ASSUME FitsWord, NoTextHeader, RTInv, [RTNext]_rtVars
  PROVE  RTInv' /\ SameStream /\ (writer.framing # "base64Lines" => CallerSees)
<1>1. SameStream
  BY StreamUnchanged
<1>2. Stream'
  BY <1>1 DEF RTInv, Stream, SameStream, source
<1>3. ASSUME writer.framing # "base64Lines"
      PROVE  IInv' /\ ReadInv' /\ CallerSees
  <2>1. Binary /\ IInv /\ ReadInv /\ TypeOK
    BY <1>3 DEF RTInv, Binary, FitsWord, IInv
  <2>2. CASE CallerNext
    <3>1. CallNext \/ CallDrain
      BY <2>2 DEF CallerNext
    <3> QED
      BY <2>1, <2>2, <3>1, CallKeeps, CallerStays
  <2>3. CASE ParserReads
    <3>1. Read
      BY <2>3 DEF ParserReads
    <3> QED
      BY <1>1, <2>1, <3>1, ReadKeeps, ReadStays
  <2>4. CASE UNCHANGED rtVars
    <3>1. UNCHANGED vars
      BY <2>4 DEF rtVars
    <3>2. IInv'
      BY <2>1, <3>1, NextIInv
    <3>3. /\ input' = input /\ framing' = framing /\ written' = written /\ writer' = writer
          /\ ends' = ends /\ pos' = pos /\ totalBytes' = totalBytes /\ closed' = closed
          /\ record' = record /\ totalSize' = totalSize /\ outcome' = outcome /\ delivered' = delivered
          /\ pc' = pc /\ detected' = detected
      BY <2>4 DEF rtVars, vars
    <3>4. /\ Returned' = Returned /\ EndOf(Returned)' = EndOf(Returned)
          /\ EndOf(Returned + 1)' = EndOf(Returned + 1)
          /\ InRecord' <=> InRecord
      BY <3>3 DEF Returned, EndOf, InRecord, Place, Start, Pieces
    <3>5. Exhausted' <=> Exhausted
      BY <3>3, <3>4, Zenon DEF Exhausted
    <3>6. ReadInv'
      BY <2>1, <3>3, <3>4, <3>5, Zenon DEF ReadInv
    <3> QED
      BY <3>2, <3>3, <3>6 DEF CallerSees, Quiet
  <2> QED
    BY <2>2, <2>3, <2>4 DEF RTNext, CallerDone
<1>4. writer' = writer
  BY <1>1 DEF SameStream
<1> QED
  BY <1>1, <1>2, <1>3, <1>4 DEF RTInv

\* How many records lie wholly inside the stream.
LEMMA HowManyComplete ==
  ASSUME Binary, TypeOK, ReadInv
  PROVE  /\ Returned <= Complete /\ Complete \in Nat /\ Complete <= Len(written)
         /\ Exhausted <=> Returned = Complete
<1> DEFINE W == {k \in DOMAIN written : ends[k] <= Len(input)}
           b == Blocks(written, writer)
<1>1. Returned \in Nat /\ Returned <= Len(written) /\ Len(written) \in Nat /\ Len(input) \in Nat
      /\ EndOf(Returned) <= Len(input)
  BY AllRead DEF ReadInv
<1>2. /\ b \in Seq(Seq(Units)) /\ Len(b) = Len(written) /\ written \in Seq(Seq(Units))
      /\ \A k \in 0 .. Len(written) : EndOf(k) = Len(Joined(b, k)) /\ EndOf(k) \in Nat
  BY BinaryParts, Zenon DEF Binary, Stream
<1> HIDE DEF b
<1>3. DOMAIN written = 1 .. Len(written)
  BY <1>2
<1>4. \A k \in 1 .. Len(written) : ends[k] = EndOf(k)
  BY <1>1 DEF EndOf
<1>5. W = {k \in 1 .. Len(written) : EndOf(k) <= Len(input)}
  BY <1>3, <1>4
<1>6. \A i, j \in 1 .. Len(written) : i <= j => EndOf(i) <= EndOf(j)
  <2> TAKE i, j \in 1 .. Len(written)
  <2> HAVE i <= j
  <2>1. i \in 0 .. Len(written) /\ j \in 0 .. Len(written)
    BY <1>1
  <2> QED
    BY <2>1, BinaryParts, EndsInOrder, Zenon DEF Binary
<1>7. 1 .. Returned \subseteq W
  <2> SUFFICES ASSUME NEW i \in 1 .. Returned PROVE i \in 1 .. Len(written) /\ EndOf(i) <= Len(input)
    BY <1>5
  <2>1. i \in 1 .. Len(written) /\ Returned \in 1 .. Len(written) /\ i <= Returned
    BY <1>1
  <2>2. EndOf(i) <= EndOf(Returned) /\ EndOf(i) \in Nat /\ EndOf(Returned) \in Nat
    <3>1. i \in 0 .. Len(written) /\ Returned \in 0 .. Len(written)
      BY <2>1
    <3> QED
      BY <1>2, <1>6, <2>1, <3>1, Zenon
  <2> QED
    BY <1>1, <2>1, <2>2
<1>8. Exhausted => W \subseteq 1 .. Returned
  <2> SUFFICES ASSUME Exhausted, NEW i \in 1 .. Len(written), EndOf(i) <= Len(input), ~(i <= Returned)
               PROVE  FALSE
    BY <1>5, <1>1
  <2>1. Returned # Len(written) /\ Returned + 1 \in 1 .. Len(written) /\ Returned + 1 <= i
    BY <1>1
  <2>2. EndOf(Returned + 1) <= EndOf(i)
    BY <1>6, <2>1, Zenon
  <2>3. EndOf(Returned + 1) > Len(input)
    BY <2>1 DEF Exhausted
  <2>4. EndOf(Returned + 1) \in Nat /\ EndOf(i) \in Nat
    <3>1. Returned + 1 \in 0 .. Len(written) /\ i \in 0 .. Len(written)
      BY <2>1
    <3> QED
      BY <1>2, <3>1, Zenon
  <2> QED
    BY <1>1, <2>2, <2>3, <2>4
<1>14. ~Exhausted => 1 .. (Returned + 1) \subseteq W
  <2> SUFFICES ASSUME ~Exhausted PROVE 1 .. (Returned + 1) \subseteq W
    OBVIOUS
  <2>1. Returned + 1 \in 1 .. Len(written) /\ ~(EndOf(Returned + 1) > Len(input))
    BY <1>1 DEF Exhausted
  <2>2. EndOf(Returned + 1) \in Nat
    <3>1. Returned + 1 \in 0 .. Len(written)
      BY <2>1
    <3> QED
      BY <1>2, <3>1, Zenon
  <2>3. EndOf(Returned + 1) <= Len(input)
    BY <1>1, <2>1, <2>2
  <2> QED
    BY <1>1, <1>5, <1>7, <2>1, <2>3
<1>9. IsFiniteSet(1 .. Len(written)) /\ IsFiniteSet(1 .. Returned) /\ Cardinality(1 .. Returned) = Returned
      /\ Cardinality(1 .. Len(written)) = Len(written)
  <2>1. \A j \in Nat : IsFiniteSet(1 .. j) /\ Cardinality(1 .. j) = j
    BY FS_Interval
  <2> QED
    BY <1>1, <2>1
<1>16. IsFiniteSet(1 .. (Returned + 1)) /\ Cardinality(1 .. (Returned + 1)) = Returned + 1
  <2> DEFINE j == Returned + 1
  <2>1. j \in Nat
    BY <1>1
  <2> HIDE DEF j
  <2>2. IsFiniteSet(1 .. j) /\ Cardinality(1 .. j) = j
    BY <2>1, FS_Interval
  <2> QED
    BY <2>2 DEF j
<1>10. IsFiniteSet(W)
  BY <1>5, <1>9, FS_Subset
<1> HIDE DEF W
<1>15. W \subseteq 1 .. Len(written)
  BY <1>3 DEF W
<1>11. /\ Cardinality(W) \in Nat /\ Returned <= Cardinality(W) /\ Cardinality(W) <= Len(written)
       /\ ~Exhausted => Returned + 1 <= Cardinality(W)
  <2>1. Cardinality(W) \in Nat
    BY <1>10, FS_CardinalityType
  <2>2. Cardinality(1 .. Returned) <= Cardinality(W)
    BY <1>7, <1>10, FS_Subset, Zenon
  <2>3. Cardinality(W) <= Cardinality(1 .. Len(written))
    BY <1>9, <1>15, FS_Subset, Zenon
  <2>4. ~Exhausted => Cardinality(1 .. (Returned + 1)) <= Cardinality(W)
    BY <1>10, <1>14, FS_Subset, Zenon
  <2>5. Returned <= Cardinality(W) /\ Cardinality(W) <= Len(written)
    BY <1>9, <2>2, <2>3, Zenon
  <2> QED
    BY <1>16, <2>1, <2>4, <2>5, Zenon
<1>12. Exhausted => W = 1 .. Returned
  BY <1>7, <1>8
<1>13. Complete = Cardinality(W)
  BY DEF Complete, W
<1> QED
  BY <1>1, <1>9, <1>11, <1>12, <1>13

\* What the invariant says to the caller.
LEMMA WhatIsDelivered ==
  ASSUME Binary, TypeOK, ReadInv
  PROVE  BytesReadAtBoundary /\ OnlyWholeRecords
<1>1. BytesReadAtBoundary
  BY DEF ReadInv, BytesReadAtBoundary, Returned
<1>2. Len(delivered) <= Complete /\ (outcome # {} /\ outcome # {"ErrRecordTooLarge"} => Len(delivered) = Complete)
  BY HowManyComplete DEF ReadInv, Returned
<1>3. delivered = SubSeq(written, 1, Len(delivered))
  <2> DEFINE s == SubSeq(written, 1, Returned)
  <2>1. written \in Seq(Seq(Units)) /\ delivered \in Seq(Seq(Units)) /\ Returned = Len(delivered)
        /\ \A i \in 1 .. Returned : delivered[i] = written[i]
    BY DEF Binary, Stream, TypeOK, ReadInv, Returned
  <2>2. Returned \in 0 .. Len(written)
    BY AllRead DEF ReadInv
  <2>3. s \in Seq(Seq(Units)) /\ Len(s) = Returned /\ \A i \in 1 .. Returned : s[i] = written[i]
    BY <2>1, <2>2, FirstElements
  <2> HIDE DEF s
  <2>4. \A i \in 1 .. Len(delivered) : delivered[i] = s[i]
    BY <2>1, <2>3, Zenon
  <2>5. delivered = s
    BY <2>1, <2>3, <2>4, SeqEqual
  <2> QED
    BY <2>1, <2>5 DEF s
<1> QED
  BY <1>1, <1>2, <1>3 DEF OnlyWholeRecords

\* What the abstract source still has to return.
LEMMA WhatRemains ==
  ASSUME Binary, TypeOK, ReadInv
  PROVE  LET r == SubSeq(WholeRecords, Returned + 1, Len(WholeRecords)) IN
         /\ Exhausted => r = << >>
         /\ ~Exhausted => /\ r # << >> /\ Head(r) = written[Returned + 1]
                          /\ Tail(r) = SubSeq(WholeRecords, Returned + 2, Len(WholeRecords))
<1> DEFINE w == WholeRecords
<1>1. /\ Returned \in Nat /\ Returned <= Complete /\ Complete \in Nat /\ Complete <= Len(written)
      /\ Exhausted <=> Returned = Complete
  BY HowManyComplete, AllRead, Zenon
<1>2. written \in Seq(Seq(Units)) /\ Len(written) \in Nat
  BY BinaryParts DEF Binary, Stream
<1>3. w = SubSeq(written, 1, Complete)
  BY DEF WholeRecords, Expected, Binary
<1> HIDE DEF w
<1>4. w \in Seq(Seq(Units)) /\ Len(w) = Complete /\ \A i \in 1 .. Complete : w[i] = written[i]
  <2>1. Complete \in 0 .. Len(written)
    BY <1>1, <1>2
  <2> QED
    BY <1>2, <1>3, <2>1, FirstElements
<1>5. Exhausted => SubSeq(w, Returned + 1, Len(w)) = << >>
  <2> SUFFICES ASSUME Exhausted PROVE SubSeq(w, Returned + 1, Len(w)) = << >>
    OBVIOUS
  <2>1. Returned + 1 \in Int /\ Len(w) \in Int /\ Len(w) < Returned + 1
    BY <1>1, <1>4
  <2> QED
    BY <2>1, SubSeqEmpty, Zenon
<1>6. ~Exhausted => /\ SubSeq(w, Returned + 1, Len(w)) # << >>
                    /\ Head(SubSeq(w, Returned + 1, Len(w))) = written[Returned + 1]
                    /\ Tail(SubSeq(w, Returned + 1, Len(w))) = SubSeq(w, Returned + 2, Len(w))
  <2> SUFFICES ASSUME ~Exhausted
               PROVE  /\ SubSeq(w, Returned + 1, Len(w)) # << >>
                      /\ Head(SubSeq(w, Returned + 1, Len(w))) = written[Returned + 1]
                      /\ Tail(SubSeq(w, Returned + 1, Len(w))) = SubSeq(w, Returned + 2, Len(w))
    OBVIOUS
  <2> DEFINE m == Returned + 1
  <2>1. m \in 1 .. Len(w) /\ Len(w) \in m .. Len(w) /\ m + 1 = Returned + 2 /\ m \in 1 .. Complete
    BY <1>1, <1>4
  <2> HIDE DEF m
  <2>2. Head(SubSeq(w, m, Len(w))) = w[m] /\ Tail(SubSeq(w, m, Len(w))) = SubSeq(w, m + 1, Len(w))
    BY <1>4, <2>1, HeadTailOfSubSeq, Zenon
  <2>3. SubSeq(w, m, Len(w)) # << >>
    <3> DEFINE x == SubSeq(w, m, Len(w))
    <3>1. Len(x) = Len(w) - m + 1
      BY <1>4, <2>1
    <3>2. Len(x) # 0
      <4> HIDE DEF x
      <4>1. m \in Int /\ Len(w) \in Int /\ m <= Len(w)
        BY <1>4, <2>1
      <4> QED
        BY <3>1, <4>1
    <3>3. Len(<< >>) = 0
      OBVIOUS
    <3> HIDE DEF x
    <3>4. x # << >>
      BY <3>2, <3>3
    <3> QED
      BY <3>4 DEF x
  <2> QED
    BY <1>4, <2>1, <2>2, <2>3, Zenon DEF m
<1> QED
  BY <1>5, <1>6, Zenon DEF w

\* Whatever records are written by WriteRecordMarking, in fragments of any size,
\* or by WriteLengthPrefixed, wherever the stream is cut and whether its reader
\* ends or fails there, Next and Drain return the records before the cut, whole, in
\* order and once, never a piece of the torn one, and all of them unless a
\* record is over the limit; and between two calls BytesRead is where a record
\* ends.  The records are shorter than the last-fragment bit, and no header of
\* WriteLengthPrefixed reads as base64 text, which detection could not tell apart.
THEOREM BinaryRoundTrip ==
  ASSUME FitsWord, NoTextHeader
  PROVE  CutSpec => [](BytesReadAtBoundary /\ OnlyWholeRecords)
<1>1. InitCut => RTInv
  BY InitStream, InitReads DEF RTInv, Binary, FitsWord
<1>2. RTInv /\ [RTNext]_rtVars => RTInv'
  BY StepKeeps
<1>3. RTInv => BytesReadAtBoundary /\ OnlyWholeRecords
  <2> SUFFICES ASSUME RTInv PROVE BytesReadAtBoundary /\ OnlyWholeRecords
    OBVIOUS
  <2>1. CASE writer.framing # "base64Lines"
    BY <2>1, WhatIsDelivered DEF RTInv, Binary, FitsWord, IInv
  <2>2. CASE writer.framing = "base64Lines"
    BY <2>2 DEF BytesReadAtBoundary, OnlyWholeRecords
  <2> QED
    BY <2>1, <2>2
<1> QED
  BY <1>1, <1>2, <1>3, PTL DEF CutSpec

\* Every step of a binary reading is a step of the abstract source.
LEMMA SourceStep ==
  ASSUME Binary, TypeOK, ReadInv, SameStream, TypeOK', ReadInv', CallerSees
  PROVE  Source!SourceNext \/ UNCHANGED Source!sourceVars
<1> DEFINE r == SubSeq(WholeRecords, Returned + 1, Len(WholeRecords))
           st == CASE outcome = {} -> "open"
                   [] "EOF" \in outcome -> "ended"
                   [] "ErrRecordTooLarge" \in outcome -> "refused"
                   [] OTHER -> "failed"
<1>1. /\ written' = written /\ writer' = writer /\ ends' = ends /\ lost' = lost /\ input' = input
      /\ tail' = tail /\ maxRecordSize' = maxRecordSize
  BY DEF SameStream, source
<1>2. WholeRecords' = WholeRecords
  <2>1. Complete' = Complete
    BY <1>1 DEF Complete
  <2>2. WholeRecords = SubSeq(written, 1, Complete)
    BY DEF Binary, WholeRecords, Expected
  <2>3. WholeRecords' = SubSeq(written, 1, Complete)'
    BY <1>1 DEF Binary, WholeRecords, Expected
  <2> QED
    BY <1>1, <2>1, <2>2, <2>3
<1>3. /\ Exhausted => r = << >>
      /\ ~Exhausted => /\ r # << >> /\ Head(r) = written[Returned + 1]
                       /\ Tail(r) = SubSeq(WholeRecords, Returned + 2, Len(WholeRecords))
  BY WhatRemains, Zenon
<1>4. Source!SourceNext <=> Source!Return \/ Source!ReturnTorn \/ Source!End \/ Source!Refuse \/ Source!Fail
  BY DEF Source!SourceNext
<1>5. r = SubSeq(WholeRecords, Len(delivered) + 1, Len(WholeRecords))
  BY DEF Returned
<1>9. r' = SubSeq(WholeRecords, Len(delivered) + 1, Len(WholeRecords))'
  BY DEF Returned
<1> DEFINE whole == lost = 0 /\ tail = "eof"
<1>10. /\ st = "open" /\ r # << >> /\ Len(Head(r)) <= maxRecordSize
       /\ delivered' = Append(delivered, Head(r)) /\ r' = Tail(r) /\ st' = st
       /\ maxRecordSize' = maxRecordSize /\ (whole' <=> whole)
       => Source!Return
  BY <1>5, <1>9, Zenon DEF Source!Return
<1>11. st = "open" /\ r = << >> /\ st' = "ended" /\ r' = r /\ delivered' = delivered
         /\ maxRecordSize' = maxRecordSize /\ (whole' <=> whole)
       => Source!End
  BY <1>5, <1>9, Zenon DEF Source!End
<1>12. st = "open" /\ (IF r = << >> THEN ~whole ELSE Len(Head(r)) > maxRecordSize) /\ st' = "refused"
         /\ r' = r /\ delivered' = delivered /\ maxRecordSize' = maxRecordSize /\ (whole' <=> whole)
       => Source!Refuse
  BY <1>5, <1>9, Zenon DEF Source!Refuse
<1>13. st = "open" /\ r = << >> /\ ~whole /\ st' = "failed" /\ r' = r /\ delivered' = delivered
         /\ maxRecordSize' = maxRecordSize /\ (whole' <=> whole)
       => Source!Fail
  BY <1>5, <1>9, Zenon DEF Source!Fail
<1>6. CASE Quiet
  <2>1. r' = r /\ st' = st /\ delivered' = delivered
    BY <1>2, <1>6 DEF Quiet, Returned
  <2>2. UNCHANGED Source!sourceVars
    BY <1>1, <1>2, <1>6 DEF Source!sourceVars, Quiet
  <2> QED
    BY <2>2
<1>7. CASE Returns
  <2>1. ~Exhausted
    <3>1. Returned # Len(written) /\ ~(EndOf(Returned + 1) > Len(input))
      <4>1. EndOf(Returned + 1) \in Nat /\ Len(input) \in Nat /\ Returned \in Nat /\ Len(written) \in Nat
        BY <1>7, AllRead DEF Returns
      <4> QED
        BY <1>7, <4>1 DEF Returns
    <3> QED
      BY <3>1 DEF Exhausted
  <2>2. Returned' = Returned + 1
    <3>1. delivered \in Seq(Seq(Units)) /\ delivered' \in Seq(Seq(Units))
      BY DEF TypeOK
    <3> QED
      BY <1>7, <3>1 DEF Returns, Returned
  <2>3. r' = Tail(r)
    <3>1. Returned' + 1 = Returned + 2
      <4>1. Returned \in Nat
        BY AllRead
      <4> QED
        BY <2>2, <4>1
    <3> QED
      BY <1>2, <1>3, <2>1, <3>1, Zenon
  <2>4. Source!Return
    <3>1. st = "open" /\ st' = "open"
      BY <1>7 DEF Returns
    <3>2. Len(Head(r)) <= maxRecordSize /\ delivered' = Append(delivered, Head(r)) /\ r # << >>
      BY <1>3, <1>7, <2>1 DEF Returns
    <3>3. (lost = 0 /\ tail = "eof")' <=> (lost = 0 /\ tail = "eof")
      BY <1>1
    <3> QED
      BY <1>1, <1>10, <2>3, <3>1, <3>2, <3>3, Zenon
  <2> QED
    BY <1>4, <2>4
<1>8. CASE GivesUp
  <2>1. st = "open" /\ r' = r /\ delivered' = delivered
        /\ ((lost = 0 /\ tail = "eof")' <=> (lost = 0 /\ tail = "eof")) /\ maxRecordSize' = maxRecordSize
    BY <1>1, <1>2, <1>8 DEF GivesUp, Returned
  <2>2. CASE outcome' = {"ErrRecordTooLarge"}
    <3>1. st' = "refused"
      BY <2>2
    <3>2. IF r = << >> THEN ~(lost = 0 /\ tail = "eof") ELSE Len(Head(r)) > maxRecordSize
      BY <1>3, <1>8, <2>2 DEF GivesUp
    <3>3. Source!Refuse
      BY <1>12, <2>1, <3>1, <3>2, Zenon
    <3> QED
      BY <1>4, <3>3
  <2>3. CASE outcome' # {"ErrRecordTooLarge"} /\ "EOF" \in outcome'
    <3>1. st' = "ended" /\ r = << >>
      BY <1>3, <1>8, <2>3 DEF GivesUp
    <3>2. Source!End
      BY <1>11, <2>1, <3>1, Zenon
    <3> QED
      BY <1>4, <3>2
  <2>4. CASE outcome' # {"ErrRecordTooLarge"} /\ "EOF" \notin outcome'
    <3>1. st' = "failed" /\ r = << >> /\ ~(lost = 0 /\ tail = "eof")
      BY <1>3, <1>8, <2>4 DEF GivesUp
    <3>2. Source!Fail
      BY <1>13, <2>1, <3>1, Zenon
    <3> QED
      BY <1>4, <3>2
  <2> QED
    BY <2>2, <2>3, <2>4
<1> QED
  BY <1>6, <1>7, <1>8 DEF CallerSees

\* So every step of a reading of a binary stream is a step of the abstract
\* source of the records that lie before the cut, or none that its caller sees:
\* it returns the next record, refuses one over the limit, ends after the last
\* one, or fails where something is missing.  ReadingIsASource adds the lines of
\* base64 and what they ask of its alphabet.
THEOREM BinaryReadingIsASource ==
  ASSUME FitsWord, NoTextHeader
  PROVE  CutSpec =>
           /\ Source!SourceInit
           /\ [][writer.framing # "base64Lines" =>
                    Source!SourceNext \/ UNCHANGED Source!sourceVars]_rtVars
<1>1. InitCut => RTInv
  BY InitStream, InitReads DEF RTInv, Binary, FitsWord
<1>2. RTInv /\ [RTNext]_rtVars => RTInv'
  BY StepKeeps
<1>3. InitCut => Source!SourceInit
  BY DEF InitCut, Init0, NewStreamParser, Source!SourceInit
<1>4. RTInv /\ RTInv' /\ [RTNext]_rtVars =>
        [writer.framing # "base64Lines" =>
           Source!SourceNext \/ UNCHANGED Source!sourceVars]_rtVars
  <2> SUFFICES ASSUME RTInv, RTInv', [RTNext]_rtVars, writer.framing # "base64Lines"
               PROVE  Source!SourceNext \/ UNCHANGED Source!sourceVars
    OBVIOUS
  <2>1. SameStream /\ CallerSees
    BY StepKeeps
  <2>2. writer' = writer
    BY <2>1 DEF SameStream
  <2>3. Binary /\ TypeOK /\ ReadInv /\ TypeOK' /\ ReadInv'
    BY <2>2 DEF RTInv, Binary, FitsWord, IInv
  <2> QED
    BY <2>1, <2>3, SourceStep
<1> QED
  BY <1>1, <1>2, <1>3, <1>4, PTL DEF CutSpec
-----------------------------------------------------------------------------
(***************************************************************************)
(* A record as a line of text.                                             *)
(***************************************************************************)
\* The units that base64 writes a record with.
Letters == TextUnits \ SpaceUnits
Codes(rec) == [i \in DOMAIN rec |-> Enc[rec[i]]]
Text(rec) == FlattenSeq(Codes(rec))

\* Every unit has a text of EncLen letters.
LEMMA EncSize ==
  ASSUME EncIsText
  PROVE  /\ EncLen \in Nat \ {0}
         /\ \A u \in Units : Enc[u] \in Seq(Letters) /\ Len(Enc[u]) = EncLen
<1>1. 0 \in Units
  BY WordWidth DEF Units
<1>2. \A u \in Units : Enc[u] \in Seq(Letters)
  BY DEF EncIsText, Letters
<1>3. \A u \in Units : Len(Enc[u]) = EncLen
  BY <1>1, EncAssumption DEF EncLen
<1>4. Enc[0] # << >> /\ Enc[0] \in Seq(Letters)
  BY <1>1, <1>2, EncAssumption
<1>5. EncLen \in Nat \ {0}
  BY <1>4 DEF EncLen
<1> QED
  BY <1>2, <1>3, <1>5

\* The texts of k units are k times as long as that of one.
LEMMA CodesLength ==
  ASSUME EncIsText, NEW rec \in Seq(Units), NEW k \in 0 .. Len(rec)
  PROVE  /\ Codes(rec) \in Seq(Seq(Letters)) /\ Len(Codes(rec)) = Len(rec)
         /\ Len(Joined(Codes(rec), k)) = k * EncLen
<1> DEFINE c == Codes(rec)
           Bad == {i \in 0 .. Len(rec) : Len(Joined(c, i)) # i * EncLen}
<1>1. c \in Seq(Seq(Letters)) /\ Len(c) = Len(rec) /\ \A i \in 1 .. Len(rec) : Len(c[i]) = EncLen
  <2>1. c \in [1 .. Len(rec) -> Seq(Letters)] /\ \A i \in 1 .. Len(rec) : c[i] = Enc[rec[i]]
    BY EncSize DEF Codes
  <2>2. Len(rec) \in Nat /\ \A i \in 1 .. Len(rec) : rec[i] \in Units
    OBVIOUS
  <2>3. c \in Seq(Seq(Letters)) /\ Len(c) = Len(rec)
    BY <2>1, <2>2, FunctionIsSeq, Zenon
  <2> QED
    BY <2>1, <2>2, <2>3, EncSize, Zenon
<1> HIDE DEF c
<1>2. SUFFICES ASSUME Bad # {} PROVE FALSE
  BY <1>1 DEF c
<1>3. Bad \in SUBSET Nat
  OBVIOUS
<1>4. PICK b \in Bad : \A i \in Bad : b <= i
  <2> HIDE DEF Bad
  <2> QED
    BY <1>2, <1>3, LeastExists
<1>5. b \in 0 .. Len(rec) /\ Len(Joined(c, b)) # b * EncLen /\ EncLen \in Nat
  BY EncSize
<1>6. CASE b = 0
  <2>1. Joined(c, 0) = << >>
    BY <1>1, JoinedNothing
  <2> QED
    BY <1>5, <1>6, <2>1
<1>7. CASE b # 0
  <2> DEFINE a == b - 1
  <2>1. a \in 0 .. Len(rec) /\ a \in Nat /\ ~(b <= a) /\ b \in 1 .. Len(rec) /\ a + 1 = b
    BY <1>5, <1>7
  <2> HIDE DEF a
  <2>2. Len(Joined(c, a)) = a * EncLen
    BY <1>4, <2>1
  <2>3. Joined(c, a) \in Seq(Letters)
    BY <1>1, <2>1, JoinedType
  <2>4. Joined(c, b) = Joined(c, a) \o c[b]
    BY <1>1, <2>1, <2>3, JoinedStep DEF a
  <2>5. c[b] \in Seq(Letters) /\ Len(c[b]) = EncLen
    BY <1>1, <2>1
  <2>6. Len(Joined(c, b)) = a * EncLen + EncLen
    <3> DEFINE x == Joined(c, a)
               y == c[b]
    <3>1. x \in Seq(Letters) /\ y \in Seq(Letters)
      BY <2>3, <2>5
    <3> HIDE DEF x, y
    <3>2. Len(x \o y) = Len(x) + Len(y)
      BY <3>1, JoinTwo
    <3> QED
      BY <2>2, <2>4, <2>5, <3>2, Zenon DEF x, y
  <2>7. (a + 1) * EncLen = a * EncLen + EncLen
    BY <1>5, <2>1, Multiples
  <2> QED
    BY <1>5, <2>1, <2>6, <2>7
<1> QED
  BY <1>6, <1>7

\* A record's text is made of letters, those of its units one after the other.
LEMMA TextOf ==
  ASSUME EncIsText, NEW rec \in Seq(Units)
  PROVE  /\ Text(rec) \in Seq(Letters) /\ Len(Text(rec)) = Len(rec) * EncLen
         /\ \A k \in 1 .. Len(rec) : \A q \in 1 .. EncLen :
              Text(rec)[(k - 1) * EncLen + q] = Enc[rec[k]][q]
<1> DEFINE c == Codes(rec)
<1>1. /\ c \in Seq(Seq(Letters)) /\ Len(c) = Len(rec) /\ Len(rec) \in Nat
      /\ \A k \in 0 .. Len(rec) : Len(Joined(c, k)) = k * EncLen
  <2>1. Len(rec) \in Nat /\ 0 \in 0 .. Len(rec)
    OBVIOUS
  <2> QED
    BY <2>1, CodesLength, Zenon
<1>2. \A k \in 1 .. Len(rec) : c[k] = Enc[rec[k]] /\ Len(c[k]) = EncLen
  <2>1. \A k \in 1 .. Len(rec) : rec[k] \in Units /\ k \in DOMAIN rec
    OBVIOUS
  <2>2. \A k \in 1 .. Len(rec) : c[k] = Enc[rec[k]]
    BY <2>1 DEF Codes
  <2> QED
    BY <2>1, <2>2, EncSize, Zenon
<1> HIDE DEF c
<1>3. Len(rec) \in 0 .. Len(rec) /\ Len(rec) \in 0 .. Len(c)
  BY <1>1
<1>4. Joined(c, Len(rec)) = FlattenSeq(c) /\ Joined(c, Len(rec)) \in Seq(Letters)
  BY <1>1, <1>3, JoinedAll, JoinedType
<1>5. Len(FlattenSeq(c)) = Len(rec) * EncLen
  BY <1>1, <1>3, <1>4, Zenon
<1>6. ASSUME NEW k \in 1 .. Len(rec), NEW q \in 1 .. EncLen
      PROVE  FlattenSeq(c)[(k - 1) * EncLen + q] = Enc[rec[k]][q]
  <2>1. k \in 1 .. Len(c) /\ k - 1 \in 0 .. Len(rec)
    BY <1>1
  <2>2. q \in 1 .. Len(c[k])
    BY <1>2
  <2>3. FlattenSeq(c)[Len(Joined(c, k - 1)) + q] = c[k][q]
    BY <1>1, <2>1, <2>2, JoinedBlocks, Zenon
  <2> QED
    BY <1>1, <1>2, <2>1, <2>3, Zenon
<1> QED
  BY <1>4, <1>5, <1>6, Zenon DEF Text, c

\* A beginning of a record's text decodes if it holds whole units, and then to
\* those units.
LEMMA Decodes ==
  ASSUME EncIsText, NEW rec \in Seq(Units), NEW t \in Seq(Letters),
         Len(t) <= Len(rec) * EncLen, \A q \in 1 .. Len(t) : t[q] = Text(rec)[q]
  PROVE  /\ GroupCount(t) \in 0 .. Len(rec)
         /\ Decodable(t) <=> Len(t) % EncLen = 0
         /\ DecodeString(t) = SubSeq(rec, 1, GroupCount(t))
         /\ Len(t) = Len(rec) * EncLen => Len(t) % EncLen = 0 /\ GroupCount(t) = Len(rec)
         /\ Len(t) % EncLen = 0 /\ Len(t) > 0 => GroupCount(t) > 0
<1> DEFINE n == Len(t)
           m == Len(rec)
           g == GroupCount(t)
           r == n % EncLen
<1>1. EncLen \in Nat /\ EncLen > 0 /\ n \in Nat /\ m \in Nat
  BY EncSize
<1>2. g \in Nat /\ r \in Nat /\ r < EncLen /\ n = g * EncLen + r
  BY <1>1, Quotient DEF GroupCount
<1>3. n <= m * EncLen /\ \A q \in 1 .. n : t[q] = Text(rec)[q]
  OBVIOUS
<1> HIDE DEF n, m, g, r
<1>4. g * EncLen \in Nat /\ m * EncLen \in Nat /\ g * EncLen <= n /\ (g + 1) * EncLen = g * EncLen + EncLen
  BY <1>1, <1>2, Multiples
<1>5. g <= m
  <2> SUFFICES ASSUME ~(g <= m) PROVE FALSE
    OBVIOUS
  <2>1. m + 1 <= g /\ m + 1 \in Nat
    BY <1>1, <1>2
  <2>2. (m + 1) * EncLen <= g * EncLen /\ (m + 1) * EncLen = m * EncLen + EncLen
    BY <1>1, <1>2, <2>1, Multiples
  <2> QED
    BY <1>1, <1>3, <1>4, <2>2
<1>6. ASSUME NEW k \in 1 .. g
      PROVE  Group(t, k) = Enc[rec[k]] /\ rec[k] \in Units
  <2> DEFINE p == (k - 1) * EncLen
             e == Enc[rec[k]]
             s == SubSeq(t, p + 1, p + EncLen)
  <2>1. k \in 1 .. m /\ k - 1 \in Nat /\ k \in Nat /\ (k - 1) + 1 = k /\ k <= g
    BY <1>1, <1>2, <1>5
  <2>2. rec[k] \in Units
    BY <2>1 DEF m
  <2>3. e \in Seq(Letters) /\ Len(e) = EncLen
    BY <2>2, EncSize
  <2>4. p \in Nat /\ k * EncLen = p + EncLen /\ k * EncLen <= g * EncLen /\ k * EncLen \in Nat
    BY <1>1, <1>2, <2>1, Multiples
  <2> HIDE DEF p, e
  <2>5. p + EncLen <= n
    BY <1>1, <1>4, <2>4
  <2>6. s \in Seq(Letters) /\ Len(s) = EncLen /\ \A q \in 1 .. EncLen : s[q] = t[p + q]
    BY <1>1, <2>4, <2>5, Piece DEF n
  <2>7. \A q \in 1 .. EncLen : t[p + q] = e[q]
    <3> TAKE q \in 1 .. EncLen
    <3>1. p + q \in 1 .. n
      BY <1>1, <2>4, <2>5
    <3>2. Text(rec)[p + q] = e[q]
      BY <2>1, TextOf, Zenon DEF p, e, m
    <3> QED
      BY <1>3, <3>1, <3>2, Zenon
  <2>8. Group(t, k) = s
    BY <2>4, Zenon DEF Group, p
  <2> HIDE DEF s
  <2>9. s = e
    BY <2>3, <2>6, <2>7, SeqEqual
  <2> QED
    BY <2>2, <2>8, <2>9, Zenon DEF e
<1>7. Decodable(t) <=> r = 0
  BY <1>6 DEF Decodable, g, r, n
<1>8. DecodeString(t) = SubSeq(rec, 1, g)
  <2> DEFINE s == SubSeq(rec, 1, g)
             d == DecodeString(t)
  <2>1. \A k \in 1 .. g : (CHOOSE u \in Units : Enc[u] = Group(t, k)) = rec[k]
    BY <1>6, EncAssumption
  <2>2. d = [k \in 1 .. g |-> rec[k]]
    BY <2>1 DEF DecodeString, g
  <2>3. d \in Seq(Units) /\ Len(d) = g /\ \A k \in 1 .. g : d[k] = rec[k]
    BY <1>2, <1>6, <2>2
  <2>4. s \in Seq(Units) /\ Len(s) = g /\ \A k \in 1 .. g : s[k] = rec[k]
    <3>1. g \in 0 .. Len(rec)
      BY <1>1, <1>2, <1>5 DEF m
    <3> QED
      BY <3>1, FirstElements
  <2> HIDE DEF s, d
  <2>5. \A k \in 1 .. Len(d) : d[k] = s[k]
    BY <2>3, <2>4, Zenon
  <2>6. d = s
    BY <2>3, <2>4, <2>5, SeqEqual
  <2> QED
    BY <2>6 DEF s, d
<1>9. n = m * EncLen => r = 0 /\ g = m
  <2> SUFFICES ASSUME n = m * EncLen PROVE r = 0 /\ g = m
    OBVIOUS
  <2>1. m * EncLen < (g + 1) * EncLen
    BY <1>1, <1>2, <1>4
  <2>2. m < g + 1
    BY <1>1, <1>2, <2>1, Multiples
  <2>3. g = m
    BY <1>1, <1>2, <1>5, <2>2
  <2> QED
    BY <1>2, <1>4, <2>3
<1>10. r = 0 /\ n > 0 => g > 0
  <2> SUFFICES ASSUME r = 0, n > 0, g = 0 PROVE FALSE
    BY <1>2
  <2>1. g * EncLen = 0
    BY <1>1
  <2> QED
    BY <1>2, <2>1
<1>11. g \in 0 .. m
  BY <1>1, <1>2, <1>5
<1> QED
  BY <1>7, <1>8, <1>9, <1>10, <1>11 DEF n, m, g, r

\* A record's line: its text and a newline.
LEMMA LineOf ==
  ASSUME EncIsText, NEW rec \in Seq(Units)
  PROVE  LET b == Append(Text(rec), Newline)
             n == Len(rec) * EncLen
         IN  /\ n \in Nat /\ b \in Seq(TextUnits) /\ Len(b) = n + 1 /\ b[n + 1] = Newline
             /\ \A q \in 1 .. n : b[q] = Text(rec)[q] /\ b[q] \in Letters
<1> DEFINE t == Text(rec)
           b == Append(t, Newline)
           n == Len(rec) * EncLen
<1>1. t \in Seq(Letters) /\ Len(t) = n
  BY TextOf
<1>2. Newline \in TextUnits
  BY DEF EncIsText
<1> HIDE DEF t, n
<1>3. n \in Nat /\ t \in Seq(TextUnits) /\ \A q \in 1 .. n : t[q] \in Letters
  <2>1. \A q \in 1 .. n : t[q] \in TextUnits
    BY <1>1 DEF Letters
  <2> QED
    BY <1>1, <2>1
<1>4. b \in Seq(TextUnits) /\ Len(b) = n + 1 /\ b[n + 1] = Newline /\ \A q \in 1 .. n : b[q] = t[q]
  BY <1>1, <1>2, <1>3
<1> QED
  BY <1>3, <1>4, Zenon DEF t, n

-----------------------------------------------------------------------------
(***************************************************************************)
(* A stream of lines, and where they lie in it.                            *)
(***************************************************************************)
Textual == Stream /\ writer.framing = "base64Lines"

\* How many letters line k has.
Span(k) == Len(written[k]) * EncLen

\* Every record is framed by its line.
LEMMA LinesFramed ==
  ASSUME Textual, EncIsText
  PROVE  /\ Framed(written, writer) /\ Blocks(written, writer) \in Seq(Seq(TextUnits))
         /\ \A k \in 1 .. Len(written) :
              /\ written[k] \in Seq(Units)
              /\ Blocks(written, writer)[k] = Append(Text(written[k]), Newline)
<1> DEFINE b == Blocks(written, writer)
           l(k) == Append(Text(written[k]), Newline)
<1>1. Len(written) \in Nat /\ \A k \in 1 .. Len(written) : written[k] \in Seq(Units)
  BY DEF Textual, Stream
<1>2. \A k \in 1 .. Len(written) : l(k) \in Seq(TextUnits)
  BY <1>1, LineOf, Zenon
<1>3. \A r : Written(r, writer) = Append(Text(r), Newline)
  BY DEF Textual, Written, WriteBase64Line, Text, Codes
<1>4. b = [k \in 1 .. Len(written) |-> l(k)]
  <2>1. DOMAIN written = 1 .. Len(written)
    BY DEF Textual, Stream
  <2> QED
    BY <1>3, <2>1 DEF Blocks
<1> HIDE DEF l
<1>5. b \in [1 .. Len(written) -> Seq(TextUnits)] /\ \A k \in 1 .. Len(written) : b[k] = l(k)
  BY <1>2, <1>4
<1> HIDE DEF b
<1>6. b \in Seq(Seq(TextUnits)) /\ Len(b) = Len(written)
  BY <1>1, <1>5, FunctionIsSeq, Zenon
<1>7. b \in Seq(Seq(Units))
  <2>1. TextUnits \subseteq Units
    BY TextAssumption, RadixAssumption DEF Units, Radix
  <2>2. \A k \in 1 .. Len(written) : b[k] \in Seq(Units)
    <3> TAKE k \in 1 .. Len(written)
    <3>1. b[k] \in Seq(TextUnits)
      BY <1>5
    <3> QED
      BY <2>1, <3>1
  <2>3. b \in [1 .. Len(written) -> Seq(Units)]
    BY <1>5, <2>2
  <2> QED
    BY <1>1, <2>3, FunctionIsSeq, Zenon
<1>8. Framed(written, writer)
  <2>1. \A k \in 1 .. Len(written) : b[k] = Written(written[k], writer)
    BY <1>3, <1>5, Zenon DEF l
  <2> QED
    BY <1>6, <1>7, <2>1, Zenon DEF Framed, b
<1> QED
  BY <1>1, <1>5, <1>6, <1>8, Zenon DEF b, l

\* What is known of a stream of lines, cut or not.
LEMMA TextParts ==
  ASSUME Textual, EncIsText
  PROVE  /\ Len(written) \in Nat /\ input \in Seq(Units) /\ Len(input) \in Nat /\ lost \in Nat
         /\ Len(input) = Len(WrittenAll(written, writer)) - lost
         /\ Len(WrittenAll(written, writer)) = EndOf(Len(written))
         /\ Len(input) <= EndOf(Len(written))
         /\ \A k \in 0 .. Len(written) : EndOf(k) \in Nat
         /\ \A q \in 1 .. Len(input) : input[q] \in TextUnits
<1> DEFINE s == WrittenAll(written, writer)
           b == Blocks(written, writer)
<1>1. /\ Len(written) \in Nat /\ b \in Seq(Seq(TextUnits)) /\ Len(b) = Len(written)
      /\ s \in Seq(Units) /\ s = Joined(b, Len(written))
      /\ \A k \in 0 .. Len(written) : EndOf(k) = Len(Joined(b, k)) /\ EndOf(k) \in Nat
      /\ input \in Seq(Units) /\ Len(input) = Len(s) - lost /\ Len(input) <= Len(s) /\ lost \in Nat
      /\ \A q \in 1 .. Len(input) : input[q] = s[q]
  BY LinesFramed, StreamParts, Zenon DEF Textual
<1> HIDE DEF s, b
<1>2. Len(written) \in 0 .. Len(written) /\ Len(written) \in 0 .. Len(b)
  BY <1>1
<1>3. s \in Seq(TextUnits)
  BY <1>1, <1>2, JoinedType
<1>4. Len(s) = EndOf(Len(written))
  BY <1>1, <1>2, Zenon
<1>5. \A q \in 1 .. Len(input) : input[q] \in TextUnits
  <2> TAKE q \in 1 .. Len(input)
  <2>1. q \in 1 .. Len(s)
    BY <1>1
  <2> QED
    BY <1>1, <1>3, <2>1
<1>6. Len(input) \in Nat /\ Len(input) <= EndOf(Len(written))
  BY <1>1, <1>4
<1> QED
  BY <1>1, <1>4, <1>5, <1>6, Zenon DEF s

\* Line k, as far as it is there.
LEMMA LineAt ==
  ASSUME Textual, EncIsText, NEW k \in 1 .. Len(written)
  PROVE  /\ EndOf(k - 1) \in Nat /\ Span(k) \in Nat /\ EndOf(k) = EndOf(k - 1) + Span(k) + 1
         /\ written[k] \in Seq(Units)
         /\ \A q \in 1 .. Span(k) : EndOf(k - 1) + q <= Len(input) =>
              /\ input[EndOf(k - 1) + q] = Text(written[k])[q]
              /\ input[EndOf(k - 1) + q] \in Letters
         /\ EndOf(k) <= Len(input) => input[EndOf(k)] = Newline
<1> DEFINE b == Blocks(written, writer)[k]
           s == WrittenAll(written, writer)
           e == EndOf(k - 1)
           t == Text(written[k])
           n == Span(k)
<1>1. /\ e \in Nat /\ EndOf(k) \in Nat /\ EndOf(k) = e + Len(b)
      /\ \A q \in 1 .. Len(b) : s[e + q] = b[q]
      /\ Len(input) \in Nat /\ \A q \in 1 .. Len(input) : input[q] = s[q]
  <2>1. /\ Framed(written, writer) /\ Stream
    BY LinesFramed DEF Textual
  <2>2. /\ e \in Nat /\ EndOf(k) \in Nat /\ EndOf(k) = e + Len(b)
        /\ \A q \in 1 .. Len(b) : s[e + q] = b[q]
    BY <2>1, BlockAt, Zenon
  <2>3. \A q \in 1 .. Len(input) : input[q] = s[q]
    BY <2>1, StreamParts, Zenon
  <2> QED
    BY <2>2, <2>3, TextParts, Zenon
<1>2. b = Append(t, Newline) /\ written[k] \in Seq(Units)
  BY LinesFramed, Zenon
<1>3. /\ n \in Nat /\ Len(b) = n + 1 /\ b[n + 1] = Newline
      /\ \A q \in 1 .. n : b[q] = t[q] /\ b[q] \in Letters
  BY <1>2, LineOf, Zenon DEF Span
<1> HIDE DEF b, s, e, t, n
<1>4. ASSUME NEW q \in 1 .. n, e + q <= Len(input)
      PROVE  input[e + q] = t[q] /\ input[e + q] \in Letters
  <2>1. e + q \in 1 .. Len(input) /\ q \in 1 .. Len(b)
    BY <1>1, <1>3, <1>4
  <2>2. input[e + q] = b[q]
    BY <1>1, <2>1, Zenon
  <2> QED
    BY <1>3, <2>2, Zenon
<1>5. ASSUME EndOf(k) <= Len(input)
      PROVE  input[EndOf(k)] = Newline
  <2>1. EndOf(k) \in 1 .. Len(input) /\ n + 1 \in 1 .. Len(b) /\ EndOf(k) = e + (n + 1)
    BY <1>1, <1>3, <1>5
  <2>2. input[EndOf(k)] = b[n + 1]
    BY <1>1, <2>1, Zenon
  <2> QED
    BY <1>3, <2>2, Zenon
<1>6. EndOf(k) = e + n + 1
  BY <1>1, <1>3
<1> QED
  BY <1>1, <1>2, <1>3, <1>4, <1>5, <1>6, Zenon DEF e, t, n

-----------------------------------------------------------------------------
(***************************************************************************)
(* What readBase64Line makes of a line.                                    *)
(***************************************************************************)
\* What TrimSpace leaves of a line that is letters first and blanks after.
LEMMA Trimmed ==
  ASSUME ReaderOK, NEW n \in Nat, pos + n <= LineEnd,
         \A i \in (pos + 1) .. (pos + n) : input[i] \notin SpaceUnits,
         \A i \in (pos + n + 1) .. LineEnd : input[i] \in SpaceUnits
  PROVE  Line = SubSeq(input, pos + 1, pos + n)
<1> DEFINE inked == {i \in (pos + 1) .. LineEnd : input[i] \notin SpaceUnits}
           first == CHOOSE i \in inked : \A j \in inked : i <= j
           last  == CHOOSE i \in inked : \A j \in inked : j <= i
<1>1. pos \in Nat /\ LineEnd \in Nat
  BY LineEndBound DEF ReaderOK
<1>2. inked = (pos + 1) .. (pos + n)
  <2>1. ASSUME NEW i \in (pos + 1) .. LineEnd, input[i] \notin SpaceUnits
        PROVE  i \in (pos + 1) .. (pos + n)
    <3>1. ~(i \in (pos + n + 1) .. LineEnd)
      BY <2>1
    <3> QED
      BY <1>1, <3>1
  <2>2. ASSUME NEW i \in (pos + 1) .. (pos + n)
        PROVE  i \in (pos + 1) .. LineEnd
    BY <1>1
  <2> QED
    BY <2>1, <2>2
<1>3. Line = IF inked = {} THEN << >> ELSE SubSeq(input, first, last)
  BY DEF Line
<1> HIDE DEF inked
<1>4. CASE n = 0
  <2>1. inked = {}
    BY <1>1, <1>2, <1>4
  <2>2. SubSeq(input, pos + 1, pos + n) = << >>
    <3>1. pos + 1 \in Int /\ pos + n \in Int /\ pos + n < pos + 1
      BY <1>1, <1>4
    <3> QED
      BY <3>1, SubSeqEmpty, Zenon
  <2> QED
    BY <1>3, <2>1, <2>2
<1>5. CASE n # 0
  <2>1. pos + 1 \in inked /\ pos + n \in inked /\ inked # {}
    BY <1>1, <1>2, <1>5
  <2>2. first = pos + 1
    <3>1. \A j \in inked : pos + 1 <= j
      BY <1>1, <1>2
    <3>2. \A i \in inked : (\A j \in inked : i <= j) => i <= pos + 1 /\ pos + 1 <= i
      BY <2>1, <3>1
    <3>3. \A i \in inked : (\A j \in inked : i <= j) => i = pos + 1
      BY <1>1, <1>2, <3>2
    <3> QED
      BY <2>1, <3>1, <3>3
  <2>3. last = pos + n
    <3>1. \A j \in inked : j <= pos + n
      BY <1>1, <1>2
    <3>3. \A i \in inked : (\A j \in inked : j <= i) => i = pos + n
      BY <1>1, <1>2, <2>1, <3>1
    <3> QED
      BY <2>1, <3>1, <3>3
  <2> QED
    BY <1>3, <2>1, <2>2, <2>3
<1> QED
  BY <1>4, <1>5

\* The next n units.
LEMMA NextUnits ==
  ASSUME ReaderOK, NEW n \in Nat, pos + n <= Len(input)
  PROVE  LET s == SubSeq(input, pos + 1, pos + n) IN
         s \in Seq(Units) /\ Len(s) = n /\ \A q \in 1 .. n : s[q] = input[pos + q]
<1>1. pos \in Nat /\ input \in Seq(Units)
  BY DEF ReaderOK
<1> QED
  BY <1>1, Piece

\* How much of the letters of line k is there.
Seen(k) == IF EndOf(k) <= Len(input) THEN Span(k) ELSE Len(input) - EndOf(k - 1)

\* Where a line is to be read, the reader takes what is there of it, to its newline
\* or to the end of the stream, and decodes its letters.
LEMMA LineRead ==
  ASSUME Textual, EncIsText, ReaderOK, NEW k \in 1 .. Len(written), pos = EndOf(k - 1)
  PROVE  /\ Seen(k) \in Nat /\ Seen(k) <= Span(k)
         /\ Newlines = {} <=> EndOf(k) > Len(input)
         /\ LineEnd = IF EndOf(k) <= Len(input) THEN EndOf(k) ELSE Len(input)
         /\ Code = Line /\ Line \in Seq(Letters) /\ Len(Line) = Seen(k)
         /\ \A q \in 1 .. Seen(k) : Line[q] = Text(written[k])[q]
<1> DEFINE n == Seen(k)
           E == EndOf(k)
           t == Text(written[k])
           L == Len(input)
           m == Span(k)
<1>1. /\ pos \in Nat /\ L \in Nat /\ pos <= L /\ input \in Seq(Units)
      /\ E \in Nat /\ m \in Nat /\ E = pos + m + 1
      /\ \A q \in 1 .. m : pos + q <= L => input[pos + q] = t[q] /\ input[pos + q] \in Letters
      /\ E <= L => input[E] = Newline
  <2>1. k \in 0 .. Len(written)
    BY TextParts
  <2>2. EndOf(k) \in Nat
    BY <2>1, TextParts, Zenon
  <2>3. pos \in Nat /\ L \in Nat /\ pos <= L /\ input \in Seq(Units)
    BY DEF ReaderOK
  <2> QED
    BY <2>2, <2>3, LineAt, Zenon
<1>2. n = IF E <= L THEN m ELSE L - pos
  BY DEF Seen
<1> HIDE DEF n, E, t, L, m
<1>0. pos \in Nat /\ L \in Nat /\ pos <= L /\ E \in Nat /\ m \in Nat /\ E = pos + m + 1
  BY <1>1
<1>3. n \in Nat /\ n <= m /\ pos + n <= L /\ (E <= L => pos + n + 1 = E) /\ (~(E <= L) => pos + n = L)
  BY <1>0, <1>2
<1>4. /\ CarriageReturn # Newline /\ {Newline, CarriageReturn} \subseteq SpaceUnits /\ Letters \cap SpaceUnits = {}
  BY TextAssumption DEF Letters
<1>5. ASSUME NEW q \in 1 .. n
      PROVE  input[pos + q] = t[q] /\ input[pos + q] \in Letters
  <2>1. q \in 1 .. m /\ pos + q <= L
    BY <1>1, <1>3
  <2> QED
    BY <1>1, <2>1, Zenon
<1>6. \A i \in (pos + 1) .. (pos + n) : input[i] \in Letters /\ input[i] \notin SpaceUnits /\ input[i] # Newline
  <2> TAKE i \in (pos + 1) .. (pos + n)
  <2> DEFINE q == i - pos
  <2>0. n \in Nat /\ pos \in Nat
    BY <1>0, <1>3
  <2>1. q \in 1 .. n /\ pos + q = i
    BY <2>0
  <2> HIDE DEF q
  <2>2. input[i] \in Letters
    BY <1>5, <2>1
  <2> QED
    BY <1>4, <2>2
<1>7. ASSUME E <= L
      PROVE  /\ Newlines # {} /\ LineEnd = E /\ pos + n <= LineEnd
             /\ \A i \in (pos + n + 1) .. LineEnd : input[i] \in SpaceUnits
  <2>1. E \in Newlines
    BY <1>1, <1>7 DEF Newlines, L
  <2>2. \A j \in Newlines : E <= j
    <3> TAKE j \in Newlines
    <3>1. j \in (pos + 1) .. L /\ input[j] = Newline
      BY DEF Newlines, L
    <3>2. ~(j \in (pos + 1) .. (pos + n))
      BY <1>6, <3>1
    <3> QED
      BY <1>1, <1>3, <1>7, <3>1, <3>2
  <2>3. \A i \in Newlines : (\A j \in Newlines : i <= j) => i = E
    <3> TAKE i \in Newlines
    <3> HAVE \A j \in Newlines : i <= j
    <3>1. i <= E /\ E <= i /\ i \in Nat
      BY <1>1, <2>1, <2>2 DEF Newlines
    <3> QED
      BY <1>1, <3>1
  <2>4. LineEnd = E
    BY <2>1, <2>2, <2>3 DEF LineEnd
  <2>5. \A i \in (pos + n + 1) .. LineEnd : input[i] \in SpaceUnits
    <3> TAKE i \in (pos + n + 1) .. LineEnd
    <3>1. i = E
      BY <1>1, <1>3, <1>7, <2>4
    <3> QED
      BY <1>1, <1>4, <1>7, <3>1
  <2>6. pos + n <= LineEnd
    BY <1>1, <1>3, <1>7, <2>4
  <2> QED
    BY <2>1, <2>4, <2>5, <2>6
<1>8. ASSUME ~(E <= L)
      PROVE  /\ Newlines = {} /\ LineEnd = L /\ pos + n <= LineEnd
             /\ \A i \in (pos + n + 1) .. LineEnd : input[i] \in SpaceUnits
  <2>1. Newlines = {}
    <3> SUFFICES ASSUME NEW j \in (pos + 1) .. L, input[j] = Newline PROVE FALSE
      BY DEF Newlines, L
    <3>1. j \in (pos + 1) .. (pos + n)
      BY <1>1, <1>3, <1>8
    <3> QED
      BY <1>6, <3>1
  <2>2. LineEnd = L
    BY <2>1 DEF LineEnd, L
  <2>3. \A i \in (pos + n + 1) .. LineEnd : input[i] \in SpaceUnits
    BY <1>0, <1>3, <1>8, <2>2
  <2>4. pos + n <= LineEnd
    BY <1>3, <2>2
  <2> QED
    BY <2>1, <2>2, <2>3, <2>4
<1>9. /\ Newlines = {} <=> E > L
      /\ LineEnd = IF E <= L THEN E ELSE L
      /\ pos + n <= LineEnd
      /\ \A i \in (pos + n + 1) .. LineEnd : input[i] \in SpaceUnits
  <2>1. E > L <=> ~(E <= L)
    BY <1>0
  <2>2. CASE E <= L
    BY <1>7, <2>1, <2>2, Zenon
  <2>3. CASE ~(E <= L)
    BY <1>8, <2>1, <2>3, Zenon
  <2> QED
    BY <2>2, <2>3
<1>10. Line = SubSeq(input, pos + 1, pos + n)
  BY <1>3, <1>6, <1>9, Trimmed
<1> DEFINE s == SubSeq(input, pos + 1, pos + n)
<1>11. s \in Seq(Units) /\ Len(s) = n /\ \A q \in 1 .. n : s[q] = input[pos + q]
  <2>1. n \in Nat /\ pos + n <= Len(input)
    BY <1>3 DEF L
  <2> QED
    BY <2>1, NextUnits, Zenon
<1> HIDE DEF s
<1>12. s \in Seq(Letters) /\ \A q \in 1 .. n : s[q] = t[q]
  <2>1. \A q \in 1 .. n : s[q] = t[q] /\ s[q] \in Letters
    BY <1>5, <1>11, Zenon
  <2> QED
    BY <1>11, <2>1
<1>13. Line = s
  BY <1>10 DEF s
<1>14. Code = Line
  <2>1. \A i \in (pos + 1) .. LineEnd : input[i] # CarriageReturn
    <3> TAKE i \in (pos + 1) .. LineEnd
    <3>1. CASE i \in (pos + 1) .. (pos + n)
      BY <1>4, <1>6, <3>1
    <3>2. CASE ~(i \in (pos + 1) .. (pos + n))
      <4>1. E <= L
        <5> SUFFICES ASSUME ~(E <= L) PROVE FALSE
          OBVIOUS
        <5>1. LineEnd = pos + n
          BY <1>3, <1>9
        <5> QED
          BY <3>2, <5>1
      <4>2. LineEnd = pos + n + 1 /\ LineEnd = E /\ pos \in Nat /\ n \in Nat
        BY <1>0, <1>3, <1>9, <4>1
      <4>3. i = LineEnd
        BY <3>2, <4>2
      <4> QED
        BY <1>1, <1>4, <4>1, <4>2, <4>3
    <3> QED
      BY <3>1, <3>2
  <2> QED
    BY <2>1 DEF Code
<1> QED
  BY <1>3, <1>9, <1>11, <1>12, <1>13, <1>14, Zenon DEF n, E, t, L, m

-----------------------------------------------------------------------------
(***************************************************************************)
(* The records that lines can stand for: an empty line is none.            *)
(***************************************************************************)
Marks == [k \in DOMAIN written |-> IF written[k] = << >> THEN << >> ELSE <<written[k]>>]

\* Those of the first k lines, in order.
Kept(k) == Joined(Marks, k)
KeptLines(k) == {j \in 1 .. k : written[j] # << >>}

\* Line after line, a record that is not empty is added.
LEMMA KeptIs ==
  ASSUME Textual
  PROVE  /\ Marks \in Seq(Seq(Seq(Units))) /\ Len(Marks) = Len(written) /\ Len(written) \in Nat
         /\ Kept(0) = << >> /\ Expected = Kept(Len(written))
         /\ \A k \in 0 .. Len(written) : Kept(k) \in Seq(Seq(Units))
         /\ \A k \in 1 .. Len(written) :
              Kept(k) = IF written[k] = << >> THEN Kept(k - 1) ELSE Append(Kept(k - 1), written[k])
<1> DEFINE m(k) == IF written[k] = << >> THEN << >> ELSE <<written[k]>>
<1>1. /\ written \in Seq(Seq(Units)) /\ Len(written) \in Nat /\ DOMAIN written = 1 .. Len(written)
      /\ \A k \in 1 .. Len(written) : written[k] \in Seq(Units)
  BY DEF Textual, Stream
<1>2. \A k \in 1 .. Len(written) : m(k) \in Seq(Seq(Units))
  BY <1>1
<1>3. Marks = [k \in 1 .. Len(written) |-> m(k)]
  BY <1>1 DEF Marks
<1> HIDE DEF m
<1>4. Marks \in [1 .. Len(written) -> Seq(Seq(Units))] /\ \A k \in 1 .. Len(written) : Marks[k] = m(k)
  BY <1>2, <1>3
<1>5. Marks \in Seq(Seq(Seq(Units))) /\ Len(Marks) = Len(written)
  BY <1>1, <1>4, FunctionIsSeq, Zenon
<1>6. Kept(0) = << >>
  BY <1>5, JoinedNothing DEF Kept
<1>7. \A k \in 0 .. Len(written) : Kept(k) \in Seq(Seq(Units))
  BY <1>5, JoinedType, Zenon DEF Kept
<1>8. ASSUME NEW k \in 1 .. Len(written)
      PROVE  Kept(k) = IF written[k] = << >> THEN Kept(k - 1) ELSE Append(Kept(k - 1), written[k])
  <2> DEFINE a == Kept(k - 1)
  <2>1. k - 1 \in 0 .. Len(written) /\ k \in 1 .. Len(Marks)
    BY <1>1, <1>5
  <2>2. a \in Seq(Seq(Units))
    BY <1>7, <2>1, Zenon
  <2>3. Kept(k) = a \o Marks[k]
    BY <1>5, <2>1, <2>2, JoinedStep DEF Kept
  <2> HIDE DEF a
  <2>4. CASE written[k] = << >>
    <3>1. Marks[k] = << >>
      BY <1>4, <2>4 DEF m
    <3>2. a \o << >> = a
      BY <2>2
    <3> QED
      BY <2>3, <2>4, <3>1, <3>2 DEF a
  <2>5. CASE written[k] # << >>
    <3>1. Marks[k] = <<written[k]>> /\ written[k] \in Seq(Units)
      BY <1>1, <1>4, <2>5 DEF m
    <3> DEFINE w == written[k]
    <3>2. w \in Seq(Units)
      BY <3>1
    <3> HIDE DEF w
    <3>3. a \o <<w>> = Append(a, w)
      BY <2>2, <3>2
    <3> QED
      BY <2>3, <2>5, <3>1, <3>3 DEF a, w
  <2> QED
    BY <2>4, <2>5
<1>9. Expected = Kept(Len(written))
  <2>1. Kept(Len(written)) = FlattenSeq(Marks)
    BY <1>5, JoinedAll DEF Kept
  <2> QED
    BY <2>1 DEF Expected, Marks, Textual
<1> QED
  BY <1>1, <1>5, <1>6, <1>7, <1>8, <1>9, Zenon

\* What is kept of fewer lines is the beginning of what is kept of more.
LEMMA KeptFirst ==
  ASSUME Textual, NEW k \in 0 .. Len(written), NEW j \in 0 .. Len(written), j <= k
  PROVE  /\ Len(Kept(j)) <= Len(Kept(k)) /\ Len(Kept(j)) \in Nat /\ Len(Kept(k)) \in Nat
         /\ \A q \in 1 .. Len(Kept(j)) : Kept(k)[q] = Kept(j)[q]
         /\ Kept(j) = SubSeq(Kept(k), 1, Len(Kept(j)))
<1>1. /\ Marks \in Seq(Seq(Seq(Units))) /\ Len(Marks) = Len(written) /\ Len(written) \in Nat
      /\ Kept(j) \in Seq(Seq(Units)) /\ Kept(k) \in Seq(Seq(Units))
  BY KeptIs, Zenon
<1>2. j \in 0 .. Len(Marks) /\ k \in j .. Len(Marks)
  BY <1>1
<1>3. /\ Len(Kept(j)) <= Len(Kept(k))
      /\ \A q \in 1 .. Len(Kept(j)) : Kept(k)[q] = Kept(j)[q]
  BY <1>1, <1>2, JoinedKeeps, Zenon DEF Kept
<1> DEFINE x == Kept(j)
           y == Kept(k)
<1>4. x \in Seq(Seq(Units)) /\ y \in Seq(Seq(Units)) /\ Len(x) <= Len(y) /\ \A q \in 1 .. Len(x) : y[q] = x[q]
  BY <1>1, <1>3
<1> HIDE DEF x, y
<1>5. Len(x) \in Nat /\ Len(y) \in Nat /\ Len(x) \in 0 .. Len(y)
  BY <1>4
<1> DEFINE z == SubSeq(y, 1, Len(x))
<1>6. z \in Seq(Seq(Units)) /\ Len(z) = Len(x) /\ \A q \in 1 .. Len(x) : z[q] = y[q]
  BY <1>4, <1>5, FirstElements
<1> HIDE DEF z
<1>7. \A q \in 1 .. Len(x) : x[q] = z[q]
  BY <1>4, <1>6, Zenon
<1>8. x = z
  BY <1>4, <1>6, <1>7, SeqEqual
<1> QED
  BY <1>3, <1>5, <1>8, Zenon DEF x, y, z

\* There are as many as lines that are not empty.
LEMMA KeptCount ==
  ASSUME Textual, NEW k \in 0 .. Len(written)
  PROVE  Len(Kept(k)) = Cardinality(KeptLines(k))
<1> DEFINE Bad == {i \in 0 .. Len(written) : Len(Kept(i)) # Cardinality(KeptLines(i))}
<1>1. SUFFICES ASSUME Bad # {} PROVE FALSE
  OBVIOUS
<1>2. Len(written) \in Nat
  BY KeptIs
<1>3. Bad \in SUBSET Nat
  BY <1>2
<1>4. PICK b \in Bad : \A i \in Bad : b <= i
  <2> HIDE DEF Bad
  <2> QED
    BY <1>1, <1>3, LeastExists
<1>5. b \in 0 .. Len(written) /\ Len(Kept(b)) # Cardinality(KeptLines(b))
  OBVIOUS
<1>6. CASE b = 0
  <2>1. KeptLines(0) = {}
    BY DEF KeptLines
  <2>2. Kept(0) = << >>
    BY KeptIs
  <2>3. Cardinality({}) = 0
    BY FS_EmptySet
  <2> QED
    BY <1>5, <1>6, <2>1, <2>2, <2>3
<1>7. CASE b # 0
  <2> DEFINE a == b - 1
             K == KeptLines(a)
  <2>1. a \in 0 .. Len(written) /\ ~(b <= a) /\ b \in 1 .. Len(written) /\ a + 1 = b
    BY <1>2, <1>5, <1>7
  <2>2. Len(Kept(a)) = Cardinality(K)
    <3> HIDE DEF a, K
    <3>1. a \notin Bad
      <4> HIDE DEF Bad
      <4> QED
        BY <1>4, <2>1
    <3> QED
      BY <2>1, <3>1 DEF K
  <2>3. /\ Kept(a) \in Seq(Seq(Units)) /\ written[b] \in Seq(Units)
        /\ Kept(b) = IF written[b] = << >> THEN Kept(a) ELSE Append(Kept(a), written[b])
    <3>1. written[b] \in Seq(Units)
      BY <2>1 DEF Textual, Stream
    <3> QED
      BY <2>1, <3>1, KeptIs, Zenon
  <2>4. IsFiniteSet(K) /\ b \notin K
    <3>1. a \in Nat /\ 1 \in Nat
      BY <2>1
    <3>2. IsFiniteSet(1 .. a)
      <4> HIDE DEF a
      <4> QED
        BY <3>1, FS_Interval
    <3>3. K \subseteq 1 .. a
      BY DEF KeptLines
    <3>4. IsFiniteSet(K)
      BY <3>2, <3>3, FS_Subset
    <3> QED
      BY <2>1, <3>3, <3>4
  <2>5. KeptLines(b) = IF written[b] = << >> THEN K ELSE K \cup {b}
    BY <2>1 DEF KeptLines
  <2>6. Cardinality(K \cup {b}) = Cardinality(K) + 1
    <3> HIDE DEF K
    <3> QED
      BY <2>4, FS_AddElement
  <2> HIDE DEF a, K
  <2>7. CASE written[b] = << >>
    BY <1>5, <2>2, <2>3, <2>5, <2>7
  <2>8. CASE written[b] # << >>
    <3>1. Len(Kept(b)) = Len(Kept(a)) + 1
      BY <2>3, <2>8
    <3> QED
      BY <1>5, <2>2, <2>5, <2>6, <2>8, <3>1, Zenon
  <2> QED
    BY <2>7, <2>8
<1> QED
  BY <1>6, <1>7

\* Line k + 1 is not there, or not all of it.
LastLine(k) == k = Len(written) \/ EndOf(k + 1) > Len(input)

\* The last line that is all there: the source still has to return what is kept of
\* the lines up to it.
LEMMA WholeLines ==
  ASSUME Textual, EncIsText
  PROVE  \E K \in 0 .. Len(written) :
           /\ EndOf(K) <= Len(input) /\ LastLine(K)
           /\ CompleteLines = Len(Kept(K)) /\ WholeRecords = Kept(K)
           /\ \A k \in 0 .. Len(written) : EndOf(k) <= Len(input) => k <= K /\ (LastLine(k) => k = K)
<1> DEFINE S == {k \in 0 .. Len(written) : EndOf(k) <= Len(input)}
           l == Len(written)
           L == Len(input)
<1>1. l \in Nat /\ L \in Nat /\ \A k \in 0 .. l : EndOf(k) \in Nat
  BY TextParts, Zenon
<1>2. EndOf(0) = 0
  BY DEF EndOf
<1>3. 0 \in S /\ S \in SUBSET (0 .. l)
  BY <1>1, <1>2
<1> HIDE DEF l, L
<1>4. PICK K \in S : \A k \in S : k <= K
  <2> HIDE DEF S
  <2> QED
    BY <1>1, <1>3, GreatestExists
<1>5. K \in 0 .. l /\ EndOf(K) <= L /\ \A k \in 0 .. l : EndOf(k) <= L => k <= K
  BY <1>4 DEF l, L
<1> HIDE DEF S
<1>6. LastLine(K)
  <2> SUFFICES ASSUME K # l PROVE EndOf(K + 1) > L
    BY DEF LastLine, l, L
  <2>1. K + 1 \in 0 .. l /\ ~(K + 1 <= K)
    BY <1>1, <1>5
  <2>2. ~(EndOf(K + 1) <= L)
    BY <1>5, <2>1
  <2> QED
    BY <1>1, <2>1, <2>2
<1>7. ASSUME NEW i \in 0 .. l, NEW j \in 0 .. l, i <= j
      PROVE  EndOf(i) <= EndOf(j)
  BY <1>7, LinesFramed, EndsInOrder, Zenon DEF Textual, l
<1>8. ASSUME NEW k \in 0 .. l, EndOf(k) <= L, LastLine(k)
      PROVE  k = K
  <2> SUFFICES ASSUME k # K PROVE FALSE
    OBVIOUS
  <2>1. k <= K
    BY <1>5, <1>8
  <2>2. k + 1 \in 0 .. l /\ k + 1 <= K /\ k # l
    BY <1>1, <1>5, <2>1
  <2>3. EndOf(k + 1) <= EndOf(K)
    BY <1>5, <1>7, <2>2
  <2>4. EndOf(k + 1) > L
    BY <1>8, <2>2 DEF LastLine, l, L
  <2> QED
    BY <1>1, <1>5, <2>2, <2>3, <2>4
<1>9. {k \in DOMAIN written : written[k] # << >> /\ ends[k] <= Len(input)} = KeptLines(K)
  <2>1. DOMAIN written = 1 .. l
    BY DEF Textual, Stream, l
  <2>2. \A k \in 1 .. l : ends[k] = EndOf(k) /\ k \in 0 .. l
    BY <1>1 DEF EndOf
  <2>3. \A k \in 1 .. l : EndOf(k) <= L <=> k <= K
    <3> TAKE k \in 1 .. l
    <3>1. k \in 0 .. l
      BY <2>2
    <3>2. EndOf(k) <= L => k <= K
      BY <1>5, <3>1
    <3>3. k <= K => EndOf(k) <= EndOf(K)
      BY <1>5, <1>7, <3>1
    <3>4. EndOf(k) \in Nat /\ EndOf(K) \in Nat /\ EndOf(K) <= L
      BY <1>1, <1>5, <3>1
    <3>5. k <= K => EndOf(k) <= L
      BY <1>1, <3>3, <3>4
    <3> QED
      BY <3>2, <3>5
  <2>4. \A k : k \in 1 .. l /\ k <= K <=> k \in 1 .. K
    BY <1>1, <1>5
  <2>5. {k \in DOMAIN written : written[k] # << >> /\ ends[k] <= L}
          = {k \in 1 .. l : written[k] # << >> /\ k <= K}
    BY <2>1, <2>2, <2>3
  <2>6. {k \in 1 .. l : written[k] # << >> /\ k <= K} = KeptLines(K)
    BY <2>4 DEF KeptLines
  <2> QED
    BY <2>5, <2>6, Zenon DEF L
<1>10. CompleteLines = Len(Kept(K))
  <2>1. K \in 0 .. Len(written)
    BY <1>5 DEF l
  <2> QED
    BY <1>9, <2>1, KeptCount, Zenon DEF CompleteLines
<1>11. WholeRecords = Kept(K)
  <2>1. WholeRecords = SubSeq(Expected, 1, CompleteLines)
    BY DEF WholeRecords, Textual
  <2>2. K \in 0 .. Len(written) /\ Len(written) \in 0 .. Len(written) /\ K <= Len(written)
    BY <1>1, <1>5 DEF l
  <2>3. Kept(K) = SubSeq(Kept(Len(written)), 1, Len(Kept(K)))
    BY <2>2, KeptFirst, Zenon
  <2>4. Expected = Kept(Len(written))
    BY KeptIs, Zenon
  <2> QED
    BY <1>10, <2>1, <2>3, <2>4, Zenon
<1> QED
  BY <1>5, <1>6, <1>8, <1>10, <1>11, Zenon DEF l, L

-----------------------------------------------------------------------------
(***************************************************************************)
(* The inductive invariant of a stream of lines, and what the caller sees. *)
(***************************************************************************)
\* The caller has what is kept of the first k lines, all of them whole.
HasLines(k) == EndOf(k) <= Len(input) /\ delivered = Kept(k)

\* The reader stands behind line k, or gave up there: for a refusal, or because
\* no whole line is left.
AfterLine(k) ==
  /\ HasLines(k)
  /\ outcome = {} => pos = EndOf(k)
  /\ outcome # {} /\ outcome # {"ErrRecordTooLarge"} => LastLine(k)

\* The last line, cut off, was taken for a record, and nothing is behind it.
AfterTorn(k) ==
  /\ k # Len(written) /\ EndOf(k) <= Len(input) /\ LastLine(k)
  /\ outcome = {} => pos = Len(input)
  /\ \E g \in 1 .. Len(written[k + 1]) : delivered = Append(Kept(k), SubSeq(written[k + 1], 1, g))

TextInv ==
  /\ closed => outcome # {}
  /\ detected \in {"auto", "base64Lines"}
  /\ framing = "auto" /\ detected = "auto" => pc = "idle" /\ pos = 0 /\ delivered = << >>
  /\ pc \in {"idle", "base64Lines"}
  /\ pc # "idle" => outcome = {}
  /\ \E k \in 0 .. Len(written) : AfterLine(k) \/ AfterTorn(k)

\* What the source of the records still has to return, and whether it is intact.
Left == SubSeq(WholeRecords, Len(delivered) + 1, Len(WholeRecords))
Whole == lost = 0 /\ tail = "eof"

\* What a caller can tell of a step: the next record, what is left of a damaged
\* one, an error with its reason, or nothing.
SeesRecord ==
  /\ outcome = {} /\ outcome' = {}
  /\ Left # << >> /\ Len(Head(Left)) <= maxRecordSize
  /\ delivered' = Append(delivered, Head(Left))

SeesTorn ==
  /\ outcome = {} /\ outcome' = {}
  /\ Left = << >> /\ ~Whole
  /\ Len(delivered') = Len(delivered) + 1 /\ SubSeq(delivered', 1, Len(delivered)) = delivered

SeesError ==
  /\ outcome = {} /\ outcome' # {} /\ delivered' = delivered
  /\ IF outcome' = {"ErrRecordTooLarge"}
     THEN IF Left = << >> THEN ~Whole ELSE Len(Head(Left)) > maxRecordSize
     ELSE /\ Left = << >> /\ "ErrRecordTooLarge" \notin outcome'
          /\ "EOF" \in outcome' \/ ~Whole

Sees == SeesRecord \/ SeesTorn \/ SeesError \/ Quiet

\* What is left is empty once the last whole line is behind, and begins with the
\* next line's record before that.
LEMMA LeftIs ==
  ASSUME Textual, EncIsText, NEW k \in 0 .. Len(written), EndOf(k) <= Len(input)
  PROVE  /\ LastLine(k) /\ Len(delivered) \in Nat /\ Len(delivered) >= Len(Kept(k)) => Left = << >>
         /\ k # Len(written) /\ EndOf(k + 1) <= Len(input) /\ written[k + 1] # << >>
              /\ Len(delivered) = Len(Kept(k))
            => Left # << >> /\ Head(Left) = written[k + 1]
<1>1. PICK K \in 0 .. Len(written) :
        /\ EndOf(K) <= Len(input) /\ LastLine(K)
        /\ CompleteLines = Len(Kept(K)) /\ WholeRecords = Kept(K)
        /\ \A j \in 0 .. Len(written) : EndOf(j) <= Len(input) => j <= K /\ (LastLine(j) => j = K)
  BY WholeLines, Zenon
<1>2. Len(written) \in Nat /\ Kept(K) \in Seq(Seq(Units)) /\ Kept(k) \in Seq(Seq(Units))
  BY KeptIs, Zenon
<1> DEFINE w == Kept(K)
           n == Len(delivered)
<1>3. w \in Seq(Seq(Units)) /\ Len(w) \in Nat /\ Left = SubSeq(w, n + 1, Len(w))
  BY <1>1, <1>2 DEF Left
<1> HIDE DEF w, n
<1>4. ASSUME LastLine(k), n \in Nat, n >= Len(Kept(k))
      PROVE  Left = << >>
  <2>1. k = K
    BY <1>1, <1>4, Zenon
  <2>2. n + 1 \in Int /\ Len(w) \in Int /\ Len(w) < n + 1
    BY <1>3, <1>4, <2>1 DEF w
  <2> QED
    BY <1>3, <2>2, SubSeqEmpty, Zenon
<1>5. ASSUME k # Len(written), EndOf(k + 1) <= Len(input), written[k + 1] # << >>, n = Len(Kept(k))
      PROVE  Left # << >> /\ Head(Left) = written[k + 1]
  <2> DEFINE j == k + 1
  <2>1. j \in 1 .. Len(written) /\ j \in 0 .. Len(written) /\ j - 1 = k
    BY <1>2, <1>5
  <2>2. j <= K
    BY <1>1, <1>5, <2>1
  <2> HIDE DEF j
  <2>3. written[j] \in Seq(Units)
    BY <2>1 DEF Textual, Stream
  <2>4. Kept(j) = Append(Kept(k), written[j])
    BY <1>5, <2>1, KeptIs, Zenon DEF j
  <2>5. Len(Kept(j)) = n + 1 /\ Kept(j)[n + 1] = written[j] /\ n \in Nat
    BY <1>2, <1>5, <2>3, <2>4
  <2>6. Len(Kept(j)) <= Len(w) /\ \A q \in 1 .. Len(Kept(j)) : w[q] = Kept(j)[q]
    BY <2>1, <2>2, KeptFirst, Zenon DEF w
  <2>7. n + 1 \in 1 .. Len(w) /\ n + 1 \in 1 .. Len(Kept(j)) /\ Len(w) \in (n + 1) .. Len(w)
    BY <1>3, <2>5, <2>6
  <2>8. w[n + 1] = written[j]
    BY <2>5, <2>6, <2>7, Zenon
  <2> DEFINE m == n + 1
             r == SubSeq(w, m, Len(w))
  <2>9. m \in 1 .. Len(w) /\ Len(w) \in m .. Len(w) /\ w[m] = written[j] /\ Left = r
    BY <1>3, <2>7, <2>8
  <2> HIDE DEF m
  <2>10. Head(r) = w[m]
    BY <1>3, <2>9, HeadTailOfSubSeq, Zenon
  <2>11. r # << >>
    <3>1. Len(r) = Len(w) - m + 1
      BY <1>3, <2>9
    <3>2. Len(r) # 0
      <4> HIDE DEF r
      <4>1. m \in Int /\ Len(w) \in Int /\ m <= Len(w)
        BY <1>3, <2>9
      <4> QED
        BY <3>1, <4>1
    <3>3. Len(<< >>) = 0
      OBVIOUS
    <3> HIDE DEF r
    <3> QED
      BY <3>2, <3>3
  <2> QED
    BY <2>9, <2>10, <2>11, Zenon DEF j
<1> QED
  BY <1>4, <1>5, Zenon DEF n

\* A line that is not all there was cut off.
LEMMA LineCutOff ==
  ASSUME Textual, EncIsText, NEW k \in 0 .. Len(written), k # Len(written), EndOf(k + 1) > Len(input)
  PROVE  lost # 0 /\ ~Whole
<1>1. Len(written) \in Nat /\ Len(input) \in Nat /\ lost \in Nat /\ EndOf(Len(written)) \in Nat
      /\ Len(input) = EndOf(Len(written)) - lost
  <2>1. Len(written) \in Nat
    BY TextParts
  <2>2. Len(written) \in 0 .. Len(written)
    BY <2>1
  <2> QED
    BY <2>1, <2>2, TextParts, Zenon
<1>2. k + 1 \in 0 .. Len(written) /\ Len(written) \in 0 .. Len(written) /\ k + 1 <= Len(written)
  BY <1>1
<1>3. EndOf(k + 1) <= EndOf(Len(written)) /\ EndOf(k + 1) \in Nat
  BY <1>2, LinesFramed, EndsInOrder, Zenon DEF Textual
<1> QED
  BY <1>1, <1>3 DEF Whole

\* Nothing of the stream and of where its lines lie changes.
LEMMA LinesStay ==
  ASSUME SameStream
  PROVE  /\ written' = written /\ writer' = writer /\ ends' = ends /\ input' = input
         /\ lost' = lost /\ tail' = tail /\ framing' = framing /\ maxRecordSize' = maxRecordSize
         /\ \A k : EndOf(k)' = EndOf(k) /\ Kept(k)' = Kept(k) /\ (LastLine(k)' <=> LastLine(k))
<1>1. /\ written' = written /\ writer' = writer /\ ends' = ends /\ input' = input
      /\ lost' = lost /\ tail' = tail /\ framing' = framing /\ maxRecordSize' = maxRecordSize
  BY DEF SameStream, source
<1>2. \A k : EndOf(k)' = EndOf(k)
  BY <1>1 DEF EndOf
<1>3. Marks' = Marks
  BY <1>1 DEF Marks
<1>4. \A k : Kept(k)' = Kept(k)
  BY <1>3 DEF Kept, Joined
<1>5. \A k : LastLine(k)' <=> LastLine(k)
  BY <1>1 DEF LastLine, EndOf
<1> QED
  BY <1>1, <1>2, <1>4, <1>5, Zenon

\* A step that returns an error keeps the invariant.
LEMMA TextFails ==
  ASSUME TextInv, SameStream, pc' = "idle", outcome' # {}, delivered' = delivered,
         detected' = detected, framing = "auto" /\ detected = "auto" => pos' = pos,
         NEW k \in 0 .. Len(written),
         \/ HasLines(k) /\ (outcome' # {"ErrRecordTooLarge"} => LastLine(k))
         \/ AfterTorn(k)
  PROVE  TextInv'
<1>1. k \in 0 .. Len(written')
  BY LinesStay
<1>2. AfterLine(k)' \/ AfterTorn(k)'
  <2>1. CASE HasLines(k) /\ (outcome' # {"ErrRecordTooLarge"} => LastLine(k))
    <3>1. HasLines(k)'
      BY <2>1, LinesStay DEF HasLines
    <3> QED
      BY <2>1, <3>1, LinesStay, Zenon DEF AfterLine
  <2>2. CASE AfterTorn(k)
    <3>1. PICK g \in 1 .. Len(written[k + 1]) : delivered = Append(Kept(k), SubSeq(written[k + 1], 1, g))
      BY <2>2 DEF AfterTorn
    <3>2. g \in 1 .. Len(written'[k + 1]) /\ delivered' = Append(Kept(k)', SubSeq(written'[k + 1], 1, g))
      BY <3>1, LinesStay
    <3>3. k # Len(written') /\ EndOf(k)' <= Len(input') /\ LastLine(k)'
      BY <2>2, LinesStay DEF AfterTorn
    <3> QED
      BY <3>2, <3>3, Zenon DEF AfterTorn
  <2> QED
    BY <2>1, <2>2
<1>3. /\ detected' \in {"auto", "base64Lines"}
      /\ framing' = "auto" /\ detected' = "auto" => pos' = 0 /\ delivered' = << >>
  BY LinesStay DEF TextInv
<1> QED
  BY <1>1, <1>2, <1>3 DEF TextInv

\* So does one that moves on to the line behind the next, with or without a record.
LEMMA TextMoves ==
  ASSUME TextInv, SameStream, pc = "base64Lines", pc' \in {"idle", "base64Lines"}, outcome' = {},
         detected' = detected, closed' = closed, NEW k \in 0 .. Len(written),
         EndOf(k) <= Len(input), pos' = EndOf(k), delivered' = Kept(k)
  PROVE  TextInv'
<1>1. k \in 0 .. Len(written')
  BY LinesStay
<1>2. AfterLine(k)'
  <2>1. HasLines(k)' /\ pos' = EndOf(k)'
    BY LinesStay DEF HasLines
  <2> QED
    BY <2>1 DEF AfterLine
<1>3. /\ detected' \in {"auto", "base64Lines"} /\ ~closed'
      /\ ~(framing' = "auto" /\ detected' = "auto")
  BY LinesStay DEF TextInv
<1> QED
  BY <1>1, <1>2, <1>3 DEF TextInv

-----------------------------------------------------------------------------
(***************************************************************************)
(* The turns of readBase64Line.                                            *)
(***************************************************************************)
\* What each of them does to the rest of the state.
LEMMA TurnFails ==
  ASSUME NEW err, FailReading(err)
  PROVE  pc' = "idle" /\ outcome' = err /\ delivered' = delivered /\ detected' = detected
BY DEF FailReading, Fail

LEMMA TurnDelivers ==
  ASSUME NEW rec, Deliver(rec)
  PROVE  /\ pc' = "idle" /\ outcome' = {} /\ delivered' = Append(delivered, rec)
         /\ detected' = detected /\ closed' = closed
BY DEF Deliver

\* At the end of the stream there is no line.
LEMMA NoLine ==
  ASSUME ReaderOK, pos = Len(input)
  PROVE  Newlines = {} /\ LineEnd = pos /\ Line = << >>
<1>1. pos \in Nat /\ pos + 1 \in Nat /\ (pos + 1) .. Len(input) = {}
  BY DEF ReaderOK
<1>2. Newlines = {}
  BY <1>1 DEF Newlines
<1>3. LineEnd = pos
  BY <1>2 DEF LineEnd
<1>4. {i \in (pos + 1) .. LineEnd : input[i] \notin SpaceUnits} = {}
  BY <1>1, <1>3
<1>5. Line = << >>
  BY <1>4 DEF Line
<1> QED
  BY <1>2, <1>3, <1>5

\* The end of what is read: it is reported as the reader tells it.
LEMMA EndTurn ==
  ASSUME Textual, EncIsText, TypeOK, TextInv, SameStream, ReadBase64Line,
         NEW k \in 0 .. Len(written), HasLines(k) \/ AfterTorn(k), LastLine(k),
         Line = << >>, Newlines = {}
  PROVE  TextInv' /\ Sees
<1>1. pc = "base64Lines" /\ FailReading(TailError)
  BY DEF ReadBase64Line, BlankLine, MalformedLine, DecodedLine
<1>2. outcome = {} /\ pc' = "idle" /\ outcome' = TailError /\ delivered' = delivered /\ detected' = detected
      /\ ~(framing = "auto" /\ detected = "auto")
  BY <1>1, TurnFails DEF TextInv
<1>3. /\ outcome' # {} /\ outcome' # {"ErrRecordTooLarge"} /\ "ErrRecordTooLarge" \notin outcome'
      /\ "EOF" \in outcome' \/ ~Whole
  BY <1>2 DEF TailError, Whole
<1>4. TextInv'
  BY <1>2, <1>3, TextFails
<1>5. Left = << >>
  <2>1. EndOf(k) <= Len(input) /\ delivered \in Seq(Seq(Units)) /\ Kept(k) \in Seq(Seq(Units))
    BY KeptIs DEF HasLines, AfterTorn, TypeOK
  <2>2. Len(delivered) \in Nat /\ Len(delivered) >= Len(Kept(k))
    <3>1. CASE HasLines(k)
      BY <2>1, <3>1 DEF HasLines
    <3>2. CASE AfterTorn(k)
      <4>1. PICK g \in 1 .. Len(written[k + 1]) : delivered = Append(Kept(k), SubSeq(written[k + 1], 1, g))
        BY <3>2 DEF AfterTorn
      <4> DEFINE x == Kept(k)
                 y == SubSeq(written[k + 1], 1, g)
      <4>2. delivered = Append(x, y) /\ x \in Seq(Seq(Units))
        BY <2>1, <4>1
      <4> HIDE DEF x, y
      <4>3. Len(delivered) = Len(x) + 1 /\ Len(x) \in Nat
        BY <4>2
      <4> QED
        BY <4>3 DEF x
    <3> QED
      BY <3>1, <3>2
  <2> QED
    BY <2>1, <2>2, LeftIs, Zenon
<1>6. SeesError
  BY <1>2, <1>3, <1>5, Zenon DEF SeesError
<1> QED
  BY <1>4, <1>6 DEF Sees

\* A line, or what is there of it.
LEMMA LineTurn ==
  ASSUME Textual, EncIsText, FitsWord, TypeOK, TextInv, SameStream, ReadBase64Line,
         NEW k \in 0 .. Len(written), k # Len(written), HasLines(k), pos = EndOf(k)
  PROVE  TextInv' /\ Sees
<1> DEFINE j == k + 1
           rec == written[j]
           n == Seen(j)
           g == GroupCount(Line)
           L == Len(input)
           E == EndOf(j)
<1>1. /\ Len(written) \in Nat /\ L \in Nat /\ j \in 1 .. Len(written) /\ j \in 0 .. Len(written)
      /\ j - 1 = k /\ k \in Nat
  BY TextParts
<1>2. ReaderOK /\ pc = "base64Lines" /\ outcome = {} /\ closed = FALSE
      /\ ~(framing = "auto" /\ detected = "auto")
  <2>1. pc = "base64Lines"
    BY DEF ReadBase64Line, BlankLine, MalformedLine, DecodedLine
  <2>2. ReaderOK /\ closed \in BOOLEAN
    BY TypeParts
  <2> QED
    BY <2>1, <2>2 DEF TextInv
<1> HIDE DEF j
<1>3. pos = EndOf(j - 1)
  BY <1>1
<1>4. /\ n \in Nat /\ n <= Span(j)
      /\ Newlines = {} <=> E > L
      /\ LineEnd = IF E <= L THEN E ELSE L
      /\ Code = Line /\ Line \in Seq(Letters) /\ Len(Line) = n
      /\ \A q \in 1 .. n : Line[q] = Text(rec)[q]
  BY <1>1, <1>2, <1>3, LineRead, Zenon
<1>5. E \in Nat /\ rec \in Seq(Units) /\ Span(j) = Len(rec) * EncLen /\ Len(rec) \in Nat /\ Len(rec) <= MaxUnits
      /\ MaxUnits \in Nat /\ MaxUnits < RFC5531LastFragMask
  <2>1. E \in Nat /\ rec \in Seq(Units) /\ Len(rec) <= MaxUnits
    <3>1. written \in Seq(Seq(Units)) /\ \A i \in 1 .. Len(written) : Len(written[i]) <= MaxUnits
      BY Zenon DEF Textual, Stream
    <3>2. rec \in Seq(Units) /\ Len(rec) <= MaxUnits
      BY <1>1, <3>1
    <3> QED
      BY <1>1, <3>2, TextParts, Zenon
  <2> QED
    BY <2>1, RoundTripAssumption DEF Span, FitsWord
<1>6. n = IF E <= L THEN Span(j) ELSE L - EndOf(j - 1)
  BY DEF Seen
<1> HIDE DEF rec, n, L, E
<1>7. /\ g \in 0 .. Len(rec)
      /\ Decodable(Line) <=> n % EncLen = 0
      /\ DecodeString(Line) = SubSeq(rec, 1, g)
      /\ n = Span(j) => n % EncLen = 0 /\ g = Len(rec)
      /\ n % EncLen = 0 /\ n > 0 => g > 0
  <2>1. Len(Line) <= Len(rec) * EncLen /\ \A q \in 1 .. Len(Line) : Line[q] = Text(rec)[q]
    BY <1>4, <1>5
  <2> QED
    BY <1>4, <1>5, <2>1, Decodes, Zenon
<1> HIDE DEF g
<1>8. /\ Kept(k) \in Seq(Seq(Units)) /\ delivered = Kept(k) /\ EndOf(k) <= L /\ EndOf(k) = pos
      /\ Kept(j) = IF rec = << >> THEN Kept(k) ELSE Append(Kept(k), rec)
  BY <1>1, <1>3, KeptIs, Zenon DEF HasLines, L, rec
<1>9. Line = << >> <=> n = 0
  BY <1>4
<1>10. rec = << >> <=> Len(rec) = 0
  BY <1>5
<1>11. ASSUME E > L
       PROVE  LastLine(k) /\ ~Whole /\ Left = << >> /\ LineEnd = L /\ ~(E <= L)
  <2>1. LastLine(k)
    BY <1>11 DEF LastLine, E, L, j
  <2>2. ~Whole
    BY <1>11, LineCutOff DEF E, L, j
  <2>3. Left = << >>
    <3>1. Len(delivered) \in Nat /\ Len(delivered) >= Len(Kept(k))
      BY <1>8
    <3>2. EndOf(k) <= Len(input)
      BY <1>8 DEF L
    <3> QED
      BY <2>1, <3>1, <3>2, LeftIs, Zenon
  <2>4. ~(E <= L)
    BY <1>1, <1>5, <1>11
  <2> QED
    BY <1>4, <2>1, <2>2, <2>3, <2>4
<1>12. ASSUME E <= L, rec # << >>
       PROVE  Left # << >> /\ Head(Left) = rec
  <2>1. EndOf(k) <= Len(input) /\ EndOf(k + 1) <= Len(input) /\ written[k + 1] # << >> /\ Len(delivered) = Len(Kept(k))
    BY <1>8, <1>12 DEF E, L, rec, j
  <2> QED
    BY <2>1, LeftIs, Zenon DEF rec, j
<1>13. E <= L \/ E > L
  BY <1>1, <1>5
<1>14. CASE BlankLine
  <2>1. Line = << >> /\ Consume(LineEnd - pos) /\ n = 0
    BY <1>9, <1>14 DEF BlankLine
  <2>2. CASE E > L
    BY <1>4, <1>11, <2>1, <2>2, EndTurn
  <2>3. CASE E <= L
    <3>1. Newlines # {} /\ LineEnd = E
      BY <1>1, <1>4, <1>5, <2>3
    <3>2. UNCHANGED <<detected, closed, pc, outcome, delivered>>
      BY <1>14, <3>1 DEF BlankLine
    <3>3. rec = << >>
      <4>1. Span(j) = 0
        BY <1>6, <2>1, <2>3
      <4>2. g = 0 /\ g = Len(rec)
        <5>1. g = Len(rec) /\ n % EncLen = 0
          BY <1>7, <2>1, <4>1
        <5>2. EncLen \in Nat /\ EncLen > 0
          BY EncSize
        <5>3. Len(rec) = 0
          <6> SUFFICES ASSUME Len(rec) # 0 PROVE FALSE
            OBVIOUS
          <6>1. 0 * EncLen < Len(rec) * EncLen
            <7>1. Len(rec) >= 1
              BY <1>5
            <7>2. 1 * EncLen <= Len(rec) * EncLen
              BY <1>5, <5>2, <7>1, Multiples
            <7>3. 1 * EncLen = EncLen /\ 0 * EncLen = 0 /\ Len(rec) * EncLen \in Nat
              BY <1>5, <5>2
            <7> QED
              BY <5>2, <7>2, <7>3
          <6>2. 0 * EncLen = 0
            BY <5>2
          <6> QED
            BY <1>5, <4>1, <6>1, <6>2
        <5> QED
          BY <5>1, <5>3
      <4> QED
        BY <1>10, <4>2
    <3>4. pos' = E /\ Kept(j) = delivered
      <4>1. pos \in Nat /\ pos' = pos + (E - pos)
        BY <1>2, <2>1, <3>1 DEF Consume, ReaderOK
      <4> QED
        BY <1>5, <1>8, <3>3, <4>1
    <3>5. TextInv'
      <4>1. EndOf(j) <= Len(input) /\ pos' = EndOf(j) /\ delivered' = Kept(j) /\ outcome' = {} /\ pc' = "base64Lines"
            /\ detected' = detected /\ closed' = closed
        BY <1>2, <2>3, <3>2, <3>4 DEF E, L
      <4> QED
        BY <1>1, <1>2, <4>1, TextMoves
    <3> QED
      BY <3>2, <3>5 DEF Sees, Quiet
  <2> QED
    BY <1>13, <2>2, <2>3
<1>15. CASE MalformedLine
  <2>1. ~Decodable(Line) /\ FailReading({"ErrInvalidFraming"})
    BY <1>4, <1>15 DEF MalformedLine
  <2>2. E > L
    BY <1>6, <1>7, <1>13, <2>1
  <2>3. /\ pc' = "idle" /\ outcome' = {"ErrInvalidFraming"} /\ delivered' = delivered /\ detected' = detected
        /\ outcome' # {} /\ outcome' # {"ErrRecordTooLarge"} /\ "ErrRecordTooLarge" \notin outcome'
    BY <2>1, TurnFails
  <2>4. TextInv'
    BY <1>2, <1>11, <2>2, <2>3, TextFails
  <2>5. SeesError
    BY <1>2, <1>11, <2>2, <2>3, Zenon DEF SeesError
  <2> QED
    BY <2>4, <2>5 DEF Sees
<1>16. CASE DecodedLine
  <2>1. /\ Line # << >> /\ Decodable(Line) /\ Consume(LineEnd - pos)
        /\ IF TooLarge(g % WordSpan) THEN FailReading({"ErrRecordTooLarge"}) ELSE Deliver(SubSeq(rec, 1, g))
    BY <1>4, <1>7, <1>16 DEF DecodedLine, g
  <2>2. g \in Nat /\ g <= Len(rec) /\ g > 0 /\ g % WordSpan = g
    <3>1. n > 0 /\ n % EncLen = 0
      BY <1>4, <1>7, <1>9, <2>1
    <3>2. g \in Nat /\ g <= Len(rec) /\ g > 0
      BY <1>5, <1>7, <3>1
    <3>3. g < WordSpan /\ WordSpan \in Nat /\ WordSpan > 0
      BY <1>5, <3>2, WordWidth
    <3> QED
      BY <3>2, <3>3, SmallRemainder
  <2>3. rec # << >> /\ Len(rec) > 0
    BY <1>5, <1>10, <2>2
  <2>4. E <= L => g = Len(rec) /\ SubSeq(rec, 1, g) = rec
    <3> SUFFICES ASSUME E <= L PROVE g = Len(rec) /\ SubSeq(rec, 1, g) = rec
      OBVIOUS
    <3>1. g = Len(rec)
      BY <1>6, <1>7
    <3> DEFINE s == SubSeq(rec, 1, g)
    <3>2. s \in Seq(Units) /\ Len(s) = g /\ \A q \in 1 .. g : s[q] = rec[q]
      <4>1. g \in 0 .. Len(rec)
        BY <1>7
      <4> QED
        BY <1>5, <4>1, FirstElements
    <3> HIDE DEF s
    <3>3. s = rec
      BY <1>5, <3>1, <3>2, SeqEqual
    <3> QED
      BY <3>1, <3>3 DEF s
  <2>5. CASE TooLarge(g)
    <3>1. FailReading({"ErrRecordTooLarge"}) /\ g > maxRecordSize
      BY <2>1, <2>2, <2>5 DEF TooLarge
    <3>2. /\ pc' = "idle" /\ outcome' = {"ErrRecordTooLarge"} /\ delivered' = delivered /\ detected' = detected
          /\ outcome' # {}
      BY <3>1, TurnFails
    <3>3. TextInv'
      BY <1>2, <3>2, TextFails
    <3>4. IF Left = << >> THEN ~Whole ELSE Len(Head(Left)) > maxRecordSize
      BY <1>11, <1>12, <1>13, <2>3, <2>4, <3>1
    <3>5. SeesError
      BY <1>2, <3>2, <3>4, Zenon DEF SeesError
    <3> QED
      BY <3>3, <3>5 DEF Sees
  <2>6. CASE ~TooLarge(g)
    <3>1. /\ pc' = "idle" /\ outcome' = {} /\ delivered' = Append(delivered, SubSeq(rec, 1, g))
          /\ detected' = detected /\ closed' = closed /\ g <= maxRecordSize
      <4>1. Deliver(SubSeq(rec, 1, g))
        BY <2>1, <2>2, <2>6
      <4>2. maxRecordSize \in Nat
        BY WordWidth DEF TypeOK
      <4>3. g <= maxRecordSize
        BY <2>2, <2>6, <4>2 DEF TooLarge
      <4> QED
        BY <4>1, <4>3, TurnDelivers, Zenon
    <3>2. pos \in Nat /\ pos' = pos + (LineEnd - pos)
      BY <1>2, <2>1 DEF Consume, ReaderOK
    <3>3. CASE E <= L
      <4>1. pos' = E /\ delivered' = Kept(j)
        BY <1>4, <1>5, <1>8, <2>3, <2>4, <3>1, <3>2, <3>3
      <4>2. TextInv'
        <5>1. EndOf(j) <= Len(input) /\ pos' = EndOf(j) /\ pc' \in {"idle", "base64Lines"}
          BY <3>1, <3>3, <4>1 DEF E, L
        <5> QED
          BY <1>1, <1>2, <3>1, <4>1, <5>1, TextMoves
      <4>3. SeesRecord
        BY <1>2, <1>12, <2>3, <2>4, <3>1, <3>3 DEF SeesRecord
      <4> QED
        BY <4>2, <4>3 DEF Sees
    <3>4. CASE E > L
      <4>1. pos' = L /\ LastLine(k) /\ ~Whole /\ Left = << >>
        BY <1>1, <1>11, <3>2, <3>4
      <4>2. g \in 1 .. Len(rec) /\ delivered' = Append(Kept(k), SubSeq(rec, 1, g))
        BY <1>8, <2>2, <3>1
      <4>3. AfterTorn(k)'
        <5>1. k # Len(written') /\ EndOf(k)' <= Len(input') /\ LastLine(k)'
          BY <1>8, <4>1, LinesStay DEF L
        <5>2. pos' = Len(input')
          BY <4>1, LinesStay DEF L
        <5>3. g \in 1 .. Len(written'[k + 1]) /\ delivered' = Append(Kept(k)', SubSeq(written'[k + 1], 1, g))
          BY <4>2, LinesStay DEF rec, j
        <5> QED
          BY <5>1, <5>2, <5>3, Zenon DEF AfterTorn
      <4>4. TextInv'
        <5>1. k \in 0 .. Len(written')
          BY LinesStay
        <5>2. detected' \in {"auto", "base64Lines"} /\ ~closed' /\ ~(framing' = "auto" /\ detected' = "auto")
              /\ pc' \in {"idle", "base64Lines"}
          BY <1>2, <3>1, LinesStay DEF TextInv
        <5> QED
          BY <3>1, <4>3, <5>1, <5>2 DEF TextInv
      <4>5. SeesTorn
        <5> DEFINE x == SubSeq(rec, 1, g)
                   d == Kept(k)
        <5>1. delivered = d /\ d \in Seq(Seq(Units)) /\ delivered' = Append(d, x) /\ x \in Seq(Units)
          <6>1. g \in 0 .. Len(rec)
            BY <1>7
          <6>2. x \in Seq(Units)
            BY <1>5, <6>1, FirstElements
          <6> QED
            BY <1>8, <4>2, <6>2
        <5> HIDE DEF x, d
        <5>2. Len(delivered') = Len(delivered) + 1
          BY <5>1
        <5>3. SubSeq(delivered', 1, Len(delivered)) = delivered
          <6> DEFINE a == Append(d, x)
                     s == SubSeq(a, 1, Len(d))
          <6>1. a \in Seq(Seq(Units)) /\ Len(d) \in 0 .. Len(a) /\ \A q \in 1 .. Len(d) : a[q] = d[q]
            BY <5>1
          <6> HIDE DEF a
          <6>2. s \in Seq(Seq(Units)) /\ Len(s) = Len(d) /\ \A q \in 1 .. Len(d) : s[q] = a[q]
            BY <6>1, FirstElements
          <6> HIDE DEF s
          <6>3. \A q \in 1 .. Len(s) : s[q] = d[q]
            BY <6>1, <6>2, Zenon
          <6>4. s = d
            BY <5>1, <6>2, <6>3, SeqEqual
          <6> QED
            BY <5>1, <6>4 DEF s, a
        <5> QED
          BY <1>2, <3>1, <4>1, <5>2, <5>3 DEF SeesTorn
      <4> QED
        BY <4>4, <4>5 DEF Sees
    <3> QED
      BY <1>13, <3>3, <3>4
  <2> QED
    BY <2>5, <2>6
<1> QED
  BY <1>14, <1>15, <1>16 DEF ReadBase64Line

\* Every turn, wherever the reader stands.
LEMMA TextTurn ==
  ASSUME Textual, EncIsText, FitsWord, TypeOK, TextInv, SameStream, ReadBase64Line
  PROVE  TextInv' /\ Sees
<1>1. PICK k \in 0 .. Len(written) : AfterLine(k) \/ AfterTorn(k)
  BY DEF TextInv
<1>2. ReaderOK /\ outcome = {} /\ Len(input) \in Nat /\ pos \in Nat /\ pos <= Len(input)
  <2>1. pc = "base64Lines"
    BY DEF ReadBase64Line, BlankLine, MalformedLine, DecodedLine
  <2>2. ReaderOK
    BY TypeParts
  <2> QED
    BY <2>1, <2>2 DEF TextInv, ReaderOK
<1>3. CASE AfterTorn(k)
  <2>1. pos = Len(input) /\ LastLine(k)
    BY <1>2, <1>3 DEF AfterTorn
  <2> QED
    BY <1>2, <1>3, <2>1, NoLine, EndTurn
<1>4. CASE AfterLine(k)
  <2>1. HasLines(k) /\ pos = EndOf(k)
    BY <1>2, <1>4 DEF AfterLine
  <2>2. CASE k # Len(written)
    BY <2>1, <2>2, LineTurn
  <2>3. CASE k = Len(written)
    <3>1. Len(input) <= EndOf(k)
      BY <2>3, TextParts
    <3>2. pos = Len(input)
      BY <1>2, <2>1, <3>1
    <3>3. LastLine(k)
      BY <2>3 DEF LastLine
    <3> QED
      BY <1>2, <2>1, <3>2, <3>3, NoLine, EndTurn
  <2> QED
    BY <2>2, <2>3
<1> QED
  BY <1>1, <1>3, <1>4

-----------------------------------------------------------------------------
(***************************************************************************)
(* The calls, and the reading of lines as a whole.                         *)
(***************************************************************************)
\* A line is one unit long only if it has no letters; the second of some is one of them.
LEMMA OneUnit ==
  ASSUME NEW e \in Nat, NEW s \in Nat, NEW n \in Nat, n <= 1, ~(e > n), e = 0 + s + 1
  PROVE  e <= n /\ s = 0 /\ e = 1 /\ n = 1
OBVIOUS

LEMMA SecondLine ==
  ASSUME NEW n \in Nat, 1 \in 1 .. n, 1 # n
  PROVE  2 \in 1 .. n /\ 2 - 1 = 1 /\ 1 + 1 = 2
OBVIOUS

\* A stream too short to detect its framing holds no record.
LEMMA TooShort ==
  ASSUME Textual, EncIsText, Len(input) <= 1
  PROVE  \E k \in 0 .. Len(written) : EndOf(k) <= Len(input) /\ Kept(k) = << >> /\ LastLine(k)
<1>1. /\ Len(written) \in Nat /\ Len(input) \in Nat /\ EndOf(0) = 0
      /\ \A k \in 0 .. Len(written) : EndOf(k) \in Nat
  BY TextParts, Zenon DEF EndOf
<1>2. Kept(0) = << >>
  BY KeptIs
<1>3. CASE Len(written) = 0 \/ EndOf(1) > Len(input)
  <2>1. LastLine(0) /\ 0 \in 0 .. Len(written)
    BY <1>1, <1>3 DEF LastLine
  <2> QED
    BY <1>1, <1>2, <2>1
<1>4. CASE ~(Len(written) = 0 \/ EndOf(1) > Len(input))
  <2>1. 1 \in 1 .. Len(written) /\ 1 \in 0 .. Len(written) /\ 1 - 1 = 0
    BY <1>1, <1>4
  <2>2. EndOf(1) = 0 + Span(1) + 1 /\ Span(1) \in Nat /\ written[1] \in Seq(Units)
    BY <1>1, <2>1, LineAt, Zenon
  <2>3. EndOf(1) <= Len(input) /\ Span(1) = 0 /\ EndOf(1) = 1 /\ Len(input) = 1
    <3>1. EndOf(1) \in Nat /\ Len(input) \in Nat /\ ~(EndOf(1) > Len(input)) /\ Len(input) <= 1
      BY <1>1, <1>4, <2>1
    <3> QED
      BY <2>2, <3>1, OneUnit, Zenon
  <2>4. written[1] = << >>
    <3> DEFINE w == written[1]
    <3>1. EncLen \in Nat /\ EncLen > 0 /\ w \in Seq(Units) /\ Len(w) * EncLen = 0
      BY <2>2, <2>3, EncSize DEF Span
    <3> HIDE DEF w
    <3>2. Len(w) \in Nat
      BY <3>1
    <3>3. CASE Len(w) >= 1
      <4>1. 1 * EncLen <= Len(w) * EncLen
        BY <3>1, <3>2, <3>3, Multiples
      <4>2. 1 * EncLen = EncLen
        BY <3>1
      <4> QED
        BY <3>1, <4>1, <4>2
    <3>4. CASE ~(Len(w) >= 1)
      <4>1. w = << >>
        BY <3>1, <3>2, <3>4
      <4> QED
        BY <4>1 DEF w
    <3> QED
      BY <3>3, <3>4
  <2>5. Kept(1) = << >>
    BY <1>2, <2>1, <2>4, KeptIs, Zenon
  <2>6. LastLine(1)
    <3> SUFFICES ASSUME 1 # Len(written) PROVE EndOf(1 + 1) > Len(input)
      BY DEF LastLine
    <3> DEFINE j == 2
    <3>1. j \in 1 .. Len(written) /\ j - 1 = 1 /\ 1 + 1 = j
      BY <1>1, <2>1, SecondLine, Zenon
    <3> HIDE DEF j
    <3>2. EndOf(j) = EndOf(1) + Span(j) + 1 /\ Span(j) \in Nat
      BY <3>1, LineAt, Zenon
    <3>3. EndOf(j) > Len(input)
      BY <2>3, <3>2
    <3> QED
      BY <3>1, <3>3
  <2> QED
    BY <2>1, <2>3, <2>5, <2>6
<1> QED
  BY <1>3, <1>4

\* The start of a call.
LEMMA TextCall ==
  ASSUME Textual, EncIsText, TypeOK, TextInv, SameStream, CallerNext
  PROVE  TextInv' /\ Sees
<1>1. outcome = {} /\ ~closed
  BY DEF CallerNext, TextInv
<1>2. Len(input) \in Nat /\ pos \in Nat /\ pos <= Len(input)
  BY DEF TypeOK
<1>3. CASE NextDetectFails
  <2>1. /\ pc' = "idle" /\ outcome' = DetectError /\ DetectError # {} /\ delivered' = delivered
        /\ detected' = detected /\ pos' = pos /\ pos = 0 /\ delivered = << >>
    BY <1>3 DEF NextDetectFails, Fail, Detecting, TextInv
  <2>2. Len(input) <= 1
    <3>1. ~(Len(input) - pos >= HeaderLen)
      BY <2>1 DEF DetectError
    <3> QED
      BY <1>2, <2>1, <3>1 DEF HeaderLen
  <2>3. PICK k \in 0 .. Len(written) : EndOf(k) <= Len(input) /\ Kept(k) = << >> /\ LastLine(k)
    BY <2>2, TooShort
  <2>4. HasLines(k)
    BY <2>1, <2>3 DEF HasLines
  <2>5. TextInv'
    BY <2>1, <2>3, <2>4, TextFails
  <2>6. Left = << >>
    <3>1. Len(delivered) \in Nat /\ Len(delivered) >= Len(Kept(k))
      BY <2>1, <2>3
    <3> QED
      BY <2>3, <3>1, LeftIs, Zenon
  <2>7. "ErrRecordTooLarge" \notin DetectError /\ ("EOF" \in DetectError \/ tail # "eof")
    BY <2>1 DEF DetectError, TailError
  <2>8. SeesError
    BY <1>1, <2>1, <2>6, <2>7 DEF SeesError, Whole
  <2> QED
    BY <2>5, <2>8 DEF Sees
<1>4. CASE NextUnknownFraming
  <2>1. framing \in {"base64Lines", "auto"}
    BY DEF Textual, Stream
  <2> QED
    BY <1>4, <2>1 DEF NextUnknownFraming
<1>5. CASE NextDispatches
  <2>1. /\ pos' = pos /\ closed' = closed /\ outcome' = outcome /\ delivered' = delivered
        /\ pc = "idle" /\ detected' = IF Detecting THEN DetectFraming ELSE detected
        /\ pc' = EffectiveFraming
        /\ Detecting => DetectError = {}
    BY <1>5 DEF NextDispatches
  <2>2. framing \in {"base64Lines", "auto"} /\ detected \in {"auto", "base64Lines"}
    BY DEF Textual, Stream, TextInv
  <2>3. Detecting => DetectFraming = "base64Lines"
    <3> SUFFICES ASSUME Detecting PROVE DetectFraming = "base64Lines"
      OBVIOUS
    <3>1. DetectError = {}
      BY <2>1
    <3>4. Len(input) - pos >= HeaderLen
      BY <3>1 DEF DetectError, TailError
    <3>2. \A i \in (pos + 1) .. (pos + HeaderLen) : i \in 1 .. Len(input)
      BY <1>2, <3>4 DEF HeaderLen
    <3>3. \A q \in 1 .. Len(input) : input[q] \in TextUnits
      BY TextParts, Zenon
    <3> QED
      BY <3>2, <3>3, Zenon DEF DetectFraming
  <2>4. pc' = "base64Lines" /\ detected' \in {"auto", "base64Lines"} /\ ~(framing = "auto" /\ detected' = "auto")
    <3>1. CASE Detecting
      BY <2>1, <2>3, <3>1 DEF EffectiveFraming, Detecting
    <3>2. CASE ~Detecting
      BY <2>1, <2>2, <3>2 DEF EffectiveFraming, Detecting
    <3> QED
      BY <3>1, <3>2
  <2>5. PICK k \in 0 .. Len(written) : AfterLine(k) \/ AfterTorn(k)
    BY DEF TextInv
  <2>6. AfterLine(k)' \/ AfterTorn(k)'
    BY <2>1, <2>5, LinesStay DEF AfterLine, AfterTorn, HasLines
  <2>7. k \in 0 .. Len(written') /\ framing' = framing
    BY LinesStay
  <2>8. TextInv'
    BY <1>1, <2>1, <2>4, <2>6, <2>7 DEF TextInv
  <2> QED
    BY <2>1, <2>8 DEF Sees, Quiet
<1>6. CASE CallDrain
  <2>1. /\ pos' = pos /\ closed' = closed /\ outcome' = outcome /\ delivered' = delivered
        /\ pc' = pc /\ detected' = detected
    BY <1>6 DEF CallDrain
  <2>2. PICK k \in 0 .. Len(written) : AfterLine(k) \/ AfterTorn(k)
    BY DEF TextInv
  <2>3. AfterLine(k)' \/ AfterTorn(k)'
    BY <2>1, <2>2, LinesStay DEF AfterLine, AfterTorn, HasLines
  <2>4. k \in 0 .. Len(written') /\ framing' = framing
    BY LinesStay
  <2>5. TextInv'
    BY <2>1, <2>3, <2>4 DEF TextInv
  <2> QED
    BY <2>1, <2>5 DEF Sees, Quiet
<1>7. CASE NextClosed
  BY <1>1, <1>7 DEF NextClosed
<1> QED
  BY <1>3, <1>4, <1>5, <1>6, <1>7 DEF CallerNext, CallNext

\* The inductive invariant for base64, as RTInv is for the binary writers.
LinesInv ==
  /\ Stream
  /\ writer.framing = "base64Lines" => IInv /\ TextInv

\* At first nothing is read.
LEMMA InitLines ==
  ASSUME EncIsText, InitCut
  PROVE  LinesInv
<1>1. Stream
  BY InitStream
<1>2. ASSUME writer.framing = "base64Lines"
      PROVE  IInv /\ TextInv
  <2>1. Textual
    BY <1>1, <1>2 DEF Textual
  <2>2. input \in Seq(Units) /\ Len(input) \in Nat /\ Len(written) \in Nat
    BY <2>1, TextParts, Zenon
  <2>3. tail \in {"eof", "ioerr"} /\ maxRecordSize \in 1 .. (WordSpan - 1) /\ NewStreamParser
    BY RoundTripAssumption DEF InitCut, Init0
  <2>4. framing \in Configurations
    BY <2>1 DEF Textual, Stream, Configurations, Framings
  <2>5. IInv
    BY <2>2, <2>3, <2>4, InitIInv DEF Init
  <2>6. /\ delivered = << >> /\ outcome = {} /\ pc = "idle" /\ pos = 0 /\ closed = FALSE /\ detected = "auto"
    BY <2>3 DEF NewStreamParser
  <2>7. Kept(0) = << >> /\ EndOf(0) = 0 /\ 0 \in 0 .. Len(written)
    BY <2>1, <2>2, KeptIs DEF EndOf
  <2>8. AfterLine(0)
    BY <2>2, <2>6, <2>7 DEF AfterLine, HasLines
  <2> QED
    BY <2>5, <2>6, <2>7, <2>8 DEF TextInv
<1> QED
  BY <1>1, <1>2 DEF LinesInv

\* Every step of the caller and of the parser keeps it, and shows the caller of a
\* stream of lines what a source may show.
LEMMA LinesStep ==
  ASSUME FitsWord, EncIsText, LinesInv, [RTNext]_rtVars
  PROVE  LinesInv' /\ (writer.framing = "base64Lines" => Sees)
<1>1. SameStream
  BY StreamUnchanged
<1>2. Stream' /\ writer' = writer
  BY <1>1 DEF LinesInv, Stream, SameStream, source
<1>3. ASSUME writer.framing = "base64Lines"
      PROVE  IInv' /\ TextInv' /\ Sees
  <2>1. Textual /\ IInv /\ TextInv /\ TypeOK
    BY <1>3 DEF LinesInv, Textual, IInv
  <2>2. CASE CallerNext
    <3>1. CallNext \/ CallDrain
      BY <2>2 DEF CallerNext
    <3> QED
      BY <1>1, <2>1, <2>2, <3>1, CallKeeps, TextCall
  <2>3. CASE ParserReads
    <3>1. Read
      BY <2>3 DEF ParserReads
    <3>2. ReadBase64Line
      <4>1. pc \in {"idle", "base64Lines"}
        BY <2>1 DEF TextInv
      <4> QED
        BY <3>1, <4>1 DEF Read, ReadRecordMarking, ReadLengthPrefixed, FragmentHeaderFails, EmptyLastFragment,
                          FragmentTooLarge, FragmentBodyFails, ReadFragment, DataFragment, PrefixFails,
                          PrefixTooLarge, PrefixedDataFails, PrefixedRecord
    <3> QED
      BY <1>1, <2>1, <3>1, <3>2, ReadKeeps, TextTurn
  <2>4. CASE UNCHANGED rtVars
    <3>1. UNCHANGED vars
      BY <2>4 DEF rtVars
    <3>2. IInv'
      BY <2>1, <3>1, NextIInv
    <3>3. /\ pos' = pos /\ closed' = closed /\ outcome' = outcome /\ delivered' = delivered
          /\ pc' = pc /\ detected' = detected
      BY <3>1 DEF vars
    <3>4. PICK k \in 0 .. Len(written) : AfterLine(k) \/ AfterTorn(k)
      BY <2>1 DEF TextInv
    <3>5. AfterLine(k)' \/ AfterTorn(k)'
      BY <1>1, <3>3, <3>4, LinesStay DEF AfterLine, AfterTorn, HasLines
    <3>6. k \in 0 .. Len(written') /\ framing' = framing
      BY <1>1, LinesStay
    <3>7. TextInv'
      BY <2>1, <3>3, <3>5, <3>6 DEF TextInv
    <3> QED
      BY <3>2, <3>3, <3>7 DEF Sees, Quiet
  <2> QED
    BY <2>2, <2>3, <2>4 DEF RTNext, CallerDone
<1> QED
  BY <1>2, <1>3 DEF LinesInv

-----------------------------------------------------------------------------
(***************************************************************************)
(* What the caller of a stream of lines is given in all.                   *)
(***************************************************************************)
\* The beginning of a sequence is a prefix of it.
LEMMA BeginningIsPrefix ==
  ASSUME NEW T, NEW w \in Seq(T), NEW g \in 0 .. Len(w)
  PROVE  IsPrefix(SubSeq(w, 1, g), w)
<1> DEFINE s == SubSeq(w, 1, g)
<1>1. s \in Seq(T) /\ Len(s) = g
  BY FirstElements
<1>2. Len(w) \in Nat /\ g <= Len(w)
  OBVIOUS
<1> HIDE DEF s
<1>3. SubSeq(s, 1, Len(s)) = s
  <2> DEFINE t == SubSeq(s, 1, Len(s))
  <2>1. Len(s) \in 0 .. Len(s)
    BY <1>1
  <2>2. t \in Seq(T) /\ Len(t) = Len(s) /\ \A i \in 1 .. Len(s) : t[i] = s[i]
    BY <1>1, <2>1, FirstElements
  <2> HIDE DEF t
  <2>3. t = s
    BY <1>1, <2>2, SeqEqual
  <2> QED
    BY <2>3 DEF t
<1>4. SubSeq(s, 1, Len(s)) = SubSeq(w, 1, Len(s))
  BY <1>1, <1>3, Zenon DEF s
<1>5. Len(s) <= Len(w)
  BY <1>1, <1>2
<1> QED
  BY <1>4, <1>5, Zenon DEF IsPrefix, s

\* Whatever is cut off, only the last line can come back shorter.
LEMMA TextDelivered ==
  ASSUME Textual, EncIsText, TypeOK, TextInv
  PROVE  OnlyLastLineTorn
<1> DEFINE n == Len(written)
           e == Kept(n)
<1>1. PICK K \in 0 .. n : CompleteLines = Len(Kept(K)) /\ EndOf(K) <= Len(input)
                          /\ \A k \in 0 .. n : EndOf(k) <= Len(input) => k <= K /\ (LastLine(k) => k = K)
  BY WholeLines, Zenon
<1>2. n \in Nat /\ n \in 0 .. n /\ Expected = e /\ e \in Seq(Seq(Units)) /\ Len(e) \in Nat
  <2>1. n \in Nat /\ Expected = e /\ n \in 0 .. n
    BY KeptIs
  <2>2. e \in Seq(Seq(Units))
    BY <2>1, KeptIs, Zenon
  <2> QED
    BY <2>1, <2>2
<1>3. ASSUME NEW k \in 0 .. n
      PROVE  /\ Kept(k) \in Seq(Seq(Units)) /\ Len(Kept(k)) \in Nat /\ Len(Kept(k)) <= Len(e)
             /\ \A q \in 1 .. Len(Kept(k)) : e[q] = Kept(k)[q]
  <2>1. k <= n /\ n \in 0 .. n
    BY <1>2
  <2> QED
    BY <2>1, KeptFirst, KeptIs, Zenon
<1>4. PICK k \in 0 .. n : AfterLine(k) \/ AfterTorn(k)
  BY DEF TextInv
<1>5. CASE AfterLine(k)
  <2>1. delivered = Kept(k) /\ EndOf(k) <= Len(input)
    BY <1>5 DEF AfterLine, HasLines
  <2>2. outcome # {} /\ outcome # {"ErrRecordTooLarge"} => Len(delivered) = CompleteLines
    BY <1>1, <1>5, <2>1, Zenon DEF AfterLine
  <2>3. Len(delivered) \in Nat /\ Len(delivered) <= Len(e)
        /\ \A q \in 1 .. Len(delivered) : delivered[q] = e[q]
    BY <1>3, <2>1, Zenon
  <2>4. \A i \in 1 .. Len(delivered) :
          IF i < Len(delivered) \/ lost = 0 THEN delivered[i] = e[i] ELSE IsPrefix(delivered[i], e[i])
    <3> TAKE i \in 1 .. Len(delivered)
    <3> DEFINE r == delivered[i]
    <3>1. r = e[i] /\ r \in Seq(Units)
      BY <2>3 DEF TypeOK
    <3> HIDE DEF r
    <3>2. Len(r) \in 0 .. Len(r) /\ SubSeq(r, 1, Len(r)) = r
      BY <3>1
    <3>3. IsPrefix(r, r)
      BY <3>1, <3>2, BeginningIsPrefix
    <3>4. IsPrefix(delivered[i], e[i]) /\ delivered[i] = e[i]
      BY <3>1, <3>3, Zenon DEF r
    <3> QED
      BY <3>4, Zenon
  <2>5. outcome # {} /\ outcome # {"ErrRecordTooLarge"} => Len(delivered) >= CompleteLines
    BY <2>2, <2>3
  <2> QED
    BY <1>2, <2>3, <2>4, <2>5, Zenon DEF OnlyLastLineTorn
<1>6. CASE AfterTorn(k)
  <2> DEFINE j == k + 1
             w == written[j]
             m == Len(Kept(k))
  <2>1. k # n /\ EndOf(k) <= Len(input) /\ LastLine(k)
    BY <1>6 DEF AfterTorn
  <2>2. PICK g \in 1 .. Len(w) : delivered = Append(Kept(k), SubSeq(w, 1, g))
    BY <1>6 DEF AfterTorn
  <2>3. j \in 1 .. n /\ j \in 0 .. n /\ j - 1 = k
    BY <1>2, <2>1
  <2>4. w \in Seq(Units)
    BY <2>3 DEF Textual, Stream
  <2>5. Kept(j) = Append(Kept(k), w)
    <3>1. w # << >>
      BY <2>2, <2>4
    <3> QED
      BY <2>3, <3>1, KeptIs, Zenon
  <2>6. Kept(k) \in Seq(Seq(Units)) /\ m \in Nat /\ CompleteLines = m
    BY <1>1, <1>3, <2>1, Zenon
  <2>7. lost # 0
    <3>1. EndOf(k + 1) > Len(input)
      BY <2>1 DEF LastLine
    <3> QED
      BY <2>1, <3>1, LineCutOff
  <2> HIDE DEF j, w
  <2> DEFINE t == SubSeq(w, 1, g)
             kk == Kept(k)
  <2>8. t \in Seq(Units) /\ IsPrefix(t, w)
    <3>1. g \in 0 .. Len(w)
      BY <2>4
    <3> QED
      BY <2>4, <3>1, FirstElements, BeginningIsPrefix
  <2>9. delivered = Append(kk, t) /\ Kept(j) = Append(kk, w) /\ kk \in Seq(Seq(Units)) /\ m = Len(kk)
    BY <2>2, <2>5, <2>6
  <2> HIDE DEF t, kk, m
  <2>10. /\ Len(delivered) = m + 1 /\ delivered[m + 1] = t /\ \A q \in 1 .. m : delivered[q] = kk[q]
         /\ Len(Kept(j)) = m + 1 /\ Kept(j)[m + 1] = w /\ \A q \in 1 .. m : Kept(j)[q] = kk[q]
    <3>1. Len(Append(kk, t)) = m + 1 /\ Append(kk, t)[m + 1] = t /\ \A q \in 1 .. m : Append(kk, t)[q] = kk[q]
      BY <2>8, <2>9
    <3>2. Len(Append(kk, w)) = m + 1 /\ Append(kk, w)[m + 1] = w /\ \A q \in 1 .. m : Append(kk, w)[q] = kk[q]
      BY <2>4, <2>9
    <3> QED
      BY <2>9, <3>1, <3>2, Zenon
  <2>11. m + 1 <= Len(e) /\ \A q \in 1 .. (m + 1) : e[q] = Kept(j)[q]
    BY <1>3, <2>3, <2>10, Zenon
  <2>12. \A i \in 1 .. Len(delivered) :
           IF i < Len(delivered) \/ lost = 0 THEN delivered[i] = e[i] ELSE IsPrefix(delivered[i], e[i])
    <3> TAKE i \in 1 .. Len(delivered)
    <3>1. CASE i < Len(delivered)
      <4>1. i \in 1 .. m /\ i \in 1 .. (m + 1)
        BY <2>6, <2>10, <3>1
      <4>2. delivered[i] = e[i]
        BY <2>10, <2>11, <4>1, Zenon
      <4> QED
        BY <3>1, <4>2, Zenon
    <3>2. CASE ~(i < Len(delivered))
      <4>1. i = m + 1 /\ m + 1 \in 1 .. (m + 1)
        BY <2>6, <2>10, <3>2
      <4>2. delivered[i] = t /\ e[i] = w
        BY <2>10, <2>11, <4>1, Zenon
      <4> QED
        BY <2>7, <2>8, <3>2, <4>2, Zenon
    <3> QED
      BY <3>1, <3>2
  <2>13. Len(delivered) <= Len(e) /\ Len(delivered) >= CompleteLines
    BY <2>6, <2>10, <2>11
  <2> QED
    BY <1>2, <2>12, <2>13, Zenon DEF OnlyLastLineTorn
<1> QED
  BY <1>4, <1>5, <1>6

\* Whatever is written by any of the three writers, wherever the stream is cut and
\* whether its reader ends or fails there, the caller of Next and Drain is given
\* what was written before the cut, in order and once: a torn record of a binary
\* stream is withheld, and of a stream of base64 lines, which skips empty records,
\* only the last can come back shorter, if the cut falls behind whole units of it.
\* For lines it is assumed that base64 writes letters and no blanks.
THEOREM WhatWasWrittenComesBack ==
  ASSUME FitsWord, NoTextHeader, EncIsText
  PROVE  CutSpec => []RecordsDelivered
<1>1. InitCut => RTInv /\ LinesInv
  BY InitStream, InitReads, InitLines DEF RTInv, Binary, FitsWord
<1>2. RTInv /\ LinesInv /\ [RTNext]_rtVars => RTInv' /\ LinesInv'
  BY StepKeeps, LinesStep
<1>3. RTInv /\ LinesInv => RecordsDelivered
  <2> SUFFICES ASSUME RTInv, LinesInv PROVE RecordsDelivered
    OBVIOUS
  <2>1. CASE writer.framing # "base64Lines"
    <3>1. OnlyWholeRecords
      BY <2>1, WhatIsDelivered DEF RTInv, Binary, FitsWord, IInv
    <3>2. OnlyLastLineTorn
      BY <2>1 DEF OnlyLastLineTorn
    <3> QED
      BY <3>1, <3>2 DEF RecordsDelivered
  <2>2. CASE writer.framing = "base64Lines"
    <3>1. OnlyLastLineTorn
      BY <2>2, TextDelivered DEF LinesInv, Textual, IInv
    <3>2. OnlyWholeRecords
      BY <2>2 DEF OnlyWholeRecords
    <3> QED
      BY <3>1, <3>2 DEF RecordsDelivered
  <2> QED
    BY <2>1, <2>2
<1> QED
  BY <1>1, <1>2, <1>3, PTL DEF CutSpec

\* How what is left of a sequence behind its first n elements comes down.
LEMMA Remainder ==
  ASSUME NEW T, NEW w \in Seq(T), NEW n \in Nat
  PROVE  LET r == SubSeq(w, n + 1, Len(w))
             s == SubSeq(w, n + 2, Len(w))
         IN  /\ r # << >> => s = Tail(r)
             /\ r = << >> => s = << >>
<1> DEFINE m == n + 1
           r == SubSeq(w, m, Len(w))
           s == SubSeq(w, m + 1, Len(w))
<1>1. Len(w) \in Nat /\ m \in Nat /\ m >= 1 /\ m + 1 = n + 2
  OBVIOUS
<1> HIDE DEF m
<1>2. CASE m <= Len(w)
  <2>1. m \in 1 .. Len(w) /\ Len(w) \in m .. Len(w)
    BY <1>1, <1>2
  <2>2. s = Tail(r)
    BY <2>1, HeadTailOfSubSeq, Zenon
  <2>3. Len(r) = Len(w) - m + 1
    BY <1>1, <2>1
  <2>4. Len(r) # 0
    <3> HIDE DEF r
    <3> QED
      BY <1>1, <1>2, <2>3
  <2>5. Len(<< >>) = 0
    OBVIOUS
  <2>6. r # << >>
    <3> HIDE DEF r
    <3> QED
      BY <2>4, <2>5
  <2> QED
    BY <1>1, <2>2, <2>6, Zenon DEF m
<1>3. CASE ~(m <= Len(w))
  <2>1. m \in Int /\ m + 1 \in Int /\ Len(w) \in Int /\ Len(w) < m /\ Len(w) < m + 1
    BY <1>1, <1>3
  <2>2. r = << >> /\ s = << >>
    BY <2>1, SubSeqEmpty, Zenon
  <2> QED
    BY <1>1, <2>2, Zenon DEF m
<1> QED
  BY <1>2, <1>3

\* The records before the cut are the same after every step.
LEMMA WholeRecordsStay ==
  ASSUME Textual, SameStream
  PROVE  WholeRecords' = WholeRecords
<1>1. /\ written' = written /\ writer' = writer /\ ends' = ends /\ input' = input
      /\ writer.framing = "base64Lines"
  BY LinesStay DEF Textual
<1>2. CompleteLines' = CompleteLines
  BY <1>1 DEF CompleteLines
<1>3. Marks' = Marks
  BY <1>1 DEF Marks
<1>4. Expected = FlattenSeq(Marks) /\ Expected' = FlattenSeq(Marks')
  BY <1>1 DEF Expected, Marks
<1>5. WholeRecords = SubSeq(Expected, 1, CompleteLines)
  BY <1>1 DEF WholeRecords
<1>6. WholeRecords' = SubSeq(Expected', 1, CompleteLines')
  BY <1>1 DEF WholeRecords
<1> QED
  BY <1>2, <1>3, <1>4, <1>5, <1>6, Zenon

\* Every step of a reading of lines is a step of the abstract source.
LEMMA TextSourceStep ==
  ASSUME Textual, EncIsText, TypeOK, SameStream, TypeOK', Sees
  PROVE  Source!SourceNext \/ UNCHANGED Source!sourceVars
<1> DEFINE st == CASE outcome = {} -> "open"
                   [] "EOF" \in outcome -> "ended"
                   [] "ErrRecordTooLarge" \in outcome -> "refused"
                   [] OTHER -> "failed"
           n == Len(delivered)
<1>1. /\ lost' = lost /\ tail' = tail /\ maxRecordSize' = maxRecordSize /\ (Whole' <=> Whole)
  BY LinesStay DEF Whole
<1>2. WholeRecords' = WholeRecords
  BY WholeRecordsStay
<1>3. WholeRecords \in Seq(Seq(Units)) /\ n \in Nat /\ delivered \in Seq(Seq(Units)) /\ delivered' \in Seq(Seq(Units))
  <2>1. \A K \in 0 .. Len(written) : Kept(K) \in Seq(Seq(Units))
    BY KeptIs, Zenon
  <2>2. WholeRecords \in Seq(Seq(Units))
    BY <2>1, WholeLines, Zenon
  <2> QED
    BY <2>2 DEF TypeOK
<1>4. Source!SourceNext <=> Source!Return \/ Source!ReturnTorn \/ Source!End \/ Source!Refuse \/ Source!Fail
  BY DEF Source!SourceNext
<1>5. Left = SubSeq(WholeRecords, n + 1, Len(WholeRecords))
      /\ Left' = SubSeq(WholeRecords, n' + 1, Len(WholeRecords))
  BY <1>2, Zenon DEF Left
<1>6. n' = n => Left' = Left
  BY <1>5
<1>7. n' = n + 1 => (Left # << >> => Left' = Tail(Left)) /\ (Left = << >> => Left' = << >>)
  <2> SUFFICES ASSUME n' = n + 1
               PROVE  (Left # << >> => Left' = Tail(Left)) /\ (Left = << >> => Left' = << >>)
    OBVIOUS
  <2>1. n' + 1 = n + 2
    BY <1>3
  <2>2. Left' = SubSeq(WholeRecords, n + 2, Len(WholeRecords))
    BY <1>5, <2>1, Zenon
  <2> QED
    BY <1>3, <1>5, <2>2, Remainder, Zenon
<1> DEFINE same == maxRecordSize' = maxRecordSize /\ (Whole' <=> Whole)
<1>10. st = "open" /\ Left # << >> /\ Len(Head(Left)) <= maxRecordSize
         /\ delivered' = Append(delivered, Head(Left)) /\ Left' = Tail(Left) /\ st' = st /\ same
       => Source!Return
  BY Zenon DEF Source!Return, Left, Whole
<1>11. st = "open" /\ Left = << >> /\ ~Whole /\ n' = n + 1 /\ SubSeq(delivered', 1, n) = delivered
         /\ Left' = Left /\ st' = st /\ same
       => Source!ReturnTorn
  BY Zenon DEF Source!ReturnTorn, Left, Whole
<1>12. st = "open" /\ Left = << >> /\ st' = "ended" /\ Left' = Left /\ delivered' = delivered /\ same
       => Source!End
  BY Zenon DEF Source!End, Left, Whole
<1>13. st = "open" /\ (IF Left = << >> THEN ~Whole ELSE Len(Head(Left)) > maxRecordSize) /\ st' = "refused"
         /\ Left' = Left /\ delivered' = delivered /\ same
       => Source!Refuse
  BY Zenon DEF Source!Refuse, Left, Whole
<1>14. st = "open" /\ Left = << >> /\ ~Whole /\ st' = "failed" /\ Left' = Left /\ delivered' = delivered /\ same
       => Source!Fail
  BY Zenon DEF Source!Fail, Left, Whole
<1>15. st' = st /\ Left' = Left /\ delivered' = delivered /\ same => UNCHANGED Source!sourceVars
  BY Zenon DEF Source!sourceVars, Left, Whole
<1>16. same
  BY <1>1
<1>17. /\ outcome = {} => st = "open"
       /\ outcome' = {} => st' = "open"
       /\ outcome' = outcome => st' = st
       /\ outcome' = {"ErrRecordTooLarge"} => st' = "refused"
       /\ outcome' # {} /\ "EOF" \in outcome' /\ "ErrRecordTooLarge" \notin outcome' => st' = "ended"
       /\ outcome' # {} /\ "EOF" \notin outcome' /\ "ErrRecordTooLarge" \notin outcome' => st' = "failed"
  <2>1. outcome = {} => st = "open"
    OBVIOUS
  <2>2. outcome' = {} => st' = "open"
    OBVIOUS
  <2>3. outcome' = outcome => st' = st
    OBVIOUS
  <2>4. outcome' = {"ErrRecordTooLarge"} => st' = "refused"
    OBVIOUS
  <2>5. outcome' # {} /\ "EOF" \in outcome' /\ "ErrRecordTooLarge" \notin outcome' => st' = "ended"
    OBVIOUS
  <2>6. outcome' # {} /\ "EOF" \notin outcome' /\ "ErrRecordTooLarge" \notin outcome' => st' = "failed"
    OBVIOUS
  <2> HIDE DEF st
  <2> QED
    BY <2>1, <2>2, <2>3, <2>4, <2>5, <2>6, Zenon
<1>18. delivered' = delivered => n' = n
  OBVIOUS
<1> HIDE DEF st, n, same
<1>20. CASE Quiet
  BY <1>6, <1>15, <1>16, <1>17, <1>18, <1>20, Zenon DEF Quiet
<1>21. CASE SeesRecord
  <2>1. n' = n + 1
    <3> DEFINE h == Head(Left)
    <3>1. delivered' = Append(delivered, h)
      BY <1>21 DEF SeesRecord
    <3> HIDE DEF h
    <3> QED
      BY <1>3, <3>1 DEF n
  <2>2. Source!Return
    BY <1>7, <1>10, <1>16, <1>17, <1>21, <2>1, Zenon DEF SeesRecord
  <2> QED
    BY <1>4, <2>2, Zenon
<1>22. CASE SeesTorn
  <2>1. n' = n + 1 /\ SubSeq(delivered', 1, n) = delivered
    BY <1>22, Zenon DEF SeesTorn, n
  <2>2. Source!ReturnTorn
    BY <1>7, <1>11, <1>16, <1>17, <1>22, <2>1, Zenon DEF SeesTorn
  <2> QED
    BY <1>4, <2>2, Zenon
<1>23. CASE SeesError
  <2>1. outcome = {} /\ outcome' # {} /\ delivered' = delivered /\ Left' = Left
    BY <1>6, <1>18, <1>23, Zenon DEF SeesError
  <2>2. CASE outcome' = {"ErrRecordTooLarge"}
    <3>1. Source!Refuse
      BY <1>13, <1>16, <1>17, <1>23, <2>1, <2>2, Zenon DEF SeesError
    <3> QED
      BY <1>4, <3>1, Zenon
  <2>3. CASE outcome' # {"ErrRecordTooLarge"} /\ "EOF" \in outcome'
    <3>1. Source!End
      BY <1>12, <1>16, <1>17, <1>23, <2>1, <2>3, Zenon DEF SeesError
    <3> QED
      BY <1>4, <3>1, Zenon
  <2>4. CASE outcome' # {"ErrRecordTooLarge"} /\ "EOF" \notin outcome'
    <3>1. Source!Fail
      BY <1>14, <1>16, <1>17, <1>23, <2>1, <2>4, Zenon DEF SeesError
    <3> QED
      BY <1>4, <3>1, Zenon
  <2> QED
    BY <2>2, <2>3, <2>4
<1> QED
  BY <1>20, <1>21, <1>22, <1>23 DEF Sees

\* So every step of a reading, of a stream of any of the three framings, whole or
\* cut, is a step of the abstract source of the records that lie before the cut,
\* or none that its caller sees: it returns the next record, or what is left of a
\* torn line behind the last, refuses one over the limit, ends after the last one,
\* or fails where something is missing.  It is the safety half of
\* ReadsWhatWasWritten, whose fairness is not proved.
THEOREM ReadingIsASource ==
  ASSUME FitsWord, NoTextHeader, EncIsText
  PROVE  CutSpec => Source!SourceInit /\ [][Source!SourceNext]_(Source!sourceVars)
<1>1. InitCut => RTInv /\ LinesInv
  BY InitStream, InitReads, InitLines DEF RTInv, Binary, FitsWord
<1>2. RTInv /\ LinesInv /\ [RTNext]_rtVars => RTInv' /\ LinesInv'
  BY StepKeeps, LinesStep
<1>3. InitCut => Source!SourceInit
  BY DEF InitCut, Init0, NewStreamParser, Source!SourceInit
<1>4. RTInv /\ RTInv' /\ LinesInv /\ LinesInv' /\ [RTNext]_rtVars =>
        [Source!SourceNext]_(Source!sourceVars)
  <2> SUFFICES ASSUME RTInv, RTInv', LinesInv, LinesInv', [RTNext]_rtVars
               PROVE  Source!SourceNext \/ UNCHANGED Source!sourceVars
    OBVIOUS
  <2>1. SameStream
    BY StreamUnchanged
  <2>2. writer' = writer
    BY <2>1 DEF SameStream
  <2>3. CASE writer.framing # "base64Lines"
    <3>1. CallerSees
      BY <2>3, StepKeeps
    <3>2. Binary /\ TypeOK /\ ReadInv /\ TypeOK' /\ ReadInv'
      BY <2>2, <2>3 DEF RTInv, Binary, FitsWord, IInv
    <3> QED
      BY <2>1, <3>1, <3>2, SourceStep
  <2>4. CASE writer.framing = "base64Lines"
    <3>1. Sees
      BY <2>4, LinesStep
    <3>2. Textual /\ TypeOK /\ TypeOK'
      BY <2>2, <2>4 DEF LinesInv, Textual, IInv
    <3> QED
      BY <2>1, <3>1, <3>2, TextSourceStep
  <2> QED
    BY <2>3, <2>4
<1> QED
  BY <1>1, <1>2, <1>3, <1>4, PTL DEF CutSpec

=============================================================================
