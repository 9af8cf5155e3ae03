--------------------------- MODULE Markdown_proofs ---------------------------
(***************************************************************************)
(* Proofs about Markdown and about the decoder of text in it, for any      *)
(* pages of goldmark's, any text, any entities and any limits.             *)
(*                                                                         *)
(* First the decoder, by itself: it looks ahead, jumps and goes back over  *)
(* the bytes, and writes what the text means by the definition that knows  *)
(* of no cursors (DInv).  Then what the walk is made of: joining words,    *)
(* nodes, goldmark's trees, what becomes of each kind of node.  Then the   *)
(* invariant of the walk (MInv), part by part under each kind of step, and *)
(* what follows of it.                                                     *)
(***************************************************************************)
EXTENDS Markdown, FiniteSetTheorems, WellFoundedInduction, SequenceTheorems, TLAPS

Text == Seq(STRING)

-----------------------------------------------------------------------------
(* The least of some numbers.                                              *)

LEMMA SmallestIn ==
    ASSUME NEW S, IsFiniteSet(S), NEW D, D \subseteq SUBSET S, D # {}
    PROVE  \E B \in D : \A C \in D : ~(C \subseteq B /\ C # B)
<1>1. FiniteSubsetsOf(S) = SUBSET S
  BY FS_FiniteSubsetsOfFinite
<1>2. IsWellFoundedOn(StrictSubsetOrdering(S), SUBSET S)
  BY <1>1, FS_StrictSubsetOrderingWellFounded
<1>3. PICK B \in D : \A C \in D : ~(<<C, B>> \in StrictSubsetOrdering(S))
  BY <1>2, WFMin
<1>4. ASSUME NEW C \in D, C \subseteq B, C # B PROVE FALSE
  <2>1. <<C, B>> \in StrictSubsetOrdering(S)
    BY <1>4 DEF StrictSubsetOrdering
  <2> QED BY <1>3, <2>1
<1> QED BY <1>4

\* Some numbers up to N have a least one.
LEMMA LeastOf ==
    ASSUME NEW N \in Nat, NEW D, D \subseteq 0..N, D # {}
    PROVE  \E m \in D : \A k \in D : m <= k
<1> DEFINE E == {0..k : k \in D}
<1>1. IsFiniteSet(0..N)
  BY FS_Interval
<1>2. E \subseteq SUBSET (0..N) /\ E # {}
  <2>1. \A k \in D : k \in 0..N
    OBVIOUS
  <2>2. \A k \in 0..N : 0..k \in SUBSET (0..N)
    OBVIOUS
  <2> QED BY <2>1, <2>2, Zenon
<1>3. PICK B \in E : \A C \in E : ~(C \subseteq B /\ C # B)
  <2> DEFINE S == 0..N
  <2>1. IsFiniteSet(S) /\ E \subseteq SUBSET S /\ E # {}
    BY <1>1, <1>2
  <2> HIDE DEF E, S
  <2> QED BY <2>1, SmallestIn
<1>4. PICK m \in D : B = 0..m
  OBVIOUS
<1>5. ASSUME NEW k \in D, ~(m <= k) PROVE FALSE
  <2>1. 0..k \subseteq B /\ m \in B /\ m \notin 0..k
    BY <1>4, <1>5
  <2>2. 0..k \in E
    OBVIOUS
  <2> QED BY <1>3, <2>1, <2>2
<1> QED BY <1>5

-----------------------------------------------------------------------------
(* What a text means.                                                      *)

\* What begins at a place ends after it, in the text.
LEMMA AfterIn ==
    ASSUME NEW s \in Text, NEW i \in 0..(Len(s) - 1)
    PROVE  After(s, i) \in (i + 1)..Len(s)
<1>1. Len(s) \in Nat
  BY DEF Text
<1>2. CASE Escapes(s, i)
  BY <1>1, <1>2 DEF After, Escapes
<1>3. CASE ~Escapes(s, i) /\ Stops(s, i) # {}
  <2>1. (CHOOSE j \in Stops(s, i) : TRUE) \in Stops(s, i)
    BY <1>3
  <2>2. After(s, i) \in Stops(s, i)
    BY <1>3, <2>1 DEF After
  <2> QED BY <2>2 DEF Stops
<1>4. CASE ~Escapes(s, i) /\ Stops(s, i) = {}
  BY <1>1, <1>4 DEF After
<1> QED BY <1>2, <1>3, <1>4

\* g gives what the text means from every place of L..Len(s) on.
Means(s, L, g) ==
    /\ g \in [L..Len(s) -> Seq(Text)]
    /\ g[Len(s)] = <<>>
    /\ \A i \in L..(Len(s) - 1) : g[i] = <<Piece(s, i)>> \o g[After(s, i)]

LEMMA SliceIn ==
    ASSUME NEW s \in Text, NEW a \in 0..Len(s), NEW b \in a..Len(s)
    PROVE  /\ Slice(s, a, b) \in Text
           /\ Len(Slice(s, a, b)) = b - a
           /\ \A k \in 1..(b - a) : Slice(s, a, b)[k] = At(s, a + k - 1)
<1>1. Len(s) \in Nat /\ \A k \in (a + 1)..b : s[k] \in STRING
  BY DEF Text
<1>2. /\ SubSeq(s, a + 1, b) \in Seq(STRING)
      /\ Len(SubSeq(s, a + 1, b)) = IF a + 1 <= b THEN b - (a + 1) + 1 ELSE 0
      /\ \A k \in 1..(b - (a + 1) + 1) : SubSeq(s, a + 1, b)[k] = s[a + 1 + k - 1]
  <2> DEFINE m == a + 1
  <2>1. m \in Int /\ b \in Int /\ \A k \in m..b : s[k] \in STRING
    BY <1>1
  <2> HIDE DEF m
  <2>2. /\ SubSeq(s, m, b) \in Seq(STRING)
        /\ Len(SubSeq(s, m, b)) = IF m <= b THEN b - m + 1 ELSE 0
        /\ \A k \in 1..(b - m + 1) : SubSeq(s, m, b)[k] = s[m + k - 1]
    BY <2>1, SubSeqProperties
  <2> QED BY <2>2 DEF m
<1>3. \A k \in 1..(b - a) : k \in 1..(b - (a + 1) + 1) /\ a + 1 + k - 1 = (a + k - 1) + 1
  BY <1>1
<1> QED BY <1>1, <1>2, <1>3 DEF Text, Slice, At

LEMMA PieceIn ==
    ASSUME NEW s \in Text, NEW i \in 0..(Len(s) - 1)
    PROVE  Piece(s, i) \in Text
<1>1. Len(s) \in Nat /\ After(s, i) \in (i + 1)..Len(s)
  BY AfterIn DEF Text
<1>2. CASE Escapes(s, i)
  <2>1. After(s, i) = i + 2 /\ i + 1 \in 0..Len(s) /\ After(s, i) \in (i + 1)..Len(s)
    BY <1>1, <1>2 DEF After
  <2>2. Slice(s, i + 1, After(s, i)) \in Text
    BY <2>1, SliceIn
  <2> QED BY <1>2, <2>2 DEF Piece
<1>3. CASE ~Escapes(s, i)
  <2>1. i \in 0..Len(s) /\ After(s, i) \in i..Len(s)
    BY <1>1
  <2>2. Slice(s, i, After(s, i)) \in Text
    BY <2>1, SliceIn
  <2> QED BY <1>3, <2>2 DEF Piece
<1> QED BY <1>2, <1>3

LEMMA MeansStep ==
    ASSUME NEW s \in Text, NEW L \in 1..Len(s), NEW g, Means(s, L, g)
    PROVE  \E h : Means(s, L - 1, h)
<1> DEFINE N == Len(s)
           P == <<Piece(s, L - 1)>> \o g[After(s, L - 1)]
           h == [i \in (L - 1)..N |-> IF i = L - 1 THEN P ELSE g[i]]
<1>1. N \in Nat /\ L \in Nat /\ L - 1 \in 0..(N - 1) /\ L <= N
  BY DEF Text
<1>2. After(s, L - 1) \in L..N
  <2>1. After(s, L - 1) \in (L - 1 + 1)..N
    BY <1>1, AfterIn
  <2> QED BY <1>1, <2>1
<1>3. g[After(s, L - 1)] \in Seq(Text)
  BY <1>2 DEF Means
<1>4. <<Piece(s, L - 1)>> \in Seq(Text)
  BY <1>1, PieceIn
<1>5. P \in Seq(Text)
  BY <1>3, <1>4, ConcatProperties
<1>6. \A i \in L..N : g[i] \in Seq(Text)
  BY DEF Means
<1>7. h \in [(L - 1)..N -> Seq(Text)]
  <2> HIDE DEF P
  <2>1. \A i \in (L - 1)..N : i = L - 1 \/ i \in L..N
    BY <1>1
  <2> QED BY <1>5, <1>6, <2>1
<1>8. \A i \in L..N : i \in (L - 1)..N /\ i # L - 1 /\ h[i] = g[i]
  <2> HIDE DEF P
  <2>1. \A i \in L..N : i \in (L - 1)..N /\ i # L - 1
    BY <1>1
  <2> QED BY <2>1
<1>9. h[N] = <<>>
  <2>1. N \in L..N
    BY <1>1
  <2> QED BY <1>8, <2>1 DEF Means
<1>10. ASSUME NEW i \in (L - 1)..(N - 1)
       PROVE  h[i] = <<Piece(s, i)>> \o h[After(s, i)]
  <2>1. i \in 0..(N - 1) /\ i \in (L - 1)..N
    BY <1>1
  <2>2. After(s, i) \in (i + 1)..N
    BY <2>1, AfterIn
  <2>3. After(s, i) \in L..N
    BY <1>1, <2>1, <2>2
  <2>4. h[After(s, i)] = g[After(s, i)]
    BY <1>8, <2>3
  <2>5. CASE i = L - 1
    <3>1. h[i] = P
      BY <2>1, <2>5
    <3> HIDE DEF h
    <3> QED BY <2>4, <2>5, <3>1
  <2>6. CASE i # L - 1
    <3>1. i \in L..(N - 1) /\ i \in L..N
      BY <1>1, <2>1, <2>6
    <3>2. h[i] = g[i]
      BY <1>8, <3>1
    <3>3. g[i] = <<Piece(s, i)>> \o g[After(s, i)]
      BY <3>1 DEF Means
    <3> HIDE DEF h
    <3> QED BY <2>4, <3>2, <3>3
  <2> QED BY <2>5, <2>6
<1>11. Means(s, L - 1, h)
  <2> HIDE DEF h
  <2> QED BY <1>7, <1>9, <1>10 DEF Means
<1> QED BY <1>11

LEMMA MeansAll ==
    ASSUME NEW s \in Text
    PROVE  \E g : Means(s, 0, g)
<1> DEFINE N == Len(s)
           D == {L \in 0..N : \E g : Means(s, L, g)}
<1>1. N \in Nat
  BY DEF Text
<1>2. Means(s, N, [i \in N..N |-> <<>>])
  <2>1. <<>> \in Seq(Text) /\ N \in N..N /\ N..(N - 1) = {}
    BY <1>1
  <2> QED BY <2>1, Zenon DEF Means
<1>3. N \in D /\ D \subseteq 0..N
  BY <1>1, <1>2
<1>4. PICK m \in D : \A k \in D : m <= k
  <2> HIDE DEF D
  <2> QED BY <1>1, <1>3, LeastOf
<1>5. CASE m = 0
  BY <1>4, <1>5
<1>6. CASE m # 0
  <2>1. m \in 1..N /\ \E g : Means(s, m, g)
    BY <1>1, <1>4, <1>6
  <2>2. \E h : Means(s, m - 1, h)
    BY <2>1, MeansStep
  <2>3. m - 1 \in D /\ ~(m <= m - 1)
    BY <1>1, <2>1, <2>2
  <2> HIDE DEF D
  <2> QED BY <1>4, <2>3
<1> QED BY <1>5, <1>6

\* The pieces from a place on are the piece there and those after it: the recursion in
\* the definition has an end.
LEMMA MeaningUnfolds ==
    ASSUME NEW s \in Text
    PROVE  Means(s, 0, Meaning(s))
<1> DEFINE N == Len(s)
           F(f) == [i \in 0..N |-> IF i = N THEN <<>> ELSE <<Piece(s, i)>> \o f[After(s, i)]]
<1>1. N \in Nat
  BY DEF Text
<1>2. PICK g : Means(s, 0, g)
  BY MeansAll
<1>3. g = F(g)
  <2>1. g \in [0..N -> Seq(Text)]
    BY <1>2 DEF Means
  <2>2. \A i \in 0..N : i # N => i \in 0..(N - 1)
    BY <1>1
  <2>3. \A i \in 0..N : g[i] = F(g)[i]
    BY <1>2, <2>2 DEF Means
  <2>4. g = [i \in 0..N |-> g[i]]
    BY <2>1
  <2> QED BY <2>3, <2>4
<1>4. Meaning(s) = CHOOSE f : f = F(f)
  BY DEF Meaning
<1>5. Meaning(s) = F(Meaning(s))
  <2> HIDE DEF F
  <2> QED BY <1>3, <1>4
<1> DEFINE m == Meaning(s)
<1>6. DOMAIN m = 0..N /\ \A i \in 0..N : m[i] = IF i = N THEN <<>> ELSE <<Piece(s, i)>> \o m[After(s, i)]
  BY <1>5
<1> HIDE DEF m
<1>7. m[N] = <<>>
  <2>1. N \in 0..N
    BY <1>1
  <2> QED BY <1>6, <2>1
<1>8. \A i \in 0..(N - 1) : m[i] = <<Piece(s, i)>> \o m[After(s, i)]
  <2>1. \A i \in 0..(N - 1) : i \in 0..N /\ i # N
    BY <1>1
  <2> QED BY <1>6, <2>1
<1> DEFINE D == {k \in 0..N : m[N - k] \notin Seq(Text)}
<1>9. D = {}
  <2>1. SUFFICES ASSUME D # {} PROVE FALSE
    OBVIOUS
  <2>2. PICK k \in D : \A l \in D : k <= l
    <3>1. D \subseteq 0..N
      OBVIOUS
    <3> HIDE DEF D
    <3> QED BY <1>1, <2>1, <3>1, LeastOf
  <2>3. k \in 0..N /\ m[N - k] \notin Seq(Text)
    OBVIOUS
  <2>4. k # 0
    <3>1. N - 0 = N /\ <<>> \in Seq(Text)
      BY <1>1
    <3> QED BY <1>7, <2>3, <3>1
  <2> DEFINE i == N - k
  <2>5. i \in 0..(N - 1)
    BY <1>1, <2>3, <2>4
  <2>6. After(s, i) \in (i + 1)..N
    BY <2>5, AfterIn
  <2> DEFINE l == N - After(s, i)
  <2>7. l \in 0..N /\ l < k /\ N - l = After(s, i)
    BY <1>1, <2>3, <2>5, <2>6
  <2>8. m[After(s, i)] \in Seq(Text)
    <3>1. l \notin D
      <4> HIDE DEF D, l
      <4>1. k \in Int /\ l \in Int
        BY <2>3, <2>7
      <4> QED BY <2>2, <2>7, <4>1
    <3> QED BY <2>7, <3>1
  <2>9. <<Piece(s, i)>> \in Seq(Text)
    BY <2>5, PieceIn
  <2>10. m[i] \in Seq(Text)
    <3>1. <<Piece(s, i)>> \o m[After(s, i)] \in Seq(Text)
      BY <2>8, <2>9, ConcatProperties
    <3> QED BY <1>8, <2>5, <3>1
  <2> QED BY <2>3, <2>10
<1>10. \A i \in 0..N : m[i] \in Seq(Text)
  <2>1. \A i \in 0..N : N - i \in 0..N /\ N - (N - i) = i
    BY <1>1
  <2>2. \A k \in 0..N : m[N - k] \in Seq(Text)
    BY <1>9
  <2> QED BY <2>1, <2>2
<1>11. m \in [0..N -> Seq(Text)]
  <2>1. m = [i \in 0..N |-> m[i]]
    BY <1>5, <1>6 DEF m
  <2> QED BY <1>10, <2>1
<1> QED BY <1>7, <1>8, <1>11 DEF Means, m

-----------------------------------------------------------------------------
(* What the decoder finds is a reference, and the only one.                *)

\* Reading on while the characters are of a class ends somewhere.
LEMMA ReadWhileStops ==
    ASSUME NEW s \in Text, NEW start \in 0..Len(s), NEW class
    PROVE  LET j == ReadWhile(s, start, class) IN
           /\ j \in start..Len(s)
           /\ \A k \in start..(j - 1) : At(s, k) \in class
           /\ j = Len(s) \/ At(s, j) \notin class
<1> DEFINE N == Len(s)
           D == {j \in start..N : j = N \/ At(s, j) \notin class}
<1>1. N \in Nat
  BY DEF Text
<1>2. PICK j \in D : \A k \in D : j <= k
  <2>1. N \in D /\ D \subseteq 0..N
    BY <1>1
  <2> HIDE DEF D
  <2> QED BY <1>1, <2>1, LeastOf
<1>3. ASSUME NEW k \in start..(j - 1) PROVE At(s, k) \in class
  <2>1. k \in start..N /\ ~(j <= k) /\ k # N
    BY <1>1
  <2>2. k \notin D
    <3> HIDE DEF D
    <3> QED BY <1>2, <2>1
  <2> QED BY <2>1, <2>2
<1> DEFINE R(l) == /\ \A k \in start..(l - 1) : At(s, k) \in class
                   /\ l = N \/ At(s, l) \notin class
<1>4. j \in start..N /\ R(j)
  BY <1>3
<1>5. ReadWhile(s, start, class) = CHOOSE l \in start..N : R(l)
  BY DEF ReadWhile
<1>6. ReadWhile(s, start, class) \in start..N /\ R(ReadWhile(s, start, class))
  <2> HIDE DEF R
  <2> QED BY <1>4, <1>5
<1> QED BY <1>6

EndMark == ";"

\* k is the place of the ";" after some characters of a class, as many at most.
EndsAt(s, start, class, most, k) ==
    /\ k \in (start + 1)..(Len(s) - 1) /\ At(s, k) = EndMark /\ k - start <= most
    /\ \A l \in start..(k - 1) : At(s, l) \in class

\* The decoder finds the ";" if it is there.
LEMMA EndsIs ==
    ASSUME NEW s \in Text, NEW start \in 0..Len(s), NEW class, EndMark \notin class,
           NEW most \in Nat, NEW k
    PROVE  k \in Ends(s, start, class, most) <=> EndsAt(s, start, class, most, k)
<1> DEFINE j == ReadWhile(s, start, class)
           N == Len(s)
<1>1. N \in Nat
  BY DEF Text
<1>2. /\ j \in start..N
      /\ \A l \in start..(j - 1) : At(s, l) \in class
      /\ j = N \/ At(s, j) \notin class
  BY ReadWhileStops
<1>3. k \in Ends(s, start, class, most) <=>
          k = j /\ k > start /\ k < N /\ At(s, k) = EndMark /\ k - start <= most
  BY Zenon DEF Ends, EndMark
<1> HIDE DEF j
<1>4. ASSUME k \in Ends(s, start, class, most) PROVE EndsAt(s, start, class, most, k)
  <2>1. k \in (start + 1)..(N - 1)
    BY <1>1, <1>2, <1>3, <1>4
  <2>2. \A l \in start..(k - 1) : At(s, l) \in class
    BY <1>2, <1>3, <1>4
  <2> QED BY <1>3, <1>4, <2>1, <2>2 DEF EndsAt
<1>5. ASSUME EndsAt(s, start, class, most, k) PROVE k \in Ends(s, start, class, most)
  <2>1. k \in (start + 1)..(N - 1) /\ At(s, k) = EndMark /\ k - start <= most
    BY <1>5 DEF EndsAt
  <2>2. \A l \in start..(k - 1) : At(s, l) \in class
    BY <1>5 DEF EndsAt
  <2>3. ~(j < k)
    <3>1. SUFFICES ASSUME j < k PROVE FALSE
      OBVIOUS
    <3>2. j \in start..(k - 1) /\ j # N
      BY <1>1, <1>2, <2>1, <3>1
    <3> QED BY <1>2, <2>2, <3>2
  <2>4. ~(k < j)
    <3>1. SUFFICES ASSUME k < j PROVE FALSE
      OBVIOUS
    <3>2. k \in start..(j - 1)
      BY <1>1, <1>2, <2>1, <3>1
    <3> QED BY <1>2, <2>1, <3>2
  <2>5. k = j /\ k > start /\ k < N
    BY <1>1, <1>2, <2>1, <2>3, <2>4
  <2> QED BY <1>3, <2>1, <2>5
<1> QED BY <1>4, <1>5

\* What makes s a reference from i to the ";" at j, place by place.
RefersAt(s, i, j) ==
    /\ j \in (i + 2)..(Len(s) - 1) /\ At(s, i) = "&" /\ At(s, j) = ";"
    /\ \/ Slice(s, i + 1, j) \in Names
       \/ /\ At(s, i + 1) = "#" /\ j - (i + 2) \in 1..MaxDec
          /\ \A l \in (i + 2)..(j - 1) : At(s, l) \in Digit
       \/ /\ At(s, i + 1) = "#" /\ At(s, i + 2) = "x" /\ j - (i + 3) \in 1..MaxHex
          /\ \A l \in (i + 3)..(j - 1) : At(s, l) \in HexDigit

LEMMA SubSlice ==
    ASSUME NEW s \in Text, NEW a \in 0..Len(s), NEW b \in a..Len(s),
           NEW c \in 0..(b - a), NEW d \in c..(b - a)
    PROVE  SubSeq(Slice(s, a, b), c + 1, d) = Slice(s, a + c, a + d)
<1> DEFINE N == Len(s)
           t == Slice(s, a, b)
           u == Slice(s, a + c, a + d)
           v == Slice(t, c, d)
<1>1. N \in Nat
  BY DEF Text
<1>2. t \in Text /\ Len(t) = b - a /\ \A k \in 1..(b - a) : t[k] = At(s, a + k - 1)
  BY SliceIn
<1>3. /\ u \in Text /\ Len(u) = d - c
      /\ \A k \in 1..(d - c) : u[k] = At(s, a + c + k - 1)
  <2> DEFINE p == a + c
             q == a + d
  <2>1. p \in 0..Len(s) /\ q \in p..Len(s) /\ q - p = d - c
    BY <1>1
  <2> HIDE DEF p, q
  <2>2. /\ Slice(s, p, q) \in Text /\ Len(Slice(s, p, q)) = q - p
        /\ \A k \in 1..(q - p) : Slice(s, p, q)[k] = At(s, p + k - 1)
    BY <2>1, SliceIn
  <2> QED BY <2>1, <2>2 DEF p, q
<1>4. /\ v \in Text /\ Len(v) = d - c
      /\ \A k \in 1..(d - c) : v[k] = At(t, c + k - 1)
  <2> HIDE DEF t
  <2>1. c \in 0..Len(t) /\ d \in c..Len(t)
    BY <1>2
  <2> QED BY <1>2, <2>1, SliceIn
<1>5. \A k \in 1..(d - c) : v[k] = u[k]
  <2> SUFFICES ASSUME NEW k \in 1..(d - c) PROVE v[k] = u[k]
    OBVIOUS
  <2>1. c + k \in 1..(b - a) /\ c + k - 1 + 1 = c + k /\ a + (c + k) - 1 = a + c + k - 1
    BY <1>1
  <2>2. v[k] = t[c + k]
    BY <1>4, <2>1 DEF At
  <2>3. t[c + k] = At(s, a + c + k - 1)
    BY <1>2, <2>1
  <2> QED BY <1>3, <2>2, <2>3
<1>6. v = u
  <2>1. Len(v) = Len(u) /\ \A k \in 1..Len(v) : v[k] = u[k]
    BY <1>3, <1>4, <1>5
  <2> HIDE DEF u, v
  <2> QED BY <1>3, <1>4, <2>1, SeqEqual DEF Text, u, v
<1> QED BY <1>6 DEF Slice

\* So many characters of a class.
LEMMA NumberIs ==
    ASSUME NEW s \in Text, NEW a \in 0..Len(s), NEW b \in a..Len(s), NEW class, NEW most \in Nat
    PROVE  LET d == Slice(s, a, b) IN
           (Len(d) \in 1..most /\ \A k \in 1..Len(d) : d[k] \in class)
           <=> (b - a \in 1..most /\ \A l \in a..(b - 1) : At(s, l) \in class)
<1> DEFINE d == Slice(s, a, b)
<1>1. Len(s) \in Nat
  BY DEF Text
<1>2. Len(d) = b - a /\ \A k \in 1..(b - a) : d[k] = At(s, a + k - 1)
  BY SliceIn
<1> HIDE DEF d
<1>3. ASSUME \A k \in 1..Len(d) : d[k] \in class, NEW l \in a..(b - 1)
      PROVE  At(s, l) \in class
  <2>1. l - a + 1 \in 1..(b - a) /\ a + (l - a + 1) - 1 = l
    BY <1>1
  <2> QED BY <1>2, <1>3, <2>1
<1>4. ASSUME \A l \in a..(b - 1) : At(s, l) \in class, NEW k \in 1..Len(d)
      PROVE  d[k] \in class
  <2>1. k \in 1..(b - a) /\ a + k - 1 \in a..(b - 1)
    BY <1>1, <1>2
  <2> QED BY <1>2, <1>4, <2>1
<1>5. (\A k \in 1..Len(d) : d[k] \in class) <=> (\A l \in a..(b - 1) : At(s, l) \in class)
  BY <1>3, <1>4, Zenon
<1>6. Len(d) \in 1..most <=> b - a \in 1..most
  BY <1>2
<1> QED BY <1>5, <1>6 DEF d

\* A slice is a reference by the book if it is one place by place.
LEMMA IsReferenceIs ==
    ASSUME NEW s \in Text, NEW i \in 0..(Len(s) - 1), NEW j \in i..(Len(s) - 1)
    PROVE  IsReference(Slice(s, i, j + 1)) <=> RefersAt(s, i, j)
<1> DEFINE N == Len(s)
           t == Slice(s, i, j + 1)
           body == SubSeq(t, 2, Len(t) - 1)
           Number(d, class, most) == Len(d) \in 1..most /\ \A k \in 1..Len(d) : d[k] \in class
           Counts(a, class, most) == j - a \in 1..most /\ \A l \in a..(j - 1) : At(s, l) \in class
<1>1. N \in Nat /\ i \in 0..N /\ j + 1 \in i..N
  BY DEF Text
<1>2. t \in Text /\ Len(t) = j + 1 - i /\ t[1] = At(s, i) /\ t[Len(t)] = At(s, j)
  <2>1. t \in Text /\ Len(t) = j + 1 - i /\ \A k \in 1..(j + 1 - i) : t[k] = At(s, i + k - 1)
    BY <1>1, SliceIn
  <2>2. 1 \in 1..(j + 1 - i) /\ j + 1 - i \in 1..(j + 1 - i) /\ i + 1 - 1 = i /\ i + (j + 1 - i) - 1 = j
    BY <1>1
  <2> HIDE DEF t
  <2> QED BY <2>1, <2>2
<1>3. j \in (i + 2)..(N - 1) <=> Len(t) > 2
  BY <1>1, <1>2
<1>4. CASE ~(Len(t) > 2)
  BY <1>3, <1>4 DEF IsReference, RefersAt
<1>5. CASE Len(t) > 2
  <2>1. j \in (i + 2)..(N - 1)
    BY <1>3, <1>5
  <2>2. body = Slice(s, i + 1, j)
    <3>1. 1 \in 0..(j + 1 - i) /\ j - i \in 1..(j + 1 - i) /\ i + (j - i) = j /\ Len(t) - 1 = j - i /\ 1 + 1 = 2
      BY <1>1, <1>2, <2>1
    <3> DEFINE b == j + 1
               c == j - i
    <3>2. i \in 0..N /\ b \in i..N /\ 1 \in 0..(b - i) /\ c \in 1..(b - i) /\ i + c = j /\ Len(t) - 1 = c
      BY <1>1, <3>1
    <3>3. SubSeq(Slice(s, i, b), 1 + 1, c) = Slice(s, i + 1, i + c)
      <4> HIDE DEF b, c
      <4> QED BY <3>2, SubSlice
    <3>4. body = SubSeq(Slice(s, i, b), 1 + 1, c)
      <4>1. t = Slice(s, i, b)
        OBVIOUS
      <4> HIDE DEF t, b, c
      <4> QED BY <3>1, <3>2, <4>1
    <3> HIDE DEF body, b, c
    <3> QED BY <3>2, <3>3, <3>4
  <2>3. /\ body \in Text /\ Len(body) = j - (i + 1)
        /\ \A k \in 1..(j - (i + 1)) : body[k] = At(s, i + 1 + k - 1)
    <3>1. i + 1 \in 0..N /\ j \in (i + 1)..N
      BY <1>1, <2>1
    <3> HIDE DEF body
    <3> QED BY <2>2, <3>1, SliceIn
  <2>4. body[1] = At(s, i + 1) /\ (Len(body) > 1 => body[2] = At(s, i + 2))
    <3>1. 1 \in 1..(j - (i + 1)) /\ i + 1 + 1 - 1 = i + 1 /\ i + 1 + 2 - 1 = i + 2
      BY <1>1, <2>1
    <3>2. Len(body) > 1 => 2 \in 1..(j - (i + 1))
      BY <1>1, <2>1, <2>3
    <3> HIDE DEF body
    <3> QED BY <2>3, <3>1, <3>2
  <2>5. Tail(body) = Slice(s, i + 2, j)
    <3>1. Len(body) = j - i - 1 /\ Len(body) # 0 /\ Len(body) \in Nat
      <4> HIDE DEF body
      <4> QED BY <1>1, <2>1, <2>3
    <3>2. body # <<>>
      <4>1. Len(<<>>) = 0
        OBVIOUS
      <4> HIDE DEF body
      <4> QED BY <3>1, <4>1
    <3>3. Tail(body) = SubSeq(body, 2, Len(body))
      <4> HIDE DEF body
      <4> QED BY <2>3, <3>2, TailIsSubSeq DEF Text
    <3> DEFINE a == i + 1
               c == j - i - 1
    <3>4. /\ a \in 0..N /\ j \in a..N /\ 1 \in 0..(j - a) /\ c \in 1..(j - a)
          /\ a + 1 = i + 2 /\ a + c = j /\ 1 + 1 = 2 /\ Len(body) = c
      BY <1>1, <2>1, <3>1
    <3>5. SubSeq(Slice(s, a, j), 1 + 1, c) = Slice(s, a + 1, a + c)
      <4> HIDE DEF a, c
      <4> QED BY <3>4, SubSlice
    <3>6. SubSeq(body, 2, Len(body)) = SubSeq(Slice(s, a, j), 1 + 1, c)
      <4> HIDE DEF body, c
      <4> QED BY <2>2, <3>4
    <3> HIDE DEF body, a, c
    <3> QED BY <3>3, <3>4, <3>5, <3>6
  <2>6. Len(body) > 1 => SubSeq(body, 3, Len(body)) = Slice(s, i + 3, j)
    <3> SUFFICES ASSUME Len(body) > 1 PROVE SubSeq(body, 3, Len(body)) = Slice(s, i + 3, j)
      OBVIOUS
    <3> DEFINE a == i + 1
               c == j - i - 1
    <3>4. /\ a \in 0..N /\ j \in a..N /\ 2 \in 0..(j - a) /\ c \in 2..(j - a)
          /\ a + 2 = i + 3 /\ a + c = j /\ 2 + 1 = 3 /\ Len(body) = c
      BY <1>1, <2>1, <2>3
    <3>5. SubSeq(Slice(s, a, j), 2 + 1, c) = Slice(s, a + 2, a + c)
      <4> HIDE DEF a, c
      <4> QED BY <3>4, SubSlice
    <3>6. SubSeq(body, 3, Len(body)) = SubSeq(Slice(s, a, j), 2 + 1, c)
      <4> HIDE DEF body, c
      <4> QED BY <2>2, <3>4
    <3> HIDE DEF body, a, c
    <3> QED BY <3>4, <3>5, <3>6
  <2>7. Number(Tail(body), Digit, MaxDec) <=> Counts(i + 2, Digit, MaxDec)
    <3>1. i + 2 \in 0..N /\ j \in (i + 2)..N
      BY <1>1, <2>1
    <3> HIDE DEF body
    <3> QED BY <2>5, <3>1, NumberIs, LimitsAssumption
  <2>8. Len(body) > 1 => (Number(SubSeq(body, 3, Len(body)), HexDigit, MaxHex) <=> Counts(i + 3, HexDigit, MaxHex))
    <3> SUFFICES ASSUME Len(body) > 1
        PROVE Number(SubSeq(body, 3, Len(body)), HexDigit, MaxHex) <=> Counts(i + 3, HexDigit, MaxHex)
      OBVIOUS
    <3>1. i + 3 \in 0..N /\ j \in (i + 3)..N
      BY <1>1, <2>1, <2>3
    <3> HIDE DEF body
    <3> QED BY <2>6, <3>1, NumberIs, LimitsAssumption
  <2>9. Counts(i + 3, HexDigit, MaxHex) => Len(body) > 1
    BY <1>1, <2>3, LimitsAssumption
  <2>10. IsReference(t) <=>
            /\ t[1] = "&" /\ t[Len(t)] = ";"
            /\ \/ body \in Names
               \/ body[1] = "#" /\ Number(Tail(body), Digit, MaxDec)
               \/ body[1] = "#" /\ Len(body) > 1 /\ body[2] = "x"
                     /\ Number(SubSeq(body, 3, Len(body)), HexDigit, MaxHex)
    <3> HIDE DEF t
    <3> QED BY <1>5, Zenon DEF IsReference
  <2>11. RefersAt(s, i, j) <=>
            /\ At(s, i) = "&" /\ At(s, j) = ";"
            /\ \/ Slice(s, i + 1, j) \in Names
               \/ At(s, i + 1) = "#" /\ Counts(i + 2, Digit, MaxDec)
               \/ At(s, i + 1) = "#" /\ At(s, i + 2) = "x" /\ Counts(i + 3, HexDigit, MaxHex)
    BY <2>1, Zenon DEF RefersAt
  <2> HIDE DEF t, body, Number, Counts
  <2>12. /\ t[1] = "&" <=> At(s, i) = "&"
         /\ t[Len(t)] = ";" <=> At(s, j) = ";"
         /\ body[1] = "#" <=> At(s, i + 1) = "#"
         /\ body \in Names <=> Slice(s, i + 1, j) \in Names
    BY <1>2, <2>2, <2>4
  <2>13. Len(body) > 1 => (body[2] = "x" <=> At(s, i + 2) = "x")
    BY <2>4
  <2> DEFINE A == body[1] = "#"
             X == body[2] = "x"
             L == Len(body) > 1
             E == Slice(s, i + 1, j) \in Names
             D == Counts(i + 2, Digit, MaxDec)
             H == Counts(i + 3, HexDigit, MaxHex)
  <2>14. IsReference(t) <=> At(s, i) = "&" /\ At(s, j) = ";" /\ (E \/ (A /\ D) \/ (A /\ L /\ X /\ H))
    BY <2>7, <2>8, <2>10, <2>12, Zenon
  <2>15. RefersAt(s, i, j) <=> At(s, i) = "&" /\ At(s, j) = ";" /\ (E \/ (A /\ D) \/ (A /\ L /\ X /\ H))
    BY <2>9, <2>11, <2>12, <2>13, Zenon
  <2> QED BY <2>14, <2>15 DEF t
<1> QED BY <1>4, <1>5

LEMMA NameAt ==
    ASSUME NEW s \in Text, NEW a \in 0..Len(s), NEW b \in a..Len(s), Slice(s, a, b) \in Names
    PROVE  \A l \in a..(b - 1) : At(s, l) \in Alnum
<1> DEFINE d == Slice(s, a, b)
<1>1. Len(s) \in Nat
  BY DEF Text
<1>2. Len(d) = b - a /\ \A k \in 1..(b - a) : d[k] = At(s, a + k - 1)
  BY SliceIn
<1>3. d \in Seq(Alnum)
  BY NamesAssumption
<1> HIDE DEF d
<1>4. \A k \in 1..Len(d) : d[k] \in Alnum
  BY <1>3
<1>5. ASSUME NEW l \in a..(b - 1) PROVE At(s, l) \in Alnum
  <2>1. l - a + 1 \in 1..(b - a) /\ a + (l - a + 1) - 1 = l
    BY <1>1
  <2> QED BY <1>2, <1>4, <2>1
<1> QED BY <1>5

\* The ";" of a name, a number and a hexadecimal number.
LEMMA EndsOf ==
    ASSUME NEW s \in Text, NEW start \in 0..Len(s), NEW k
    PROVE  /\ k \in Ends(s, start, Alnum, Len(s)) <=> EndsAt(s, start, Alnum, Len(s), k)
           /\ k \in Ends(s, start, Digit, MaxDec) <=> EndsAt(s, start, Digit, MaxDec, k)
           /\ k \in Ends(s, start, HexDigit, MaxHex) <=> EndsAt(s, start, HexDigit, MaxHex, k)
<1>1. EndMark \notin Alnum /\ EndMark \notin Digit /\ EndMark \notin HexDigit
  BY ClassesAssumption, Zenon DEF EndMark
<1>2. Len(s) \in Nat
  BY DEF Text
<1> QED BY <1>1, <1>2, EndsIs, LimitsAssumption

\* The look-ahead of the decoder finds a reference if there is one.
LEMMA ReferenceIs ==
    ASSUME NEW s \in Text, NEW i \in 0..(Len(s) - 1), At(s, i) = "&", NEW k
    PROVE  k \in Reference(s, i) <=> RefersAt(s, i, k)
<1> DEFINE N == Len(s)
           Hash == At(s, i + 1) = "#"
           Ex == At(s, i + 2) = "x"
           Named == Slice(s, i + 1, k) \in Names
           Count(a, class, most) == k - a \in 1..most /\ \A l \in a..(k - 1) : At(s, l) \in class
           In == k \in (i + 2)..(N - 1)
           Semi == At(s, k) = EndMark
<1>1. N \in Nat /\ i + 1 \in 0..N
  BY DEF Text
<1>2. RefersAt(s, i, k) <=>
          /\ In /\ Semi
          /\ Named \/ (Hash /\ Count(i + 2, Digit, MaxDec)) \/ (Hash /\ Ex /\ Count(i + 3, HexDigit, MaxHex))
  BY Zenon DEF RefersAt, EndMark
<1>3. ASSUME In, Named
      PROVE  ~Hash /\ \A l \in (i + 1)..(k - 1) : At(s, l) \in Alnum
  <2>1. i + 1 \in 0..N /\ k \in (i + 1)..N /\ i + 1 \in (i + 1)..(k - 1)
    BY <1>1, <1>3
  <2>2. \A l \in (i + 1)..(k - 1) : At(s, l) \in Alnum
    BY <1>3, <2>1, NameAt
  <2>3. At(s, i + 1) \in Alnum
    BY <2>1, <2>2
  <2> QED BY <2>2, <2>3, ClassesAssumption, Zenon
<1>4. ASSUME In, Ex PROVE ~Count(i + 2, Digit, MaxDec)
  <2>1. k - (i + 2) \in 1..MaxDec => i + 2 \in (i + 2)..(k - 1)
    BY <1>1, <1>4
  <2>2. At(s, i + 2) \notin Digit
    BY <1>4, ClassesAssumption, Zenon
  <2> QED BY <2>1, <2>2
<1>5. CASE i + 1 < N /\ Hash /\ i + 2 = N
  <2>1. Reference(s, i) = {}
    <3>1. i + 1 + 1 = N
      BY <1>5
    <3> QED BY <1>5, <3>1 DEF Reference
  <2>2. ~In
    BY <1>1, <1>5
  <2> QED BY <1>2, <2>1, <2>2
<1>6. CASE i + 1 < N /\ Hash /\ i + 2 # N /\ Ex
  <2>1. Reference(s, i) = Ends(s, i + 3, HexDigit, MaxHex)
    <3>1. i + 1 + 1 # N /\ i + 1 + 1 = i + 2 /\ i + 1 + 2 = i + 3
      BY <1>1, <1>6
    <3> QED BY <1>6, <3>1, Zenon DEF Reference
  <2>2. i + 3 \in 0..N
    BY <1>1, <1>6
  <2>3. k \in Reference(s, i) <=> EndsAt(s, i + 3, HexDigit, MaxHex, k)
    BY <2>1, <2>2, EndsOf
  <2>4. EndsAt(s, i + 3, HexDigit, MaxHex, k) <=> In /\ Semi /\ Count(i + 3, HexDigit, MaxHex)
    <3>1. k \in (i + 3 + 1)..(N - 1) /\ k - (i + 3) <= MaxHex <=> In /\ k - (i + 3) \in 1..MaxHex
      BY <1>1, <1>6, LimitsAssumption
    <3> QED BY <3>1, Zenon DEF EndsAt
  <2> HIDE DEF Hash, Ex, Named, Count, In, Semi
  <2> QED BY <1>2, <1>3, <1>4, <1>6, <2>3, <2>4, Zenon
<1>7. CASE i + 1 < N /\ Hash /\ i + 2 # N /\ ~Ex
  <2>1. Reference(s, i) = Ends(s, i + 2, Digit, MaxDec)
    <3>1. i + 1 + 1 # N /\ i + 1 + 1 = i + 2
      BY <1>1, <1>7
    <3> QED BY <1>7, <3>1, Zenon DEF Reference
  <2>2. i + 2 \in 0..N
    BY <1>1, <1>7
  <2>3. k \in Reference(s, i) <=> EndsAt(s, i + 2, Digit, MaxDec, k)
    BY <2>1, <2>2, EndsOf
  <2>4. EndsAt(s, i + 2, Digit, MaxDec, k) <=> In /\ Semi /\ Count(i + 2, Digit, MaxDec)
    <3>1. k \in (i + 2 + 1)..(N - 1) /\ k - (i + 2) <= MaxDec <=> In /\ k - (i + 2) \in 1..MaxDec
      BY <1>1, <1>7, LimitsAssumption
    <3> QED BY <3>1, Zenon DEF EndsAt
  <2> HIDE DEF Hash, Ex, Named, Count, In, Semi
  <2> QED BY <1>2, <1>3, <1>7, <2>3, <2>4, Zenon
<1>8. CASE ~(i + 1 < N /\ Hash)
  <2>1. Reference(s, i) = {l \in Ends(s, i + 1, Alnum, N) : Slice(s, i + 1, l) \in Names}
    BY <1>8, Zenon DEF Reference
  <2>2. k \in Reference(s, i) <=> EndsAt(s, i + 1, Alnum, N, k) /\ Named
    BY <1>1, <2>1, EndsOf
  <2>3. EndsAt(s, i + 1, Alnum, N, k) <=> In /\ Semi /\ \A l \in (i + 1)..(k - 1) : At(s, l) \in Alnum
    <3>1. k \in (i + 1 + 1)..(N - 1) /\ k - (i + 1) <= N <=> In
      BY <1>1
    <3> QED BY <3>1, Zenon DEF EndsAt
  <2>4. In => i + 1 < N
    BY <1>1
  <2> HIDE DEF Hash, Ex, Named, Count, In, Semi
  <2> QED BY <1>2, <1>3, <1>8, <2>2, <2>3, <2>4, Zenon
<1> QED BY <1>5, <1>6, <1>7, <1>8

LEMMA OneReference ==
    ASSUME NEW s, NEW i, NEW j \in Reference(s, i), NEW k \in Reference(s, i)
    PROVE  j = k
<1>1. \A start, class, most : \A a, b \in Ends(s, start, class, most) : a = b
  BY DEF Ends
<1> HIDE DEF Ends
<1> QED BY <1>1 DEF Reference

\* What begins at a place is an escape, the reference the decoder finds, or a plain
\* character.
LEMMA AfterIs ==
    ASSUME NEW s \in Text, NEW i \in 0..(Len(s) - 1)
    PROVE  /\ Escapes(s, i) => After(s, i) = i + 2 /\ Piece(s, i) = Slice(s, i + 1, i + 2)
           /\ At(s, i) = "&" => \A k \in Reference(s, i) :
                  /\ k \in i..(Len(s) - 1)
                  /\ After(s, i) = k + 1 /\ Piece(s, i) = Slice(s, i, k + 1)
           /\ ~Escapes(s, i) /\ (At(s, i) = "&" => Reference(s, i) = {})
              => After(s, i) = i + 1 /\ Piece(s, i) = Slice(s, i, i + 1)
<1> DEFINE N == Len(s)
<1>1. N \in Nat
  BY DEF Text
<1>2. \A j \in (i + 1)..N : j - 1 \in i..(N - 1) /\ (j - 1) + 1 = j
  BY <1>1
<1>3. ASSUME NEW j \in Stops(s, i)
      PROVE  At(s, i) = "&" /\ j - 1 \in Reference(s, i)
  <2>1. j \in (i + 1)..N /\ IsReference(Slice(s, i, j))
    BY DEF Stops
  <2>2. j - 1 \in i..(N - 1) /\ IsReference(Slice(s, i, (j - 1) + 1))
    BY <1>2, <2>1
  <2>3. RefersAt(s, i, j - 1)
    BY <2>2, IsReferenceIs
  <2>4. At(s, i) = "&"
    BY <2>3 DEF RefersAt
  <2> QED BY <2>3, <2>4, ReferenceIs
<1>4. ASSUME At(s, i) = "&", NEW k \in Reference(s, i)
      PROVE  k \in i..(N - 1) /\ k + 1 \in Stops(s, i) /\ \A j \in Stops(s, i) : j = k + 1
  <2>1. RefersAt(s, i, k)
    BY <1>4, ReferenceIs
  <2>2. k \in (i + 2)..(N - 1)
    BY <2>1 DEF RefersAt
  <2>3. k \in i..(N - 1) /\ k + 1 \in (i + 1)..N
    BY <1>1, <2>2
  <2>4. IsReference(Slice(s, i, k + 1))
    BY <2>1, <2>3, IsReferenceIs
  <2>5. ASSUME NEW j \in Stops(s, i) PROVE j = k + 1
    <3>1. j - 1 \in Reference(s, i)
      BY <1>3
    <3>2. j - 1 = k
      BY <1>4, <3>1, OneReference
    <3>3. j \in (i + 1)..N
      BY DEF Stops
    <3> QED BY <1>1, <3>2, <3>3
  <2> QED BY <2>3, <2>4, <2>5 DEF Stops
<1>5. At(s, i) = "&" => ~Escapes(s, i)
  BY DEF Escapes
<1>6. ASSUME Escapes(s, i)
      PROVE  After(s, i) = i + 2 /\ Piece(s, i) = Slice(s, i + 1, i + 2)
  BY <1>6 DEF After, Piece
<1>7. ASSUME At(s, i) = "&", NEW k \in Reference(s, i)
      PROVE  After(s, i) = k + 1 /\ Piece(s, i) = Slice(s, i, k + 1)
  <2>1. (CHOOSE j \in Stops(s, i) : TRUE) = k + 1
    BY <1>4, <1>7
  <2>2. After(s, i) = k + 1
    BY <1>4, <1>5, <1>7, <2>1 DEF After
  <2> QED BY <1>5, <1>7, <2>2 DEF Piece
<1>8. ASSUME ~Escapes(s, i), At(s, i) = "&" => Reference(s, i) = {}
      PROVE  After(s, i) = i + 1 /\ Piece(s, i) = Slice(s, i, i + 1)
  <2>1. Stops(s, i) = {}
    BY <1>3, <1>8
  <2> QED BY <1>8, <2>1 DEF After, Piece
<1> QED BY <1>4, <1>6, <1>7, <1>8, Zenon

-----------------------------------------------------------------------------
(* Plain text.                                                             *)

PlainSlice(s, a, b) == Plain(Slice(s, a, b))

LEMMA PlainIn ==
    ASSUME NEW s \in Text, NEW a \in 0..Len(s), NEW b \in a..Len(s)
    PROVE  /\ PlainSlice(s, a, b) \in Seq(Text)
           /\ Len(PlainSlice(s, a, b)) = b - a
           /\ \A k \in 1..(b - a) : PlainSlice(s, a, b)[k] = <<At(s, a + k - 1)>>
<1> DEFINE d == Slice(s, a, b)
           n == b - a
           q == [k \in 1..n |-> <<d[k]>>]
<1>1. n \in Nat
  BY DEF Text
<1>2. d \in Text /\ Len(d) = n /\ \A k \in 1..n : d[k] = At(s, a + k - 1)
  BY SliceIn
<1>3. PlainSlice(s, a, b) = q
  BY <1>2 DEF PlainSlice, Plain
<1> HIDE DEF d, n
<1>4. \A k \in 1..n : d[k] \in STRING
  BY <1>2 DEF Text
<1>5. \A k \in 1..n : <<d[k]>> \in Text
  BY <1>4 DEF Text
<1>6. q \in [1..n -> Text]
  BY <1>5
<1>7. q \in Seq(Text)
  <2> HIDE DEF q
  <2> QED BY <1>1, <1>6, SeqDef
<1>8. Len(q) = n
  <2>1. DOMAIN q = 1..n
    OBVIOUS
  <2> HIDE DEF q
  <2> QED BY <1>1, <1>7, <2>1, LenProperties
<1>9. \A k \in 1..n : q[k] = <<At(s, a + k - 1)>>
  BY <1>2
<1> HIDE DEF q
<1> QED BY <1>3, <1>7, <1>8, <1>9 DEF n

LEMMA PlainJoins ==
    ASSUME NEW s \in Text, NEW a \in 0..Len(s), NEW b \in a..Len(s), NEW c \in b..Len(s)
    PROVE  PlainSlice(s, a, b) \o PlainSlice(s, b, c) = PlainSlice(s, a, c)
<1> DEFINE u == PlainSlice(s, a, b)
           v == PlainSlice(s, b, c)
           w == PlainSlice(s, a, c)
<1>1. Len(s) \in Nat /\ b \in 0..Len(s) /\ c \in a..Len(s)
  BY DEF Text
<1>2. u \in Seq(Text) /\ Len(u) = b - a /\ \A k \in 1..(b - a) : u[k] = <<At(s, a + k - 1)>>
  BY PlainIn
<1>3. v \in Seq(Text) /\ Len(v) = c - b /\ \A k \in 1..(c - b) : v[k] = <<At(s, b + k - 1)>>
  BY <1>1, PlainIn
<1>4. w \in Seq(Text) /\ Len(w) = c - a /\ \A k \in 1..(c - a) : w[k] = <<At(s, a + k - 1)>>
  BY <1>1, PlainIn
<1> HIDE DEF u, v, w
<1>5. /\ u \o v \in Seq(Text) /\ Len(u \o v) = c - a
      /\ \A k \in 1..(c - a) : (u \o v)[k] = IF k <= Len(u) THEN u[k] ELSE v[k - Len(u)]
  <2>1. /\ u \o v \in Seq(Text)
        /\ Len(u \o v) = Len(u) + Len(v)
        /\ \A k \in 1..(Len(u) + Len(v)) : (u \o v)[k] = IF k <= Len(u) THEN u[k] ELSE v[k - Len(u)]
    BY <1>2, <1>3, ConcatProperties, Zenon
  <2>2. Len(u) + Len(v) = c - a
    BY <1>1, <1>2, <1>3
  <2> QED BY <2>1, <2>2, Zenon
<1>6. \A k \in 1..(c - a) : (u \o v)[k] = w[k]
  <2> SUFFICES ASSUME NEW k \in 1..(c - a) PROVE (u \o v)[k] = w[k]
    OBVIOUS
  <2>1. CASE k <= b - a
    <3>1. k \in 1..(b - a)
      BY <1>1, <2>1
    <3>2. (u \o v)[k] = u[k]
      BY <1>2, <1>5, <2>1
    <3> QED BY <1>2, <1>4, <3>1, <3>2
  <2>2. CASE ~(k <= b - a)
    <3>1. k - (b - a) \in 1..(c - b) /\ b + (k - (b - a)) - 1 = a + k - 1
      BY <1>1, <2>2
    <3>2. (u \o v)[k] = v[k - (b - a)]
      BY <1>2, <1>5, <2>2
    <3>3. v[k - (b - a)] = <<At(s, b + (k - (b - a)) - 1)>>
      BY <1>3, <3>1
    <3> QED BY <1>4, <3>1, <3>2, <3>3
  <2> QED BY <2>1, <2>2
<1>7. u \o v = w
  <2> DEFINE x == u \o v
  <2>1. x \in Seq(Text) /\ Len(x) = Len(w) /\ \A k \in 1..Len(x) : x[k] = w[k]
    BY <1>4, <1>5, <1>6
  <2> HIDE DEF x
  <2>2. x = w
    BY <1>4, <2>1, SeqEqual
  <2> QED BY <2>2 DEF x
<1> QED BY <1>7 DEF u, v, w

LEMMA PlainNone ==
    ASSUME NEW s \in Text, NEW a \in 0..Len(s)
    PROVE  PlainSlice(s, a, a) = <<>>
<1>1. a \in a..Len(s) /\ a - a = 0
  BY DEF Text
<1>2. PlainSlice(s, a, a) \in Seq(Text) /\ Len(PlainSlice(s, a, a)) = 0
  BY <1>1, PlainIn
<1> QED BY <1>2, EmptySeq

LEMMA OneOf ==
    ASSUME NEW S, NEW q \in Seq(S), Len(q) = 1
    PROVE  q = <<q[1]>>
<1> DEFINE r == <<q[1]>>
<1>1. q[1] \in S
  BY ElementOfSeq
<1>2. r \in Seq(S) /\ Len(r) = 1 /\ r[1] = q[1]
  BY <1>1
<1> HIDE DEF r
<1>3. \A k \in 1..Len(q) : q[k] = r[k]
  BY <1>2
<1>4. q = r
  BY <1>2, <1>3, SeqEqual
<1> QED BY <1>4 DEF r

LEMMA PlainOne ==
    ASSUME NEW s \in Text, NEW a \in 0..(Len(s) - 1)
    PROVE  PlainSlice(s, a, a + 1) = <<Slice(s, a, a + 1)>>
<1> DEFINE b == a + 1
           u == PlainSlice(s, a, b)
           d == Slice(s, a, b)
<1>1. a \in 0..Len(s) /\ b \in a..Len(s) /\ b - a = 1 /\ 1 \in 1..1 /\ a + 1 - 1 = a
  BY DEF Text
<1> HIDE DEF b
<1>2. u \in Seq(Text) /\ Len(u) = b - a /\ \A k \in 1..(b - a) : u[k] = <<At(s, a + k - 1)>>
  BY <1>1, PlainIn
<1>3. d \in Text /\ Len(d) = b - a /\ \A k \in 1..(b - a) : d[k] = At(s, a + k - 1)
  BY <1>1, SliceIn
<1> HIDE DEF u, d
<1>4. u[1] = <<d[1]>> /\ Len(u) = 1 /\ Len(d) = 1
  BY <1>1, <1>2, <1>3
<1>5. d = <<d[1]>>
  BY <1>3, <1>4, OneOf DEF Text
<1>6. u = <<u[1]>>
  BY <1>2, <1>4, OneOf
<1> QED BY <1>4, <1>5, <1>6 DEF u, d, b

-----------------------------------------------------------------------------
(* The pieces written, plain and to come, when a step is taken.            *)

Whole(s, said, n, spot) == said \o PlainSlice(s, n, spot) \o Meaning(s)[spot]

\* Sequences and concatenation by other names, which the provers do not look into.
Texts == Seq(Text)
Then(a, b) == a \o b

LEMMA Regroup ==
    ASSUME NEW a \in Texts, NEW b \in Texts, NEW c \in Texts, NEW d \in Texts
    PROVE  Then(Then(a, b), Then(c, d)) = Then(Then(Then(a, b), c), d)
<1> DEFINE x == a \o b
<1>1. x \in Seq(Text)
  BY ConcatProperties DEF Texts
<1> HIDE DEF x
<1>2. (x \o c) \o d = x \o (c \o d)
  BY <1>1, ConcatAssociative DEF Texts
<1> QED BY <1>2 DEF x, Then

LEMMA Reassociate ==
    ASSUME NEW a \in Texts, NEW b \in Texts, NEW c \in Texts
    PROVE  Then(Then(a, b), c) = Then(a, Then(b, c))
BY ConcatAssociative DEF Texts, Then

LEMMA MeaningAt ==
    ASSUME NEW s \in Text, NEW spot \in 0..(Len(s) - 1)
    PROVE  /\ After(s, spot) \in (spot + 1)..Len(s)
           /\ <<Piece(s, spot)>> \in Seq(Text)
           /\ Meaning(s)[After(s, spot)] \in Seq(Text)
           /\ Meaning(s)[spot] = <<Piece(s, spot)>> \o Meaning(s)[After(s, spot)]
<1> DEFINE m == Meaning(s)
<1>1. After(s, spot) \in (spot + 1)..Len(s)
  BY AfterIn
<1>2. <<Piece(s, spot)>> \in Seq(Text)
  BY PieceIn
<1>3. Means(s, 0, m)
  BY MeaningUnfolds
<1> HIDE DEF m
<1>4. After(s, spot) \in 0..Len(s)
  BY <1>1 DEF Text
<1>5. m[After(s, spot)] \in Seq(Text)
  BY <1>3, <1>4 DEF Means
<1>6. m[spot] = <<Piece(s, spot)>> \o m[After(s, spot)]
  BY <1>3 DEF Means
<1> QED BY <1>1, <1>2, <1>5, <1>6 DEF m

PlainAt(s, spot) == After(s, spot) = spot + 1 /\ Piece(s, spot) = Slice(s, spot, spot + 1)

\* A plain character waits.
LEMMA WholeOfPlain ==
    ASSUME NEW s \in Text, NEW said \in Seq(Text), NEW spot \in 0..(Len(s) - 1), NEW n \in 0..spot,
           PlainAt(s, spot)
    PROVE  Whole(s, said, n, spot) = Whole(s, said, n, spot + 1)
<1> DEFINE p == PlainSlice(s, n, spot)
           c == <<Piece(s, spot)>>
           q == PlainSlice(s, n, spot + 1)
           m == Meaning(s)[spot + 1]
<1>1. Len(s) \in Nat
  BY DEF Text
<1>2. c \in Seq(Text) /\ m \in Seq(Text) /\ Meaning(s)[spot] = c \o m
  BY MeaningAt DEF PlainAt
<1>3. p \in Seq(Text)
  <2>1. n \in 0..Len(s) /\ spot \in n..Len(s)
    BY <1>1
  <2> QED BY <2>1, PlainIn
<1>4. c = PlainSlice(s, spot, spot + 1)
  BY PlainOne DEF PlainAt
<1>5. p \o c = q
  <2> DEFINE b == spot + 1
  <2>1. n \in 0..Len(s) /\ spot \in n..Len(s) /\ b \in spot..Len(s)
    BY <1>1
  <2>2. PlainSlice(s, n, spot) \o PlainSlice(s, spot, b) = PlainSlice(s, n, b)
    <3> HIDE DEF b
    <3> QED BY <2>1, PlainJoins
  <2> QED BY <1>4, <2>2
<1> HIDE DEF p, c, q, m
<1>6. (said \o p) \o (c \o m) = ((said \o p) \o c) \o m
  <2>1. said \in Texts /\ p \in Texts /\ c \in Texts /\ m \in Texts
    BY <1>2, <1>3 DEF Texts
  <2>2. Then(Then(said, p), Then(c, m)) = Then(Then(Then(said, p), c), m)
    BY <2>1, Regroup
  <2> QED BY <2>2 DEF Then
<1>7. (said \o p) \o c = said \o (p \o c)
  <2>1. said \in Texts /\ p \in Texts /\ c \in Texts
    BY <1>2, <1>3 DEF Texts
  <2>2. Then(Then(said, p), c) = Then(said, Then(p, c))
    BY <2>1, Reassociate
  <2> QED BY <2>2 DEF Then
<1>8. (said \o p) \o (c \o m) = (said \o q) \o m
  BY <1>5, <1>6, <1>7
<1> QED BY <1>2, <1>8 DEF Whole, p, q, m

\* A piece is written, after what was plain.
LEMMA WholeOfPiece ==
    ASSUME NEW s \in Text, NEW said \in Seq(Text), NEW spot \in 0..(Len(s) - 1), NEW n \in 0..spot
    PROVE  Whole(s, said, n, spot)
               = said \o PlainSlice(s, n, spot) \o <<Piece(s, spot)>> \o Meaning(s)[After(s, spot)]
<1> DEFINE p == PlainSlice(s, n, spot)
           c == <<Piece(s, spot)>>
           m == Meaning(s)[After(s, spot)]
<1>1. Len(s) \in Nat
  BY DEF Text
<1>2. c \in Seq(Text) /\ m \in Seq(Text) /\ Meaning(s)[spot] = c \o m
  BY MeaningAt
<1>3. p \in Seq(Text)
  <2>1. n \in 0..Len(s) /\ spot \in n..Len(s)
    BY <1>1
  <2> QED BY <2>1, PlainIn
<1> HIDE DEF p, c, m
<1>4. (said \o p) \o (c \o m) = ((said \o p) \o c) \o m
  <2>1. said \in Texts /\ p \in Texts /\ c \in Texts /\ m \in Texts
    BY <1>2, <1>3 DEF Texts
  <2>2. Then(Then(said, p), Then(c, m)) = Then(Then(Then(said, p), c), m)
    BY <2>1, Regroup
  <2> QED BY <2>2 DEF Then
<1> QED BY <1>2, <1>4 DEF Whole, p, c, m

LEMMA WholeOfReference ==
    ASSUME NEW s \in Text, NEW said \in Seq(Text), NEW spot \in 0..(Len(s) - 1), NEW n \in 0..spot,
           At(s, spot) = "&", NEW k \in Reference(s, spot)
    PROVE  LET w == said \o PlainSlice(s, n, spot) \o <<Slice(s, spot, k + 1)>> IN
           /\ w \in Seq(Text) /\ k + 1 \in (spot + 1)..Len(s)
           /\ Whole(s, said, n, spot) = Whole(s, w, k + 1, k + 1)
<1> DEFINE b == k + 1
           p == PlainSlice(s, n, spot)
           c == <<Piece(s, spot)>>
           w == said \o p \o c
           m == Meaning(s)[b]
<1>1. k \in spot..(Len(s) - 1) /\ After(s, spot) = k + 1 /\ Piece(s, spot) = Slice(s, spot, k + 1)
  BY AfterIs
<1>2. Len(s) \in Nat /\ n \in 0..Len(s) /\ spot \in n..Len(s) /\ b \in 0..Len(s) /\ b \in (spot + 1)..Len(s)
  BY <1>1 DEF Text
<1>3. c \in Seq(Text) /\ p \in Seq(Text)
  BY <1>2, MeaningAt, PlainIn
<1>4. Whole(s, said, n, spot) = w \o m
  BY <1>1, WholeOfPiece
<1>5. w \in Seq(Text)
  <2> HIDE DEF p, c
  <2>1. said \o p \in Seq(Text)
    BY <1>3, ConcatProperties
  <2> QED BY <1>3, <2>1, ConcatProperties
<1>6. w \o PlainSlice(s, b, b) = w
  <2> HIDE DEF w, b
  <2>1. PlainSlice(s, b, b) = <<>>
    BY <1>2, PlainNone
  <2> QED BY <1>5, <2>1, ConcatEmptySeq
<1>7. Whole(s, w, b, b) = w \o m
  <2> HIDE DEF w, b
  <2> QED BY <1>6 DEF Whole
<1>8. w = said \o PlainSlice(s, n, spot) \o <<Slice(s, spot, k + 1)>>
  BY <1>1
<1> HIDE DEF w, m
<1> QED BY <1>2, <1>4, <1>5, <1>7, <1>8 DEF b

LEMMA WholeOfEscape ==
    ASSUME NEW s \in Text, NEW said \in Seq(Text), NEW spot \in 0..(Len(s) - 1), NEW n \in 0..spot,
           Escapes(s, spot)
    PROVE  LET w == said \o PlainSlice(s, n, spot) IN
           /\ w \in Seq(Text)
           /\ Whole(s, said, n, spot) = Whole(s, w, spot + 1, spot + 2)
<1> DEFINE p == PlainSlice(s, n, spot)
           c == <<Piece(s, spot)>>
<1>1. After(s, spot) = spot + 2 /\ Piece(s, spot) = Slice(s, spot + 1, spot + 2)
  BY AfterIs
<1>2. Len(s) \in Nat /\ n \in 0..Len(s) /\ spot \in n..Len(s) /\ spot + 1 \in 0..(Len(s) - 1)
  BY DEF Text, Escapes
<1>3. p \in Seq(Text)
  BY <1>2, PlainIn
<1>4. c = PlainSlice(s, spot + 1, spot + 2)
  <2> DEFINE b == spot + 1
  <2>1. b \in 0..(Len(s) - 1) /\ b + 1 = spot + 2
    BY <1>2
  <2>2. PlainSlice(s, b, b + 1) = <<Slice(s, b, b + 1)>>
    <3> HIDE DEF b
    <3> QED BY <2>1, PlainOne
  <2> QED BY <1>1, <2>1, <2>2
<1>5. Whole(s, said, n, spot) = said \o p \o c \o Meaning(s)[spot + 2]
  BY <1>1, WholeOfPiece
<1>6. said \o p \in Seq(Text)
  <2> HIDE DEF p
  <2> QED BY <1>3, ConcatProperties
<1> QED BY <1>4, <1>5, <1>6 DEF Whole

-----------------------------------------------------------------------------
(* The decoder.                                                            *)

Frames == [source : Text, n : Nat, i : Nat, out : Seq(Text), escaped : BOOLEAN]

\* The place from which on the decoder owes the meaning: a backslash behind the cursor
\* has not been taken yet.
Settled(f) == IF f.escaped THEN f.i - 1 ELSE f.i

\* The cursors are in order, and a backslash is behind the cursor of an escape.
Ordered(f) ==
    /\ f \in Frames
    /\ f.n <= Settled(f) /\ f.i <= Len(f.source)
    /\ f.escaped => At(f.source, f.i - 1) = "\\"

Saying(f) == Decoded(f.source) = Whole(f.source, f.out, f.n, Settled(f))

DInv ==
    /\ pc \in {"walk", "decode", "done"}
    /\ Ordered(frame)
    /\ pc = "decode" => Saying(frame)

LEMMA NoFrameIs ==
    ASSUME NEW s \in Text
    PROVE  LET f == [NoFrame EXCEPT !.source = s] IN Ordered(f) /\ Saying(f)
<1> DEFINE f == [NoFrame EXCEPT !.source = s]
<1>2. f.source = s /\ f.n = 0 /\ f.i = 0 /\ f.out = <<>> /\ f.escaped = FALSE
  BY DEF NoFrame
<1>3. <<>> \in Seq(Text) /\ <<>> \in Text /\ 0 \in Nat /\ Len(s) \in Nat
  BY DEF Text
<1>4. f \in Frames
  <2>1. NoFrame \in Frames
    <3>1. FALSE \in BOOLEAN
      OBVIOUS
    <3> QED BY <1>3, <3>1, Zenon DEF Frames, NoFrame
  <2> QED BY <2>1, Zenon DEF Frames
<1> HIDE DEF f
<1>5. Settled(f) = 0
  BY <1>2 DEF Settled
<1>6. Ordered(f)
  BY <1>2, <1>3, <1>4, <1>5 DEF Ordered
<1>7. Saying(f)
  <2> DEFINE m == Meaning(s)
  <2>1. Means(s, 0, m)
    BY MeaningUnfolds
  <2> HIDE DEF m
  <2>2. m[0] \in Seq(Text)
    BY <1>3, <2>1 DEF Means
  <2>3. PlainSlice(s, 0, 0) = <<>>
    <3>1. 0 \in 0..Len(s)
      BY <1>3
    <3> QED BY <3>1, PlainNone
  <2>4. <<>> \o <<>> = <<>> /\ <<>> \o m[0] = m[0]
    BY <1>3, <2>2, ConcatEmptySeq
  <2>5. Whole(s, <<>>, 0, 0) = m[0]
    BY <2>3, <2>4 DEF Whole, m
  <2>6. Decoded(s) = m[0]
    BY DEF Decoded, m
  <2> QED BY <1>2, <1>5, <2>5, <2>6 DEF Saying
<1> QED BY <1>6, <1>7 DEF f

\* What a frame is made of.
LEMMA FrameIs ==
    ASSUME NEW f \in Frames
    PROVE  /\ f.source \in Text /\ f.n \in Nat /\ f.i \in Nat /\ f.out \in Seq(Text)
           /\ f.escaped \in BOOLEAN /\ Len(f.source) \in Nat
<1>1. f.source \in Text /\ f.n \in Nat /\ f.i \in Nat /\ f.out \in Seq(Text) /\ f.escaped \in BOOLEAN
  BY Zenon DEF Frames
<1> QED BY <1>1 DEF Text

Stepped(f, g, said, n, i, e) == g = [f EXCEPT !.out = said, !.n = n, !.i = i, !.escaped = e]

Escaped(f, g) ==
    g = [f EXCEPT !.out = f.out \o Plain(Slice(f.source, f.n, f.i - 1)),
                  !.n = f.i, !.i = f.i + 1, !.escaped = FALSE]

Passed(f, g) == g = [f EXCEPT !.i = f.i + 1, !.escaped = At(f.source, f.i) = "\\"]

Referred(f, g, k) ==
    g = [f EXCEPT !.out = f.out \o Plain(Slice(f.source, f.n, f.i)) \o <<Slice(f.source, f.i, k + 1)>>,
                  !.n = k + 1, !.i = k + 1]

\* The frame that a step makes of the fields it changes.
LEMMA FrameOf ==
    ASSUME NEW f \in Frames, NEW said \in Seq(Text), NEW n \in Nat, NEW i \in Nat, NEW e \in BOOLEAN,
           NEW g, Stepped(f, g, said, n, i, e)
    PROVE  /\ g \in Frames
           /\ g.source = f.source /\ g.out = said /\ g.n = n /\ g.i = i /\ g.escaped = e
<1>1. g = [f EXCEPT !.out = said, !.n = n, !.i = i, !.escaped = e]
  BY DEF Stepped
<1>2. g \in Frames
  BY <1>1, Zenon DEF Frames
<1> QED BY <1>1, <1>2, Zenon DEF Frames

\* An escaped character.
LEMMA EscapeKeeps ==
    ASSUME NEW f, Ordered(f), Saying(f), f.i < Len(f.source), f.escaped, At(f.source, f.i) \in Punct,
           NEW g, Escaped(f, g)
    PROVE  Ordered(g) /\ Saying(g)
<1> DEFINE s == f.source
           spot == f.i - 1
           w == f.out \o PlainSlice(s, f.n, spot)
<1>1. f \in Frames /\ f.n <= spot /\ At(s, spot) = "\\" /\ Settled(f) = spot
  BY DEF Ordered, Settled
<1>2. s \in Text /\ f.n \in Nat /\ f.i \in Nat /\ f.out \in Seq(Text) /\ Len(s) \in Nat
  BY <1>1, FrameIs
<1>3. spot \in 0..(Len(s) - 1) /\ f.n \in 0..spot /\ spot + 1 = f.i /\ spot + 2 = f.i + 1
  BY <1>1, <1>2
<1>4. Escapes(s, spot)
  <2>1. spot + 1 < Len(s)
    BY <1>3
  <2>2. At(s, spot + 1) \in Punct
    BY <1>3
  <2> QED BY <1>1, <2>1, <2>2 DEF Escapes
<1>5. w \in Seq(Text) /\ Whole(s, f.out, f.n, spot) = Whole(s, w, f.i, f.i + 1)
  <2> DEFINE said == f.out
             n == f.n
  <2>1. s \in Text /\ said \in Seq(Text) /\ spot \in 0..(Len(s) - 1) /\ n \in 0..spot /\ Escapes(s, spot)
    BY <1>2, <1>3, <1>4
  <2>2. w = said \o PlainSlice(s, n, spot)
    OBVIOUS
  <2> HIDE DEF s, spot, said, n, w
  <2>3. w \in Seq(Text) /\ Whole(s, said, n, spot) = Whole(s, w, spot + 1, spot + 2)
    BY <2>1, <2>2, WholeOfEscape, Zenon
  <2> QED BY <1>3, <2>3 DEF said, n
<1>6. g = [f EXCEPT !.out = w, !.n = f.i, !.i = f.i + 1, !.escaped = FALSE]
  BY DEF PlainSlice, Escaped
<1> HIDE DEF w
<1>7. g \in Frames /\ g.source = s /\ g.out = w /\ g.n = f.i /\ g.i = f.i + 1 /\ g.escaped = FALSE
  <2> DEFINE n == f.i
             i == f.i + 1
             e == FALSE
  <2>1. n \in Nat /\ i \in Nat /\ e \in BOOLEAN /\ w \in Seq(Text)
    BY <1>2, <1>5
  <2>2. Stepped(f, g, w, n, i, e)
    BY <1>6 DEF Stepped
  <2> HIDE DEF n, i, e
  <2>3. g \in Frames /\ g.source = f.source /\ g.out = w /\ g.n = n /\ g.i = i /\ g.escaped = e
    BY <1>1, <2>1, <2>2, FrameOf
  <2> QED BY <2>3 DEF n, i, e
<1> HIDE DEF s, spot
<1>8. Settled(g) = f.i + 1
  BY <1>7 DEF Settled
<1>9. Ordered(g)
  <2>1. f.i <= f.i + 1 /\ f.i + 1 <= Len(s)
    BY <1>2, <1>3 DEF s
  <2>2. g.n <= Settled(g) /\ g.i <= Len(g.source)
    BY <1>7, <1>8, <2>1
  <2> QED BY <1>7, <2>2 DEF Ordered
<1>10. Decoded(s) = Whole(s, f.out, f.n, spot)
  BY <1>1 DEF Saying, s
<1>11. Saying(g)
  BY <1>5, <1>7, <1>8, <1>10 DEF Saying
<1> QED BY <1>9, <1>11

\* A reference.
LEMMA ReferKeeps ==
    ASSUME NEW f, Ordered(f), Saying(f), f.i < Len(f.source), ~f.escaped, At(f.source, f.i) = "&",
           NEW k \in Reference(f.source, f.i),
           NEW g, Referred(f, g, k)
    PROVE  Ordered(g) /\ Saying(g)
<1> DEFINE s == f.source
           spot == f.i
           w == f.out \o PlainSlice(s, f.n, spot) \o <<Slice(s, spot, k + 1)>>
<1>1. f \in Frames /\ f.n <= spot /\ Settled(f) = spot
  BY DEF Ordered, Settled
<1>2. s \in Text /\ f.n \in Nat /\ spot \in Nat /\ f.out \in Seq(Text) /\ f.escaped = FALSE /\ Len(s) \in Nat
  BY <1>1, FrameIs
<1>3. spot \in 0..(Len(s) - 1) /\ f.n \in 0..spot
  BY <1>1, <1>2
<1>4. w \in Seq(Text) /\ k + 1 \in (spot + 1)..Len(s) /\ Whole(s, f.out, f.n, spot) = Whole(s, w, k + 1, k + 1)
  <2>1. s \in Text /\ f.out \in Seq(Text) /\ spot \in 0..(Len(s) - 1) /\ f.n \in 0..spot
        /\ At(s, spot) = "&" /\ k \in Reference(s, spot)
    BY <1>2, <1>3
  <2> HIDE DEF s, spot
  <2> QED BY <2>1, WholeOfReference
<1> DEFINE b == k + 1
<1>5. b \in Nat /\ b <= Len(s)
  BY <1>2, <1>4
<1>6. g = [f EXCEPT !.out = w, !.n = b, !.i = b, !.escaped = FALSE]
  <2>1. g = [f EXCEPT !.out = w, !.n = b, !.i = b]
    BY DEF PlainSlice, Referred
  <2> HIDE DEF w, b
  <2> QED BY <1>1, <1>2, <2>1 DEF Frames
<1> HIDE DEF w, b
<1>7. g \in Frames /\ g.source = s /\ g.out = w /\ g.n = b /\ g.i = b /\ g.escaped = FALSE
  <2> DEFINE e == FALSE
  <2>1. w \in Seq(Text) /\ e \in BOOLEAN
    BY <1>4
  <2>2. Stepped(f, g, w, b, b, e)
    BY <1>6 DEF Stepped
  <2> HIDE DEF e
  <2>3. g \in Frames /\ g.source = f.source /\ g.out = w /\ g.n = b /\ g.i = b /\ g.escaped = e
    BY <1>1, <1>5, <2>1, <2>2, FrameOf
  <2> QED BY <2>3 DEF e
<1> HIDE DEF s, spot
<1>8. Settled(g) = b
  BY <1>7 DEF Settled
<1>9. Ordered(g)
  BY <1>5, <1>7, <1>8 DEF Ordered
<1>10. Decoded(s) = Whole(s, f.out, f.n, spot)
  BY <1>1 DEF Saying, s
<1>11. Saying(g)
  <2>1. Whole(s, f.out, f.n, spot) = Whole(s, w, b, b)
    BY <1>4 DEF b
  <2> QED BY <1>7, <1>8, <1>10, <2>1 DEF Saying
<1> QED BY <1>9, <1>11

\* Any other character.
LEMMA PassKeeps ==
    ASSUME NEW f, Ordered(f), Saying(f), f.i < Len(f.source),
           ~(f.escaped /\ At(f.source, f.i) \in Punct),
           At(f.source, f.i) = "&" => Reference(f.source, f.i) = {},
           NEW g, Passed(f, g)
    PROVE  Ordered(g) /\ Saying(g)
<1> DEFINE s == f.source
           i == f.i
           said == f.out
           n == f.n
           c == At(s, i)
<1>1. f \in Frames /\ n <= Settled(f) /\ Decoded(s) = Whole(s, said, n, Settled(f))
  BY DEF Ordered, Saying
<1>2. s \in Text /\ n \in Nat /\ i \in Nat /\ said \in Seq(Text) /\ f.escaped \in BOOLEAN /\ Len(s) \in Nat
  BY <1>1, FrameIs
<1>3. i \in 0..(Len(s) - 1)
  BY <1>2
<1>4. c = "\\" => c \in Punct
  BY ClassesAssumption
<1>5. ~(c = "\\") \/ ~f.escaped
  BY <1>4
<1> DEFINE e == c = "\\"
<1>6. /\ g \in Frames /\ g.source = s /\ g.out = said /\ g.n = n /\ g.i = i + 1 /\ (g.escaped <=> e)
  <2>1. g = [f EXCEPT !.i = i + 1, !.escaped = e]
    BY DEF Passed
  <2>2. e \in BOOLEAN /\ i + 1 \in Nat
    BY <1>2
  <2> HIDE DEF e
  <2>3. g \in Frames
    BY <1>1, <2>1, <2>2, Zenon DEF Frames
  <2>4. g.source = s /\ g.out = said /\ g.n = n /\ g.i = i + 1 /\ g.escaped = e
    BY <1>1, <2>1, Zenon DEF Frames
  <2> QED BY <2>3, <2>4, Zenon
<1>7. ASSUME ~e, n <= i
      PROVE  Whole(s, said, n, i) = Whole(s, said, n, i + 1)
  <2>1. ~Escapes(s, i)
    BY <1>7 DEF Escapes
  <2>2. PlainAt(s, i)
    BY <1>2, <1>3, <2>1, AfterIs DEF PlainAt
  <2>3. n \in 0..i
    BY <1>2, <1>7
  <2> HIDE DEF s, i, said, n
  <2> QED BY <1>2, <1>3, <2>2, <2>3, WholeOfPlain
<1>8. ASSUME f.escaped
      PROVE  n <= i /\ Whole(s, said, n, i - 1) = Whole(s, said, n, i)
  <2> DEFINE spot == i - 1
  <2>1. At(s, spot) = "\\" /\ n <= spot
    BY <1>1, <1>8 DEF Ordered, Settled
  <2>2. spot \in 0..(Len(s) - 1) /\ n \in 0..spot /\ spot + 1 = i
    BY <1>2, <1>3, <2>1
  <2>3. At(s, i) \notin Punct
    BY <1>8
  <2> HIDE DEF spot
  <2>4. ~Escapes(s, spot) /\ At(s, spot) # "&"
    BY <2>1, <2>2, <2>3 DEF Escapes
  <2>5. PlainAt(s, spot)
    BY <1>2, <2>2, <2>4, AfterIs DEF PlainAt
  <2>6. Whole(s, said, n, spot) = Whole(s, said, n, spot + 1)
    <3> HIDE DEF s, i, said, n
    <3> QED BY <1>2, <2>2, <2>5, WholeOfPlain
  <2>7. n <= i
    BY <1>2, <2>2
  <2> HIDE DEF s, said, n
  <2> QED BY <2>2, <2>6, <2>7 DEF spot
<1>9. CASE e
  <2>1. ~f.escaped /\ Settled(f) = i
    BY <1>4, <1>5, <1>9 DEF Settled
  <2>2. g.escaped /\ Settled(g) = i /\ At(s, g.i - 1) = "\\"
    <3>1. g.i - 1 = i
      BY <1>2, <1>6
    <3> HIDE DEF s, i
    <3> QED BY <1>6, <1>9, <3>1 DEF Settled
  <2>3. g.n <= Settled(g) /\ g.i <= Len(g.source)
    BY <1>1, <1>2, <1>3, <1>6, <2>1, <2>2
  <2>4. Ordered(g)
    BY <1>6, <2>2, <2>3 DEF Ordered
  <2>5. Saying(g)
    BY <1>1, <1>6, <2>1, <2>2 DEF Saying
  <2> QED BY <2>4, <2>5
<1>10. CASE ~e
  <2>1. n <= i /\ Whole(s, said, n, Settled(f)) = Whole(s, said, n, i)
    <3>1. CASE f.escaped
      <4>1. Settled(f) = i - 1
        BY <3>1 DEF Settled
      <4> QED BY <1>8, <3>1, <4>1
    <3>2. CASE ~f.escaped
      <4>1. Settled(f) = i
        BY <3>2 DEF Settled
      <4> QED BY <1>1, <4>1
    <3> QED BY <3>1, <3>2
  <2>2. ~g.escaped /\ Settled(g) = i + 1
    <3> HIDE DEF s, i
    <3> QED BY <1>6, <1>10 DEF Settled
  <2>3. g.n <= Settled(g) /\ g.i <= Len(g.source)
    BY <1>1, <1>2, <1>3, <1>6, <2>1, <2>2
  <2>4. Ordered(g)
    BY <1>6, <2>2, <2>3 DEF Ordered
  <2>5. Whole(s, said, n, i) = Whole(s, said, n, i + 1)
    BY <1>7, <1>10, <2>1
  <2>6. Saying(g)
    BY <1>1, <1>6, <2>1, <2>2, <2>5 DEF Saying
  <2> QED BY <2>4, <2>6
<1> QED BY <1>9, <1>10

-----------------------------------------------------------------------------
(* The decoder writes what the text means.                                 *)

LEMMA InitDInv == DecodeInit => DInv
<1>1. <<>> \in Text
  BY DEF Text
<1>2. [NoFrame EXCEPT !.source = <<>>] = NoFrame
  BY DEF NoFrame
<1>3. Ordered(NoFrame)
  BY <1>1, <1>2, NoFrameIs
<1> QED BY <1>3 DEF DecodeInit, DInv

LEMMA NextDInv == DInv /\ [DecodeNext]_<<frame, pc>> => DInv'
<1> SUFFICES ASSUME DInv, [DecodeNext]_<<frame, pc>> PROVE DInv'
  OBVIOUS
<1>1. ASSUME NEW segment \in Seq(STRING), Begin(segment) PROVE DInv'
  <2>1. Ordered(frame') /\ Saying(frame') /\ pc' = "decode"
    BY <1>1, NoFrameIs DEF Begin, Text
  <2> QED BY <2>1 DEF DInv
<1>2. CASE Escape
  <2>1. Ordered(frame) /\ Saying(frame) /\ pc = "decode" /\ pc' = pc
    BY <1>2 DEF DInv, Escape
  <2>2. frame.i < Len(frame.source) /\ frame.escaped /\ At(frame.source, frame.i) \in Punct
    BY <1>2 DEF Escape, Limit, Escaping, Char
  <2>3. Escaped(frame, frame')
    BY <1>2 DEF Escape, Escaped
  <2>4. Ordered(frame') /\ Saying(frame')
    BY <2>1, <2>2, <2>3, EscapeKeeps
  <2> QED BY <2>1, <2>4 DEF DInv
<1>3. CASE Refer
  <2>1. Ordered(frame) /\ Saying(frame) /\ pc = "decode" /\ pc' = pc
    BY <1>3 DEF DInv, Refer
  <2>2. frame.i < Len(frame.source) /\ At(frame.source, frame.i) = "&"
    BY <1>3 DEF Refer, Limit, Char
  <2>3. ~frame.escaped
    BY <1>3, ClassesAssumption DEF Refer, Escaping, Char
  <2>4. PICK k \in Reference(frame.source, frame.i) : Referred(frame, frame', k)
    BY <1>3 DEF Refer, Referred
  <2>5. Ordered(frame') /\ Saying(frame')
    BY <2>1, <2>2, <2>3, <2>4, ReferKeeps
  <2> QED BY <2>1, <2>5 DEF DInv
<1>4. CASE Pass
  <2>1. Ordered(frame) /\ Saying(frame) /\ pc = "decode" /\ pc' = pc
    BY <1>4 DEF DInv, Pass
  <2>2. /\ frame.i < Len(frame.source)
        /\ ~(frame.escaped /\ At(frame.source, frame.i) \in Punct)
        /\ At(frame.source, frame.i) = "&" => Reference(frame.source, frame.i) = {}
    BY <1>4 DEF Pass, Limit, Escaping, Char
  <2>3. Passed(frame, frame')
    BY <1>4 DEF Pass, Passed, Char
  <2>4. Ordered(frame') /\ Saying(frame')
    BY <2>1, <2>2, <2>3, PassKeeps
  <2> QED BY <2>1, <2>4 DEF DInv
<1>5. CASE End
  <2>1. <<>> \in Text /\ [NoFrame EXCEPT !.source = <<>>] = NoFrame
    BY DEF Text, NoFrame
  <2>2. Ordered(frame') /\ pc' = "walk"
    BY <1>5, <2>1, NoFrameIs DEF End
  <2> QED BY <2>2 DEF DInv
<1>6. CASE Elsewhere
  BY <1>6 DEF DInv, Elsewhere
<1>7. CASE UNCHANGED <<frame, pc>>
  BY <1>7 DEF DInv
<1> QED BY <1>1, <1>2, <1>3, <1>4, <1>5, <1>6, <1>7 DEF DecodeNext

LEMMA DecodeDInv == DecodeSpec => []DInv
BY InitDInv, NextDInv, PTL DEF DecodeSpec

LEMMA DInvCursors == DInv => CursorsOK
<1> SUFFICES ASSUME DInv PROVE CursorsOK
  OBVIOUS
<1>1. frame \in Frames /\ frame.n <= Settled(frame) /\ frame.i <= Len(frame.source)
  BY DEF DInv, Ordered
<1>2. frame.n \in Nat /\ frame.i \in Nat
  BY <1>1, FrameIs
<1>3. Settled(frame) <= frame.i
  BY <1>2 DEF Settled
<1>4. frame.n <= frame.i
  <2>1. Settled(frame) \in Int
    BY <1>2 DEF Settled
  <2> QED BY <1>1, <1>2, <1>3, <2>1
<1> QED BY <1>1, <1>2, <1>4 DEF DInv, CursorsOK, Limit

LEMMA DInvSoFar == DInv => DecodedSoFar
BY DEF DInv, Saying, Whole, PlainSlice, Settled, DecodedSoFar

\* The decoder has come to the end of its text and has what the text means.
AllDecoded == pc = "decode" /\ frame.i = Limit => Written = Decoded(frame.source)

LEMMA DInvDecoded == DInv => AllDecoded
<1> SUFFICES ASSUME DInv, pc = "decode", frame.i = Limit PROVE Written = Decoded(frame.source)
  BY DEF AllDecoded
<1> DEFINE s == frame.source
           said == frame.out
           n == frame.n
           N == Len(s)
<1>1. Ordered(frame) /\ Saying(frame) /\ frame \in Frames
  BY DEF DInv, Ordered
<1>2. s \in Text /\ n \in Nat /\ N \in Nat /\ said \in Seq(Text) /\ frame.escaped \in BOOLEAN /\ frame.i = N
  BY <1>1, FrameIs DEF Limit
<1>3. Decoded(s) = Whole(s, said, n, Settled(frame)) /\ n <= Settled(frame)
  BY <1>1 DEF Saying, Ordered
<1>4. n <= N /\ Whole(s, said, n, Settled(frame)) = Whole(s, said, n, N)
  <2>1. CASE frame.escaped
    <3> DEFINE spot == N - 1
    <3>1. Settled(frame) = spot /\ At(s, spot) = "\\"
      BY <1>1, <1>2, <2>1 DEF Settled, Ordered
    <3>2. spot \in 0..(N - 1) /\ n \in 0..spot /\ spot + 1 = N /\ n <= N
      BY <1>2, <1>3, <3>1
    <3> HIDE DEF spot
    <3>3. ~Escapes(s, spot) /\ At(s, spot) # "&"
      <4>1. ~(spot + 1 < Len(s))
        BY <1>2, <3>2
      <4> QED BY <3>1, <4>1 DEF Escapes
    <3>4. PlainAt(s, spot)
      BY <1>2, <3>2, <3>3, AfterIs DEF PlainAt
    <3>5. Whole(s, said, n, spot) = Whole(s, said, n, spot + 1)
      <4>1. spot \in 0..(Len(s) - 1)
        BY <3>2
      <4> HIDE DEF s, said, n, N
      <4> QED BY <1>2, <3>2, <3>4, <4>1, WholeOfPlain
    <3> HIDE DEF s, said, n, N
    <3> QED BY <3>1, <3>2, <3>5
  <2>2. CASE ~frame.escaped
    BY <1>2, <1>3, <2>2 DEF Settled
  <2> QED BY <2>1, <2>2
<1>5. Meaning(s)[N] = <<>>
  BY <1>2, MeaningUnfolds DEF Means
<1>6. PlainSlice(s, n, N) \in Seq(Text)
  <2>1. n \in 0..Len(s) /\ N \in n..Len(s)
    BY <1>2, <1>4
  <2> QED BY <1>2, <2>1, PlainIn
<1> DEFINE w == said \o PlainSlice(s, n, N)
<1>7. w \in Seq(Text)
  <2> HIDE DEF s, said, n, N
  <2> QED BY <1>2, <1>6, ConcatProperties
<1>8. Whole(s, said, n, N) = w
  <2>1. w \o <<>> = w
    <3> HIDE DEF w
    <3> QED BY <1>7, ConcatEmptySeq
  <2> HIDE DEF s, said, n, N
  <2> QED BY <1>5, <2>1 DEF Whole
<1>9. Written = w
  BY DEF Written, PlainSlice, Limit
<1> HIDE DEF s, said, n, N, w
<1>10. Decoded(s) = Written
  BY <1>3, <1>4, <1>8, <1>9
<1> QED BY <1>10 DEF s

\* The cursors of the decoder stay in its text, in order: it never reads past the end
\* and never writes what it has written.
THEOREM CursorsInvariance == DecodeSpec => []CursorsOK
BY DInvCursors, DecodeDInv, PTL

\* At every byte of every text, what the decoder has written, what it keeps back as
\* plain and what the rest of the text means are together what the text means.
THEOREM DecodedInvariance == DecodeSpec => []DecodedSoFar
BY DInvSoFar, DecodeDInv, PTL

\* At the end of a text, what is written is what the text means, whatever jumps the
\* cursor made: decodeText returns the decoded text.
THEOREM TextIsDecoded == DecodeSpec => []AllDecoded
BY DInvDecoded, DecodeDInv, PTL

-----------------------------------------------------------------------------
(* Sequences of texts one after the other.                                 *)

\* Texts, and the ends of lines.
Pieces == Text \cup {<<Newline>>, <<"br">>}
Prose == Seq(Pieces)

\* Joining prose is associative, and what is empty adds nothing.
LEMMA ThenIs ==
    ASSUME NEW a \in Prose, NEW b \in Prose, NEW c \in Prose
    PROVE  /\ Then(a, b) \in Prose
           /\ Then(a, Then(b, c)) = Then(Then(a, b), c)
           /\ Then(a, <<>>) = a /\ Then(<<>>, a) = a /\ <<>> \in Prose
<1>1. a \in Seq(Pieces) /\ b \in Seq(Pieces) /\ c \in Seq(Pieces)
  BY DEF Prose
<1>2. a \o b \in Seq(Pieces)
  BY <1>1, ConcatProperties
<1>3. (a \o b) \o c = a \o (b \o c)
  BY <1>1, ConcatAssociative
<1>4. a \o <<>> = a /\ <<>> \o a = a
  BY <1>1, ConcatEmptySeq
<1>5. <<>> \in Seq(Pieces)
  BY EmptySeq
<1> QED BY <1>2, <1>3, <1>4, <1>5 DEF Then, Prose

\* f has what the texts of s up to every place are together.
Flats(s, f) ==
    /\ f \in [1..Len(s) -> Prose]
    /\ \A i \in 1..Len(s) : f[i] = IF i = 1 THEN s[i] ELSE Then(f[i - 1], s[i])

\* One piece, flattened.
LEMMA FlatsOne ==
    ASSUME NEW s \in Seq(Prose), Len(s) = 1
    PROVE  \E f : Flats(s, f)
<1>1. 1..Len(s) = {1} /\ s[1] \in Prose
  BY ElementOfSeq
<1>2. Flats(s, [i \in 1..Len(s) |-> s[i]])
  BY <1>1 DEF Flats
<1> QED BY <1>2

\* If all but the last of some pieces can be flattened, all can.
LEMMA FlatsMore ==
    ASSUME NEW s \in Seq(Prose), NEW n \in Nat, Len(s) = n + 1, n > 0,
           NEW r \in Seq(Prose), Len(r) = n, \A i \in 1..n : r[i] = s[i],
           NEW g, Flats(r, g)
    PROVE  \E h : Flats(s, h)
<1> DEFINE h == [i \in 1..(n + 1) |-> IF i = n + 1 THEN Then(g[n], s[i]) ELSE g[i]]
<1>1. g \in [1..n -> Prose] /\ \A i \in 1..n : g[i] = IF i = 1 THEN r[i] ELSE Then(g[i - 1], r[i])
  BY DEF Flats
<1>2. n \in 1..n /\ n + 1 \in 1..(n + 1) /\ \A i \in 1..(n + 1) : i = n + 1 \/ i \in 1..n
  OBVIOUS
<1>3. g[n] \in Prose /\ s[n + 1] \in Prose
  BY <1>1, <1>2, ElementOfSeq
<1>4. Then(g[n], s[n + 1]) \in Prose
  BY <1>3, ThenIs
<1>5. h \in [1..(n + 1) -> Prose]
  BY <1>1, <1>2, <1>4
<1>6. ASSUME NEW i \in 1..(n + 1)
      PROVE  h[i] = IF i = 1 THEN s[i] ELSE Then(h[i - 1], s[i])
  <2>1. CASE i = n + 1
    <3>1. h[i] = Then(g[n], s[i]) /\ i # 1 /\ i - 1 = n /\ n \in 1..(n + 1) /\ n # n + 1
      BY <2>1
    <3>2. h[n] = g[n]
      BY <3>1
    <3> HIDE DEF h
    <3> QED BY <3>1, <3>2
  <2>2. CASE i # n + 1
    <3>1. i \in 1..n
      BY <1>2, <2>2
    <3>2. h[i] = g[i] /\ g[i] = (IF i = 1 THEN s[i] ELSE Then(g[i - 1], s[i]))
      BY <1>1, <2>2, <3>1
    <3>3. CASE i = 1
      BY <3>2, <3>3
    <3>4. CASE i # 1
      <4>1. i - 1 \in 1..(n + 1) /\ i - 1 # n + 1
        BY <3>1, <3>4
      <4>2. h[i - 1] = g[i - 1]
        BY <4>1
      <4> HIDE DEF h
      <4> QED BY <3>2, <3>4, <4>2
    <3> QED BY <3>3, <3>4
  <2> QED BY <2>1, <2>2
<1> HIDE DEF h
<1>7. Flats(s, h)
  BY <1>5, <1>6 DEF Flats
<1> QED BY <1>7

\* The first n elements.
Initial(s, n) == SubSeq(s, 1, n)

\* The first n of a sequence.
LEMMA InitialIs ==
    ASSUME NEW S, NEW s \in Seq(S), NEW n \in 0..Len(s)
    PROVE  /\ Initial(s, n) \in Seq(S) /\ Len(Initial(s, n)) = n
           /\ \A i \in 1..n : Initial(s, n)[i] = s[i]
<1>1. n \in Int /\ n <= Len(s) /\ Len(s) \in Nat /\ \A i \in 1..n : s[i] \in S
  BY LenProperties, ElementOfSeq
<1>2. /\ SubSeq(s, 1, n) \in Seq(S)
      /\ Len(SubSeq(s, 1, n)) = IF 1 <= n THEN n - 1 + 1 ELSE 0
      /\ \A i \in 1..(n - 1 + 1) : SubSeq(s, 1, n)[i] = s[1 + i - 1]
  <2> DEFINE m == 1
  <2>1. m \in Int /\ n \in Int /\ \A i \in m..n : s[i] \in S
    BY <1>1
  <2> HIDE DEF m
  <2>2. /\ SubSeq(s, m, n) \in Seq(S)
        /\ Len(SubSeq(s, m, n)) = IF m <= n THEN n - m + 1 ELSE 0
        /\ \A i \in 1..(n - m + 1) : SubSeq(s, m, n)[i] = s[m + i - 1]
    BY <2>1, SubSeqProperties
  <2> QED BY <2>2 DEF m
<1>3. n - 1 + 1 = n /\ (~(1 <= n) => n = 0) /\ \A i \in 1..n : 1 + i - 1 = i
  BY <1>1
<1> HIDE DEF Initial
<1> QED BY <1>2, <1>3 DEF Initial

\* Pieces can be flattened, however many.
LEMMA FlatsAll ==
    ASSUME NEW s \in Seq(Prose), Len(s) > 0
    PROVE  \E f : Flats(s, f)
<1> DEFINE N == Len(s)
           D == {n \in 0..N : n > 0 /\ ~(\E f : Flats(Initial(s, n), f))}
<1>1. N \in Nat
  BY LenProperties
<1>2. ASSUME D # {} PROVE FALSE
  <2>1. PICK n \in D : \A k \in D : n <= k
    <3>1. D \subseteq 0..N
      OBVIOUS
    <3> HIDE DEF D
    <3> QED BY <1>1, <1>2, <3>1, LeastOf
  <2>2. n \in 0..N /\ n > 0 /\ ~(\E f : Flats(Initial(s, n), f))
    OBVIOUS
  <2>3. Initial(s, n) \in Seq(Prose) /\ Len(Initial(s, n)) = n /\ \A i \in 1..n : Initial(s, n)[i] = s[i]
    BY <2>2, InitialIs
  <2>4. CASE n = 1
    BY <2>2, <2>3, <2>4, FlatsOne
  <2>5. CASE n # 1
    <3> DEFINE m == n - 1
    <3>1. m \in 0..N /\ m > 0 /\ m \in Nat /\ n = m + 1 /\ ~(n <= m)
      BY <2>2, <2>5
    <3>2. m \notin D
      <4> HIDE DEF D, m
      <4> QED BY <2>1, <3>1
    <3>3. PICK g : Flats(Initial(s, m), g)
      BY <3>1, <3>2
    <3>4. /\ Initial(s, m) \in Seq(Prose) /\ Len(Initial(s, m)) = m
          /\ \A i \in 1..m : Initial(s, m)[i] = s[i]
      BY <3>1, InitialIs
    <3>5. \A i \in 1..m : i \in 1..n
      BY <3>1
    <3> HIDE DEF m, D, N
    <3>6. \E h : Flats(Initial(s, n), h)
      <4> DEFINE r == Initial(s, m)
                 w == Initial(s, n)
      <4>1. \A i \in 1..m : r[i] = w[i]
        BY <2>3, <3>4, <3>5
      <4>2. w \in Seq(Prose) /\ Len(w) = m + 1 /\ r \in Seq(Prose) /\ Len(r) = m /\ Flats(r, g)
        BY <2>3, <3>1, <3>3, <3>4
      <4> HIDE DEF r, w
      <4>3. \E h : Flats(w, h)
        BY <3>1, <4>1, <4>2, FlatsMore
      <4> QED BY <4>3 DEF w
    <3> QED BY <2>2, <3>6
  <2> QED BY <2>4, <2>5
<1>3. N \notin D /\ N \in 0..N
  BY <1>1, <1>2
<1>4. PICK f : Flats(Initial(s, N), f)
  BY <1>3
<1>5. Initial(s, N) = s
  <2>1. /\ Initial(s, N) \in Seq(Prose) /\ Len(Initial(s, N)) = N
        /\ \A i \in 1..N : Initial(s, N)[i] = s[i]
    BY <1>3, InitialIs
  <2> QED BY <2>1, SeqEqual
<1> QED BY <1>4, <1>5

\* Flattening goes from the left: pieces that begin alike flatten alike that far.
LEMMA FlatsAgree ==
    ASSUME NEW s, NEW f, Flats(s, f), NEW r, NEW g, Flats(r, g),
           NEW n \in Nat, n <= Len(s), n <= Len(r), Len(s) \in Nat, Len(r) \in Nat,
           \A i \in 1..n : s[i] = r[i]
    PROVE  \A i \in 1..n : f[i] = g[i]
<1> DEFINE D == {i \in 0..n : i > 0 /\ f[i] # g[i]}
<1>1. ASSUME D # {} PROVE FALSE
  <2>1. PICK i \in D : \A k \in D : i <= k
    <3>1. D \subseteq 0..n
      OBVIOUS
    <3> HIDE DEF D
    <3> QED BY <1>1, <3>1, LeastOf
  <2>2. i \in 1..n /\ i \in 1..Len(s) /\ i \in 1..Len(r) /\ f[i] # g[i]
    OBVIOUS
  <2>3. /\ f[i] = IF i = 1 THEN s[i] ELSE Then(f[i - 1], s[i])
        /\ g[i] = IF i = 1 THEN r[i] ELSE Then(g[i - 1], r[i])
    BY <2>2 DEF Flats
  <2>4. i # 1
    BY <2>2, <2>3
  <2>5. i - 1 \in 0..n /\ i - 1 > 0 /\ ~(i <= i - 1)
    BY <2>2, <2>4
  <2>6. f[i - 1] = g[i - 1]
    BY <2>1, <2>5
  <2> QED BY <2>2, <2>3, <2>4, <2>6
<1> QED BY <1>1

\* FlattenSeq of the community modules is that flattening.
LEMMA FlattenUnfolds ==
    ASSUME NEW s \in Seq(Prose)
    PROVE  /\ Len(s) = 0 => FlattenSeq(s) = <<>>
           /\ Len(s) > 0 => \E f : Flats(s, f) /\ FlattenSeq(s) = f[Len(s)]
<1> DEFINE N == Len(s)
           F(f) == [i \in 1..N |-> IF i = 1 THEN s[i] ELSE f[i - 1] \o s[i]]
<1>1. N \in Nat
  BY LenProperties
<1>2. ASSUME N = 0 PROVE FlattenSeq(s) = <<>>
  <2>1. s = <<>>
    BY <1>2, EmptySeq
  <2> QED BY <1>2, <2>1 DEF FlattenSeq
<1>3. ASSUME N > 0 PROVE \E f : Flats(s, f) /\ FlattenSeq(s) = f[N]
  <2>1. PICK g : Flats(s, g)
    BY <1>3, FlatsAll
  <2>2. g = F(g)
    <3>1. g \in [1..N -> Prose] /\ \A i \in 1..N : g[i] = IF i = 1 THEN s[i] ELSE g[i - 1] \o s[i]
      BY <2>1 DEF Flats, Then
    <3>2. g = [i \in 1..N |-> g[i]]
      BY <3>1
    <3>3. \A i \in 1..N : g[i] = F(g)[i]
      BY <3>1
    <3> QED BY <3>2, <3>3
  <2> DEFINE m == CHOOSE f : f = F(f)
  <2>3. m = F(m)
    <3> HIDE DEF F
    <3> QED BY <2>2
  <2>4. FlattenSeq(s) = m[N]
    BY <1>1, <1>3 DEF FlattenSeq
  <2> HIDE DEF m
  <2>5. /\ DOMAIN m = 1..N
        /\ \A i \in 1..N : m[i] = IF i = 1 THEN s[i] ELSE Then(m[i - 1], s[i])
    BY <2>3 DEF Then
  <2> DEFINE D == {i \in 0..N : i > 0 /\ m[i] \notin Prose}
  <2>6. ASSUME D # {} PROVE FALSE
    <3>1. PICK i \in D : \A k \in D : i <= k
      <4>1. D \subseteq 0..N
        OBVIOUS
      <4> HIDE DEF D
      <4> QED BY <1>1, <2>6, <4>1, LeastOf
    <3>2. i \in 1..N /\ m[i] \notin Prose /\ s[i] \in Prose
      BY ElementOfSeq
    <3>3. i # 1
      BY <2>5, <3>2
    <3>4. i - 1 \in 0..N /\ i - 1 > 0 /\ ~(i <= i - 1)
      BY <3>2, <3>3
    <3>5. m[i - 1] \in Prose
      BY <3>1, <3>4
    <3>6. m[i] = Then(m[i - 1], s[i])
      BY <2>5, <3>2, <3>3
    <3> QED BY <3>2, <3>5, <3>6, ThenIs
  <2>7. \A i \in 1..N : m[i] \in Prose
    <3>1. D = {}
      BY <2>6
    <3> QED BY <1>1, <3>1
  <2>8. Flats(s, m)
    <3>1. m = [i \in 1..N |-> m[i]]
      BY <2>3
    <3> QED BY <2>5, <2>7, <3>1 DEF Flats
  <2> QED BY <2>4, <2>8
<1> QED BY <1>2, <1>3

\* One more text at the end.
LEMMA FlattenAppend ==
    ASSUME NEW s \in Seq(Prose), NEW e \in Prose
    PROVE  FlattenSeq(s) \in Prose /\ FlattenSeq(Append(s, e)) = Then(FlattenSeq(s), e)
<1> DEFINE n == Len(s)
           r == Append(s, e)
<1>1. n \in Nat
  BY LenProperties
<1>2. r \in Seq(Prose) /\ Len(r) = n + 1 /\ r[n + 1] = e /\ \A i \in 1..n : r[i] = s[i]
  BY AppendProperties
<1> HIDE DEF r
<1>3. PICK f : Flats(r, f) /\ FlattenSeq(r) = f[n + 1]
  BY <1>1, <1>2, FlattenUnfolds
<1>4. n + 1 \in 1..(n + 1) /\ f[n + 1] = IF n + 1 = 1 THEN r[n + 1] ELSE Then(f[n + 1 - 1], r[n + 1])
  BY <1>1, <1>2, <1>3 DEF Flats
<1>5. CASE n = 0
  <2>1. FlattenSeq(s) = <<>>
    BY <1>5, FlattenUnfolds
  <2>2. FlattenSeq(r) = e
    BY <1>2, <1>3, <1>4, <1>5
  <2> QED BY <2>1, <2>2, ThenIs DEF r
<1>6. CASE n > 0
  <2>1. PICK g : Flats(s, g) /\ FlattenSeq(s) = g[n]
    BY <1>6, FlattenUnfolds
  <2>2. n \in 1..n /\ g[n] \in Prose
    BY <1>1, <1>6, <2>1 DEF Flats
  <2>3. f[n] = g[n]
    <3>1. n <= Len(s) /\ n <= Len(r) /\ Len(r) \in Nat
      BY <1>1, <1>2
    <3>2. \A i \in 1..n : g[i] = f[i]
      BY <1>1, <1>2, <1>3, <2>1, <3>1, FlatsAgree
    <3> QED BY <2>2, <3>2
  <2>4. n + 1 # 1 /\ n + 1 - 1 = n
    BY <1>1, <1>6
  <2>5. FlattenSeq(r) = Then(g[n], e)
    BY <1>2, <1>3, <1>4, <2>3, <2>4
  <2> QED BY <2>1, <2>2, <2>5 DEF r
<1> QED BY <1>1, <1>5, <1>6

\* Prose in pieces is prose.
LEMMA FlattenIn ==
    ASSUME NEW s \in Seq(Prose)
    PROVE  FlattenSeq(s) \in Prose
<1>1. <<>> \in Prose
  BY DEF Prose
<1> QED BY <1>1, FlattenAppend

\* Nothing is nothing.
LEMMA FlattenNone == FlattenSeq(<<>>) = <<>>
<1>1. <<>> \in Seq(Prose) /\ Len(<<>>) = 0
  BY EmptySeq
<1> QED BY <1>1, FlattenUnfolds

\* A piece more goes to the end.
LEMMA FlattenMore ==
    ASSUME NEW u \in Seq(Prose), NEW v \in Seq(Prose), Len(v) = Len(u) + 1,
           \A i \in 1..Len(u) : v[i] = u[i]
    PROVE  FlattenSeq(v) = Then(FlattenSeq(u), v[Len(u) + 1])
<1> DEFINE n == Len(u)
           e == v[n + 1]
           w == Append(u, e)
<1>1. n \in Nat
  BY LenProperties
<1>2. n + 1 \in 1..Len(v)
  BY <1>1
<1>3. e \in Prose
  BY <1>2, ElementOfSeq
<1> HIDE DEF e
<1>4. w \in Seq(Prose) /\ Len(w) = n + 1 /\ w[n + 1] = e /\ \A i \in 1..n : w[i] = u[i]
  BY <1>3, AppendProperties
<1>5. \A i \in 1..Len(v) : v[i] = w[i]
  <2> HIDE DEF w
  <2>1. \A i \in 1..Len(v) : i = n + 1 \/ i \in 1..n
    BY <1>1
  <2> QED BY <1>4, <2>1 DEF e
<1>6. v = w
  <2> HIDE DEF w
  <2> QED BY <1>4, <1>5, SeqEqual
<1>7. FlattenSeq(w) = Then(FlattenSeq(u), e)
  BY <1>3, FlattenAppend
<1> QED BY <1>6, <1>7 DEF e

\* Pieces and then more pieces.
LEMMA FlattenParts ==
    ASSUME NEW u \in Seq(Prose), NEW v \in Seq(Prose), NEW w \in Seq(Prose), Len(w) = Len(u) + Len(v),
           \A i \in 1..Len(u) : w[i] = u[i],
           \A i \in 1..Len(v) : w[Len(u) + i] = v[i]
    PROVE  FlattenSeq(w) = Then(FlattenSeq(u), FlattenSeq(v))
<1> DEFINE m == Len(u)
           n == Len(v)
           Part(k) == FlattenSeq(Initial(w, m + k)) = Then(FlattenSeq(u), FlattenSeq(Initial(v, k)))
           D == {k \in 0..n : ~Part(k)}
<1>1. m \in Nat /\ n \in Nat
  BY LenProperties
<1>2. ASSUME D # {} PROVE FALSE
  <2>1. PICK k \in D : \A l \in D : k <= l
    <3>1. D \subseteq 0..n
      OBVIOUS
    <3> HIDE DEF D
    <3> QED BY <1>1, <1>2, <3>1, LeastOf
  <2>2. k \in 0..n /\ ~Part(k) /\ m + k \in 0..Len(w)
    BY <1>1
  <2>3. /\ Initial(w, m + k) \in Seq(Prose) /\ Len(Initial(w, m + k)) = m + k
        /\ \A i \in 1..(m + k) : Initial(w, m + k)[i] = w[i]
    BY <2>2, InitialIs
  <2>4. Initial(v, k) \in Seq(Prose) /\ Len(Initial(v, k)) = k /\ \A i \in 1..k : Initial(v, k)[i] = v[i]
    BY <2>2, InitialIs
  <2>5. CASE k = 0
    <3> DEFINE wk == Initial(w, m + k)
               vk == Initial(v, k)
    <3>1. vk = <<>>
      <4> HIDE DEF vk
      <4> QED BY <2>4, <2>5, EmptySeq DEF vk
    <3>2. wk = u
      <4>1. Len(wk) = Len(u) /\ \A i \in 1..Len(wk) : wk[i] = u[i]
        BY <1>1, <2>3, <2>5
      <4> HIDE DEF wk
      <4> QED BY <2>3, <4>1, SeqEqual DEF wk
    <3>3. FlattenSeq(u) \in Prose
      BY FlattenIn
    <3>4. FlattenSeq(wk) = Then(FlattenSeq(u), FlattenSeq(vk))
      BY <3>1, <3>2, <3>3, FlattenNone, ThenIs
    <3> QED BY <2>2, <3>4
  <2>6. CASE k # 0
    <3> DEFINE l == k - 1
    <3>1. l \in 0..n /\ ~(k <= l) /\ m + l \in 0..Len(w) /\ m + k = (m + l) + 1 /\ k = l + 1
      BY <1>1, <2>2, <2>6
    <3>2. Part(l)
      <4> HIDE DEF l, Part
      <4> QED BY <2>1, <3>1
    <3> DEFINE a == Initial(w, m + l)
               b == Initial(w, m + k)
               c == Initial(v, l)
               d == Initial(v, k)
               x == v[k]
    <3>3. a \in Seq(Prose) /\ Len(a) = m + l /\ \A i \in 1..(m + l) : a[i] = w[i]
      BY <3>1, InitialIs
    <3>4. c \in Seq(Prose) /\ Len(c) = l /\ \A i \in 1..l : c[i] = v[i]
      BY <3>1, InitialIs
    <3>5. FlattenSeq(a) = Then(FlattenSeq(u), FlattenSeq(c))
      BY <3>2
    <3>6. b \in Seq(Prose) /\ Len(b) = Len(a) + 1 /\ (\A i \in 1..Len(a) : b[i] = a[i]) /\ b[Len(a) + 1] = x
      <4>1. \A i \in 1..(m + l) : i \in 1..(m + k)
        BY <1>1, <3>1
      <4>2. m + k \in 1..(m + k) /\ k \in 1..n
        BY <1>1, <2>2, <2>6
      <4> HIDE DEF a, b, l
      <4> QED BY <2>3, <3>1, <3>3, <4>1, <4>2 DEF b
    <3>7. d \in Seq(Prose) /\ Len(d) = Len(c) + 1 /\ (\A i \in 1..Len(c) : d[i] = c[i]) /\ d[Len(c) + 1] = x
      <4>1. (\A i \in 1..l : i \in 1..k) /\ k \in 1..k
        BY <3>1, <2>2
      <4> HIDE DEF c, d, l
      <4> QED BY <2>4, <3>1, <3>4, <4>1 DEF d
    <3>8. ~(FlattenSeq(b) = Then(FlattenSeq(u), FlattenSeq(d)))
      BY <2>2
    <3> HIDE DEF a, b, c, d
    <3>9. FlattenSeq(b) = Then(FlattenSeq(a), x)
      BY <3>3, <3>6, FlattenMore
    <3>10. FlattenSeq(d) = Then(FlattenSeq(c), x)
      BY <3>4, <3>7, FlattenMore
    <3>11. FlattenSeq(u) \in Prose /\ FlattenSeq(c) \in Prose /\ x \in Prose
      <4>1. k \in 1..Len(v)
        BY <1>1, <2>2, <2>6
      <4> QED BY <3>4, <4>1, FlattenIn, ElementOfSeq
    <3> HIDE DEF x
    <3> QED BY <3>5, <3>8, <3>9, <3>10, <3>11, ThenIs
  <2> QED BY <2>5, <2>6
<1>3. Part(n)
  BY <1>1, <1>2
<1>4. Initial(w, m + n) = w
  <2>1. m + n \in 0..Len(w) /\ m + n = Len(w)
    BY <1>1
  <2>2. /\ Initial(w, m + n) \in Seq(Prose) /\ Len(Initial(w, m + n)) = m + n
        /\ \A i \in 1..(m + n) : Initial(w, m + n)[i] = w[i]
    BY <2>1, InitialIs
  <2> QED BY <2>1, <2>2, SeqEqual
<1>5. Initial(v, n) = v
  <2>1. n \in 0..Len(v)
    BY <1>1
  <2>2. Initial(v, n) \in Seq(Prose) /\ Len(Initial(v, n)) = n /\ \A i \in 1..n : Initial(v, n)[i] = v[i]
    BY <2>1, InitialIs
  <2> QED BY <2>1, <2>2, SeqEqual
<1> QED BY <1>3, <1>4, <1>5

\* Nothing, however often.
LEMMA FlattenBlank ==
    ASSUME NEW s \in Seq(Prose), \A i \in 1..Len(s) : s[i] = <<>>
    PROVE  FlattenSeq(s) = <<>>
<1> DEFINE N == Len(s)
<1>1. N \in Nat
  BY LenProperties
<1>2. CASE N = 0
  BY <1>2, FlattenUnfolds
<1>3. CASE N > 0
  <2>1. PICK f : Flats(s, f) /\ FlattenSeq(s) = f[N]
    BY <1>3, FlattenUnfolds
  <2> DEFINE D == {i \in 0..N : i > 0 /\ f[i] # <<>>}
  <2>2. ASSUME D # {} PROVE FALSE
    <3>1. PICK i \in D : \A k \in D : i <= k
      <4>1. D \subseteq 0..N
        OBVIOUS
      <4> HIDE DEF D
      <4> QED BY <1>1, <2>2, <4>1, LeastOf
    <3>2. i \in 1..N /\ f[i] # <<>> /\ s[i] = <<>>
      OBVIOUS
    <3>3. f[i] = IF i = 1 THEN s[i] ELSE Then(f[i - 1], s[i])
      BY <2>1, <3>2 DEF Flats
    <3>4. i # 1
      BY <3>2, <3>3
    <3>5. i - 1 \in 0..N /\ i - 1 > 0 /\ ~(i <= i - 1)
      BY <3>2, <3>4
    <3>6. f[i - 1] = <<>>
      BY <3>1, <3>5
    <3>7. Then(<<>>, <<>>) = <<>>
      <4>1. <<>> \in Prose
        BY DEF Prose
      <4> QED BY <4>1, ThenIs
    <3> QED BY <3>2, <3>3, <3>4, <3>6, <3>7
  <2>3. N \notin D /\ N \in 0..N
    BY <1>1, <2>2
  <2> QED BY <1>3, <2>1, <2>3
<1> QED BY <1>1, <1>2, <1>3

-----------------------------------------------------------------------------
(* The words of a text.                                                    *)

Shades(s) == [k \in 1..Len(s) |-> IF s[k] = Blank THEN <<>> ELSE <<<<s[k]>>>>]

\* A sequence of one.
LEMMA OneIn ==
    ASSUME NEW S, NEW x \in S
    PROVE  <<x>> \in Seq(S) /\ Len(<<x>>) = 1 /\ <<x>>[1] = x
OBVIOUS

\* The characters of a string that show, one by one.
LEMMA ShadesIs ==
    ASSUME NEW s \in Text
    PROVE  /\ Shades(s) \in Seq(Prose) /\ Len(Shades(s)) = Len(s) /\ Len(s) \in Nat
           /\ \A k \in 1..Len(s) : Shades(s)[k] = IF s[k] = Blank THEN <<>> ELSE <<<<s[k]>>>>
           /\ Inked(s) = FlattenSeq(Shades(s)) /\ Inked(s) \in Prose
<1>1. Len(s) \in Nat /\ DOMAIN s = 1..Len(s) /\ \A k \in 1..Len(s) : s[k] \in STRING
  BY LenProperties, ElementOfSeq DEF Text
<1>2. <<>> \in Prose
  BY EmptySeq DEF Prose
<1>3. \A c \in STRING : <<<<c>>>> \in Prose
  <2>1. \A c \in STRING : <<c>> \in Seq(STRING)
    BY OneIn
  <2>2. \A w \in Pieces : <<w>> \in Seq(Pieces)
    BY OneIn
  <2> QED BY <2>1, <2>2 DEF Prose, Pieces, Text
<1>4. \A k \in 1..Len(s) : (IF s[k] = Blank THEN <<>> ELSE <<<<s[k]>>>>) \in Prose
  BY <1>1, <1>2, <1>3
<1>5. Shades(s) \in [1..Len(s) -> Prose]
  BY <1>4 DEF Shades
<1>6. Shades(s) \in Seq(Prose) /\ Len(Shades(s)) = Len(s)
  BY <1>1, <1>5
<1>7. Inked(s) = FlattenSeq(Shades(s))
  BY <1>1 DEF Inked, Shades
<1>8. \A k \in 1..Len(s) : Shades(s)[k] = IF s[k] = Blank THEN <<>> ELSE <<<<s[k]>>>>
  BY DEF Shades
<1> QED BY <1>1, <1>6, <1>7, <1>8, FlattenIn

\* What shows of two strings in a row.
LEMMA InkedJoins ==
    ASSUME NEW a \in Text, NEW b \in Text, NEW c \in Text, Len(c) = Len(a) + Len(b),
           \A k \in 1..Len(a) : c[k] = a[k], \A k \in 1..Len(b) : c[Len(a) + k] = b[k]
    PROVE  Inked(c) = Then(Inked(a), Inked(b))
<1> DEFINE u == Shades(a)
           v == Shades(b)
           w == Shades(c)
<1>1. /\ u \in Seq(Prose) /\ Len(u) = Len(a) /\ Len(a) \in Nat /\ Inked(a) = FlattenSeq(u)
      /\ \A k \in 1..Len(a) : u[k] = IF a[k] = Blank THEN <<>> ELSE <<<<a[k]>>>>
  BY ShadesIs
<1>2. /\ v \in Seq(Prose) /\ Len(v) = Len(b) /\ Len(b) \in Nat /\ Inked(b) = FlattenSeq(v)
      /\ \A k \in 1..Len(b) : v[k] = IF b[k] = Blank THEN <<>> ELSE <<<<b[k]>>>>
  BY ShadesIs
<1>3. /\ w \in Seq(Prose) /\ Len(w) = Len(c) /\ Inked(c) = FlattenSeq(w)
      /\ \A k \in 1..Len(c) : w[k] = IF c[k] = Blank THEN <<>> ELSE <<<<c[k]>>>>
  BY ShadesIs
<1> HIDE DEF u, v, w
<1>4. /\ \A k \in 1..Len(a) : k \in 1..Len(c)
      /\ \A k \in 1..Len(b) : Len(a) + k \in 1..Len(c)
  BY <1>1, <1>2
<1>5. \A i \in 1..Len(u) : w[i] = u[i]
  BY <1>1, <1>3, <1>4
<1>6. \A i \in 1..Len(v) : w[Len(u) + i] = v[i]
  BY <1>1, <1>2, <1>3, <1>4
<1>7. Len(w) = Len(u) + Len(v)
  BY <1>1, <1>2, <1>3
<1>8. FlattenSeq(w) = Then(FlattenSeq(u), FlattenSeq(v))
  <2>1. u \in Seq(Prose) /\ v \in Seq(Prose) /\ w \in Seq(Prose)
    BY <1>1, <1>2, <1>3
  <2> QED BY <1>5, <1>6, <1>7, <2>1, FlattenParts
<1> QED BY <1>1, <1>2, <1>3, <1>8

\* Nothing shows of blanks.
LEMMA InkedBlank ==
    ASSUME NEW s \in Text, \A k \in 1..Len(s) : s[k] = Blank
    PROVE  Inked(s) = <<>>
<1>1. /\ Shades(s) \in Seq(Prose) /\ Len(Shades(s)) = Len(s) /\ Inked(s) = FlattenSeq(Shades(s))
      /\ \A k \in 1..Len(s) : Shades(s)[k] = IF s[k] = Blank THEN <<>> ELSE <<<<s[k]>>>>
  BY ShadesIs
<1>2. \A k \in 1..Len(Shades(s)) : Shades(s)[k] = <<>>
  BY <1>1
<1> QED BY <1>1, <1>2, FlattenBlank

\* Nor of nothing.
LEMMA InkedNone == Inked(<<>>) = <<>>
<1>1. <<>> \in Text /\ 1..Len(<<>>) = {}
  BY EmptySeq DEF Text
<1> QED BY <1>1, InkedBlank

\* Some numbers up to N have a least and a greatest one.
LEMMA Bounds ==
    ASSUME NEW N \in Nat, NEW D, D \subseteq 1..N, D # {}
    PROVE  (\E m \in D : \A k \in D : m <= k) /\ (\E m \in D : \A k \in D : k <= m)
<1>1. \E m \in D : \A k \in D : m <= k
  <2>1. D \subseteq 0..N
    OBVIOUS
  <2> QED BY <2>1, LeastOf
<1> DEFINE E == {e \in 0..N : N - e \in D}
<1>2. E \subseteq 0..N /\ E # {}
  <2>1. PICK d \in D : d \in 1..N
    OBVIOUS
  <2>2. N - d \in E
    BY <2>1
  <2> QED BY <2>2
<1>3. PICK e \in E : \A k \in E : e <= k
  <2> HIDE DEF E
  <2> QED BY <1>2, LeastOf
<1>4. N - e \in D /\ e \in 0..N
  OBVIOUS
<1>5. ASSUME NEW k \in D PROVE k <= N - e
  <2>1. k \in 1..N /\ N - k \in 0..N /\ N - (N - k) = k
    OBVIOUS
  <2>2. N - k \in E
    BY <2>1
  <2>3. e <= N - k
    BY <1>3, <2>2
  <2> QED BY <1>4, <2>1, <2>3
<1> QED BY <1>1, <1>4, <1>5

\* Characters a to b.
Cut(s, a, b) == SubSeq(s, a, b)

\* A cut of a string.
LEMMA CutIs ==
    ASSUME NEW s \in Text, NEW a \in 1..(Len(s) + 1), NEW b \in (a - 1)..Len(s)
    PROVE  /\ Cut(s, a, b) \in Text /\ Len(Cut(s, a, b)) = b - a + 1
           /\ \A k \in 1..(b - a + 1) : Cut(s, a, b)[k] = s[a + k - 1]
<1>1. Len(s) \in Nat /\ \A k \in a..b : s[k] \in STRING
  BY LenProperties, ElementOfSeq DEF Text
<1>2. /\ SubSeq(s, a, b) \in Seq(STRING)
      /\ Len(SubSeq(s, a, b)) = IF a <= b THEN b - a + 1 ELSE 0
      /\ \A k \in 1..(b - a + 1) : SubSeq(s, a, b)[k] = s[a + k - 1]
  <2>1. a \in Int /\ b \in Int
    BY <1>1
  <2> QED BY <1>1, <2>1, SubSeqProperties
<1>3. ~(a <= b) => b - a + 1 = 0
  BY <1>1
<1> QED BY <1>2, <1>3 DEF Cut, Text

\* The words between two places are those up to a third and those from it on.
LEMMA CutJoins ==
    ASSUME NEW s \in Text, NEW a \in 1..(Len(s) + 1), NEW b \in (a - 1)..Len(s), NEW c \in b..Len(s)
    PROVE  Inked(Cut(s, a, c)) = Then(Inked(Cut(s, a, b)), Inked(Cut(s, b + 1, c)))
<1>1. Len(s) \in Nat
  BY LenProperties DEF Text
<1> DEFINE x == Cut(s, a, b)
           y == Cut(s, b + 1, c)
           z == Cut(s, a, c)
<1>2. x \in Text /\ Len(x) = b - a + 1 /\ \A k \in 1..(b - a + 1) : x[k] = s[a + k - 1]
  BY CutIs
<1>3. y \in Text /\ Len(y) = c - b /\ \A k \in 1..(c - b) : y[k] = s[b + k]
  <2> DEFINE d == b + 1
  <2>1. d \in 1..(Len(s) + 1) /\ c \in (d - 1)..Len(s) /\ c - d + 1 = c - b /\ \A k \in 1..(c - b) : d + k - 1 = b + k
    BY <1>1
  <2>2. /\ Cut(s, d, c) \in Text /\ Len(Cut(s, d, c)) = c - d + 1
        /\ \A k \in 1..(c - d + 1) : Cut(s, d, c)[k] = s[d + k - 1]
    <3> HIDE DEF d
    <3> QED BY <2>1, CutIs
  <2> QED BY <2>1, <2>2
<1>4. z \in Text /\ Len(z) = c - a + 1 /\ \A k \in 1..(c - a + 1) : z[k] = s[a + k - 1]
  <2>1. c \in (a - 1)..Len(s)
    BY <1>1
  <2> QED BY <2>1, CutIs
<1> HIDE DEF x, y, z
<1>5. Len(z) = Len(x) + Len(y)
  BY <1>1, <1>2, <1>3, <1>4
<1>6. \A k \in 1..Len(x) : z[k] = x[k]
  <2>1. \A k \in 1..(b - a + 1) : k \in 1..(c - a + 1)
    BY <1>1
  <2> QED BY <1>2, <1>4, <2>1
<1>7. \A k \in 1..Len(y) : z[Len(x) + k] = y[k]
  <2>1. \A k \in 1..(c - b) : (b - a + 1) + k \in 1..(c - a + 1) /\ a + ((b - a + 1) + k) - 1 = b + k
    BY <1>1
  <2> QED BY <1>2, <1>3, <1>4, <2>1
<1>8. Inked(z) = Then(Inked(x), Inked(y))
  BY <1>2, <1>3, <1>4, <1>5, <1>6, <1>7, InkedJoins
<1> QED BY <1>8 DEF x, y, z

\* Nothing shows of a cut of blanks.
LEMMA CutBlank ==
    ASSUME NEW s \in Text, NEW a \in 1..(Len(s) + 1), NEW b \in (a - 1)..Len(s),
           \A k \in a..b : s[k] = Blank
    PROVE  Inked(Cut(s, a, b)) = <<>>
<1>1. Len(s) \in Nat
  BY LenProperties DEF Text
<1> DEFINE x == Cut(s, a, b)
<1>2. x \in Text /\ Len(x) = b - a + 1 /\ \A k \in 1..(b - a + 1) : x[k] = s[a + k - 1]
  BY CutIs
<1>3. \A k \in 1..(b - a + 1) : a + k - 1 \in a..b
  BY <1>1
<1>4. \A k \in 1..Len(x) : x[k] = Blank
  <2> HIDE DEF x
  <2> QED BY <1>2, <1>3
<1> HIDE DEF x
<1>5. Inked(x) = <<>>
  BY <1>2, <1>4, InkedBlank
<1> QED BY <1>5 DEF x

\* A cut from end to end.
LEMMA CutWhole ==
    ASSUME NEW s \in Text
    PROVE  Cut(s, 1, Len(s)) = s
BY SubSeqFull DEF Text, Cut

\* Trimming leaves the words.
LEMMA SpanWords ==
    ASSUME NEW s \in Text, NEW from \in 1..(Len(s) + 1)
    PROVE  /\ Span(s, Printed(s, from)) \in Text
           /\ Inked(Span(s, Printed(s, from))) = Inked(Cut(s, from, Len(s)))
<1> DEFINE N == Len(s)
           P == Printed(s, from)
<1>1. N \in Nat
  BY LenProperties DEF Text
<1>2. CASE P = {}
  <2>1. \A k \in from..N : s[k] = Blank
    BY <1>2 DEF Printed
  <2>2. N \in (from - 1)..Len(s)
    BY <1>1
  <2>3. Inked(Cut(s, from, N)) = <<>>
    BY <2>1, <2>2, CutBlank
  <2>4. Span(s, P) = <<>>
    BY <1>2 DEF Span
  <2> QED BY <2>3, <2>4, InkedNone, EmptySeq DEF Text
<1>3. CASE P # {}
  <2> DEFINE a == CHOOSE k \in P : \A j \in P : k <= j
             b == CHOOSE k \in P : \A j \in P : j <= k
  <2>1. P \subseteq 1..N
    BY <1>1 DEF Printed
  <2>2. (\E m \in P : \A k \in P : m <= k) /\ (\E m \in P : \A k \in P : k <= m)
    <3> HIDE DEF P
    <3> QED BY <1>1, <1>3, <2>1, Bounds
  <2>3. Span(s, P) = Cut(s, a, b)
    BY <1>3 DEF Span, Cut
  <2>4. a \in P /\ (\A j \in P : a <= j) /\ b \in P /\ (\A j \in P : j <= b)
    <3> HIDE DEF P
    <3>1. a \in P /\ \A j \in P : a <= j
      BY <2>2
    <3>2. b \in P /\ \A j \in P : j <= b
      BY <2>2
    <3> QED BY <3>1, <3>2
  <2> HIDE DEF a, b
  <2>5. a \in from..N /\ b \in a..N
    BY <1>1, <2>4 DEF Printed
  <2>6. \A k \in from..(a - 1) : s[k] = Blank
    BY <1>1, <2>4, <2>5 DEF Printed
  <2>7. \A k \in (b + 1)..N : s[k] = Blank
    BY <1>1, <2>4, <2>5 DEF Printed
  <2>8. Inked(Cut(s, from, a - 1)) = <<>>
    <3>1. a - 1 \in (from - 1)..Len(s)
      BY <1>1, <2>5
    <3> QED BY <2>6, <3>1, CutBlank
  <2>9. Inked(Cut(s, b + 1, N)) = <<>>
    <3>1. b + 1 \in 1..(Len(s) + 1) /\ N \in (b + 1 - 1)..Len(s)
      BY <1>1, <2>5
    <3> QED BY <2>7, <3>1, CutBlank
  <2>10. Cut(s, a, b) \in Text
    <3>1. a \in 1..(Len(s) + 1) /\ b \in (a - 1)..Len(s)
      BY <1>1, <2>5
    <3> QED BY <3>1, CutIs
  <2>11. Inked(Cut(s, from, b)) = Then(Inked(Cut(s, from, a - 1)), Inked(Cut(s, a, b)))
    <3> DEFINE d == a - 1
    <3>1. d \in (from - 1)..Len(s) /\ b \in d..Len(s) /\ d + 1 = a
      BY <1>1, <2>5
    <3> HIDE DEF d
    <3>2. Inked(Cut(s, from, b)) = Then(Inked(Cut(s, from, d)), Inked(Cut(s, d + 1, b)))
      BY <3>1, CutJoins
    <3> QED BY <3>1, <3>2 DEF d
  <2>12. Inked(Cut(s, from, N)) = Then(Inked(Cut(s, from, b)), Inked(Cut(s, b + 1, N)))
    <3>1. b \in (from - 1)..Len(s) /\ N \in b..Len(s)
      BY <1>1, <2>5
    <3> QED BY <3>1, CutJoins
  <2>13. Inked(Cut(s, a, b)) \in Prose
    BY <2>10, ShadesIs
  <2>14. Inked(Cut(s, from, b)) = Inked(Cut(s, a, b))
    BY <2>8, <2>11, <2>13, ThenIs
  <2>15. Inked(Cut(s, from, N)) = Inked(Cut(s, a, b))
    BY <2>9, <2>12, <2>13, <2>14, ThenIs
  <2> QED BY <2>3, <2>10, <2>15
<1> QED BY <1>2, <1>3

-----------------------------------------------------------------------------
(* The nodes of mdast.                                                     *)

Strings == STRING \cup {Unset}

Types == Phrasing \cup Flow \cup {"root", "listItem", "tableRow", "tableCell", "footnoteDefinition"}

Nodes == [type : Types \cup {Unset}, value : Prose, lang : Text, meta : Text, label : Strings,
          identifier : Strings \cup {"f"}, mark : Strings, spread : BOOLEAN, checked : Strings,
          parent : Nat, from : Nat]

\* What a reader sees of a node is the same.
Same(n, m) == n.type = m.type /\ n.value = m.value /\ n.lang = m.lang /\ n.meta = m.meta

\* A bare node.
LEMMA NodeIs == Node \in Nodes /\ Node.value = <<>> /\ Node.lang = <<>> /\ Node.meta = <<>>
<1>1. <<>> \in Prose /\ <<>> \in Text
  BY EmptySeq DEF Prose, Text
<1>2. Unset \in Strings
  BY DEF Strings
<1> QED BY <1>1, <1>2 DEF Node, Nodes

\* A node with a type and no more.
LEMMA TypedIs ==
    ASSUME NEW type \in Types
    PROVE  /\ Typed(type) \in Nodes /\ Typed(type).type = type
           /\ Typed(type).value = <<>> /\ Typed(type).lang = <<>> /\ Typed(type).meta = <<>>
BY NodeIs DEF Typed, Nodes

\* A node with a value.
LEMMA ValuedIs ==
    ASSUME NEW type \in Types, NEW value \in Prose
    PROVE  /\ Valued(type, value) \in Nodes /\ Valued(type, value).type = type
           /\ Valued(type, value).value = value
           /\ Valued(type, value).lang = <<>> /\ Valued(type, value).meta = <<>>
BY NodeIs DEF Valued, Nodes

\* A label changes nothing that is read.
LEMMA LabelledIs ==
    ASSUME NEW n \in Nodes, NEW label \in Strings
    PROVE  /\ Labelled(n, label) \in Nodes /\ Same(Labelled(n, label), n)
           /\ Labelled(n, label).identifier = Identifier(label)
<1>1. Identifier(label) \in Strings \cup {"f"}
  BY DEF Identifier
<1> QED BY <1>1 DEF Labelled, Same, Nodes

\* Nor does the place of a node.
LEMMA PutIs ==
    ASSUME NEW n \in Nodes, NEW p \in Nat, NEW i \in Nat
    PROVE  /\ Put(n, p, i) \in Nodes /\ Same(Put(n, p, i), n)
           /\ Put(n, p, i).parent = p /\ Put(n, p, i).from = i
           /\ Put(n, p, i).identifier = n.identifier /\ Put(n, p, i).spread = n.spread
BY DEF Put, Same, Nodes

\* So the words are the same.
LEMMA WordsSame ==
    ASSUME NEW n, NEW m, Same(n, m)
    PROVE  Words(n) = Words(m)
BY DEF Same, Words

\* The ends of lines are prose.
LEMMA BRIs == BR \in Prose /\ NL \in Prose
<1>1. <<"br">> \in Pieces /\ <<Newline>> \in Pieces
  BY DEF Pieces
<1> QED BY <1>1, OneIn DEF BR, NL, Prose

\* The words of a node.
LEMMA WordsIs ==
    ASSUME NEW n \in Nodes
    PROVE  /\ Words(n) \in Prose
           /\ Words(n) = Then(Then(Then(Inked(n.lang), Inked(n.meta)), n.value), IF n.type = "break" THEN BR ELSE <<>>)
           /\ n.lang = <<>> /\ n.meta = <<>> /\ n.type # "break" => Words(n) = n.value
           /\ n.lang = <<>> /\ n.meta = <<>> /\ n.value = <<>> /\ n.type = "break" => Words(n) = BR
<1> DEFINE end == IF n.type = "break" THEN BR ELSE <<>>
<1>1. n.lang \in Text /\ n.meta \in Text /\ n.value \in Prose
  BY DEF Nodes
<1>2. Inked(n.lang) \in Prose /\ Inked(n.meta) \in Prose
  BY <1>1, ShadesIs
<1>3. <<>> \in Prose
  BY EmptySeq DEF Prose
<1>4. end \in Prose
  BY <1>3, BRIs
<1>5. Words(n) = Then(Then(Then(Inked(n.lang), Inked(n.meta)), n.value), end)
  BY DEF Words, Then
<1>6. Words(n) \in Prose
  <2> DEFINE a == Then(Inked(n.lang), Inked(n.meta))
  <2>1. a \in Prose
    BY <1>2, ThenIs
  <2> HIDE DEF a
  <2>2. Then(a, n.value) \in Prose
    BY <1>1, <2>1, ThenIs
  <2> DEFINE b == Then(a, n.value)
  <2> HIDE DEF b, end
  <2>3. Then(b, end) \in Prose
    BY <1>4, <2>2, ThenIs DEF b
  <2> QED BY <1>5, <2>3 DEF a, b
<1>7. n.lang = <<>> /\ n.meta = <<>> => Words(n) = Then(n.value, end)
  <2>1. Then(<<>>, <<>>) = <<>> /\ Then(<<>>, n.value) = n.value
    BY <1>1, <1>3, ThenIs
  <2> QED BY <1>5, <2>1, InkedNone
<1>8. n.type # "break" => end = <<>> /\ Then(n.value, end) = n.value
  BY <1>1, <1>3, ThenIs
<1>9. n.type = "break" /\ n.value = <<>> => end = BR /\ Then(n.value, end) = BR
  BY BRIs, ThenIs
<1> HIDE DEF end
<1> QED BY <1>5, <1>6, <1>7, <1>8, <1>9 DEF end

-----------------------------------------------------------------------------
(* Fences.                                                                 *)

\* Plain text is prose.
LEMMA PlainProse ==
    ASSUME NEW s \in Text
    PROVE  Plain(s) \in Prose
<1>1. Len(s) \in Nat /\ \A k \in 1..Len(s) : s[k] \in STRING
  BY LenProperties, ElementOfSeq DEF Text
<1>2. \A c \in STRING : <<c>> \in Pieces
  BY OneIn DEF Pieces, Text
<1>3. \A k \in 1..Len(s) : <<s[k]>> \in Pieces
  BY <1>1, <1>2
<1> QED BY <1>1, <1>3 DEF Plain, Prose

\* The lines of a block without the newline at their end.
LEMMA UntrailedIs ==
    ASSUME NEW s \in Text
    PROVE  /\ Untrailed(s) \in Text
           /\ s # <<>> /\ s[Len(s)] = Newline => Len(Untrailed(s)) = Len(s) - 1
           /\ ~(s # <<>> /\ s[Len(s)] = Newline) => Untrailed(s) = s
           /\ \A k \in 1..Len(Untrailed(s)) : Untrailed(s)[k] = s[k]
<1>1. CASE s # <<>> /\ s[Len(s)] = Newline
  <2> DEFINE m == Len(s) - 1
             u == SubSeq(s, 1, m)
  <2>1. Untrailed(s) = u
    BY <1>1 DEF Untrailed
  <2>2. m \in Nat /\ m \in 0..Len(s)
    BY <1>1 DEF Text
  <2> HIDE DEF m
  <2>3. u \in Text /\ Len(u) = m /\ \A k \in 1..m : u[k] = s[k]
    BY <2>2 DEF Text
  <2> QED BY <1>1, <2>1, <2>3 DEF m
<1>2. CASE ~(s # <<>> /\ s[Len(s)] = Newline)
  <2>1. Untrailed(s) = s
    BY <1>2, Zenon DEF Untrailed
  <2> QED BY <1>2, <2>1, Zenon
<1> QED BY <1>1, <1>2, Zenon

\* They are prose.
LEMMA LinesIs ==
    ASSUME NEW n \in SourceNodes
    PROVE  LinesValue(n) \in Prose
<1>1. n.seg \in Text
  BY DEF SourceNodes, Text
<1>2. Untrailed(n.seg) \in Text
  BY <1>1, UntrailedIs
<1> QED BY <1>2, PlainProse DEF LinesValue

\* A sequence with one place left out.
LEMMA RemovedIs ==
    ASSUME NEW s \in Text, NEW p \in 1..Len(s)
    PROVE  /\ RemoveAt(s, p) \in Text /\ Len(RemoveAt(s, p)) = Len(s) - 1
           /\ \A k \in 1..(Len(s) - 1) : RemoveAt(s, p)[k] = IF k < p THEN s[k] ELSE s[k + 1]
<1> DEFINE u == SubSeq(s, 1, p - 1)
           v == SubSeq(s, p + 1, Len(s))
<1>1. Len(s) \in Nat /\ p \in Nat
  BY DEF Text
<1>2. u \in Text /\ Len(u) = p - 1 /\ \A k \in 1..(p - 1) : u[k] = s[k]
  BY <1>1 DEF Text
<1>3. v \in Text /\ Len(v) = Len(s) - p /\ \A k \in 1..(Len(s) - p) : v[k] = s[p + k]
  BY <1>1 DEF Text
<1>4. RemoveAt(s, p) = u \o v
  BY DEF RemoveAt
<1> HIDE DEF u, v
<1>5. u \o v \in Text /\ Len(u \o v) = Len(s) - 1
  <2>1. u \o v \in Text /\ Len(u \o v) = Len(u) + Len(v)
    BY <1>2, <1>3, ConcatProperties DEF Text
  <2>2. Len(u) + Len(v) = Len(s) - 1
    BY <1>1, <1>2, <1>3
  <2> QED BY <2>1, <2>2
<1>6. ASSUME NEW k \in 1..(Len(s) - 1) PROVE (u \o v)[k] = IF k < p THEN s[k] ELSE s[k + 1]
  <2>1. CASE k < p
    <3>1. k \in 1..Len(u)
      BY <1>1, <1>2, <2>1
    <3>2. (u \o v)[k] = u[k]
      BY <1>2, <1>3, <3>1, ConcatProperties DEF Text
    <3> QED BY <1>2, <2>1, <3>1, <3>2
  <2>2. CASE ~(k < p)
    <3>1. k - (p - 1) \in 1..(Len(s) - p) /\ k \in Len(u) + 1..Len(u) + Len(v)
      BY <1>1, <1>2, <1>3, <2>2
    <3>2. (u \o v)[k] = v[k - Len(u)]
      BY <1>2, <1>3, <3>1, ConcatProperties DEF Text
    <3>3. p + (k - (p - 1)) = k + 1
      BY <1>1
    <3> QED BY <1>2, <1>3, <2>2, <3>1, <3>2, <3>3
  <2> QED BY <2>1, <2>2
<1> QED BY <1>4, <1>5, <1>6

\* What the code takes of the lines of a block of HTML.
HtmlLines(n) == Untrailed(Untrailed(n.seg) \o n.closure)

\* These are its lines without the newline that is lost.
LEMMA KeptIs ==
    ASSUME NEW n \in SourceNodes
    PROVE  KeptLines(n) = HtmlLines(n) /\ HtmlLines(n) \in Text
<1> DEFINE s == n.seg
           c == n.closure
           u == Untrailed(s)
           v == u \o c
           w == s \o c
           lines == Untrailed(w)
           b == Untrailed(v)
<1>1. s \in Text /\ c \in Text
  BY DEF SourceNodes, Text
<1>2. KeptLines(n) = LET lost == IF c = <<>> THEN Len(lines) ELSE Len(s)
                     IN  IF lost \in DOMAIN lines /\ lines[lost] = Newline THEN RemoveAt(lines, lost) ELSE lines
  BY DEF KeptLines
<1>3. HtmlLines(n) = b
  BY DEF HtmlLines
<1> HIDE DEF s, c
<1>4. u \in Text
  BY <1>1, UntrailedIs
<1>5. /\ Len(s) \in Nat /\ Len(c) \in Nat /\ Len(u) \in Nat
      /\ w \in Text /\ Len(w) = Len(s) + Len(c)
      /\ v \in Text /\ Len(v) = Len(u) + Len(c)
  BY <1>1, <1>4 DEF Text
<1>6. b \in Text /\ lines \in Text
  BY <1>5, UntrailedIs
<1>7. CASE c = <<>>
  <2>1. v = u /\ w = s
    BY <1>1, <1>4, <1>7 DEF Text
  <2>2. lines = u /\ b = Untrailed(u) /\ b \in Text
    BY <1>6, <2>1
  <2>3. KeptLines(n) = IF Len(u) \in DOMAIN u /\ u[Len(u)] = Newline THEN RemoveAt(u, Len(u)) ELSE u
    BY <1>2, <1>7, <2>2
  <2> HIDE DEF b, lines, u
  <2>4. CASE u # <<>> /\ u[Len(u)] = Newline
    <3>1. Len(u) \in 1..Len(u) /\ DOMAIN u = 1..Len(u)
      BY <1>4, <1>5, <2>4 DEF Text
    <3>2. KeptLines(n) = RemoveAt(u, Len(u))
      BY <2>3, <2>4, <3>1
    <3> DEFINE a == RemoveAt(u, Len(u))
    <3>3. a \in Text /\ Len(a) = Len(u) - 1 /\ \A k \in 1..(Len(u) - 1) : a[k] = u[k]
      <4>1. /\ a \in Text /\ Len(a) = Len(u) - 1
            /\ \A k \in 1..(Len(u) - 1) : a[k] = IF k < Len(u) THEN u[k] ELSE u[k + 1]
        BY <1>4, <3>1, RemovedIs, Zenon
      <4> HIDE DEF a
      <4>2. \A k \in 1..(Len(u) - 1) : k < Len(u)
        BY <1>5
      <4> QED BY <4>1, <4>2
    <3>4. Len(b) = Len(u) - 1 /\ \A k \in 1..Len(b) : b[k] = u[k]
      BY <1>4, <2>2, <2>4, UntrailedIs
    <3> HIDE DEF a
    <3>5. a = b
      BY <2>2, <3>3, <3>4, SeqEqual DEF Text
    <3> QED BY <1>3, <2>2, <3>2, <3>5 DEF a
  <2>5. CASE ~(u # <<>> /\ u[Len(u)] = Newline)
    <3>1. b = u
      BY <1>4, <2>2, <2>5, UntrailedIs
    <3>2. Len(u) \in DOMAIN u => u # <<>>
      BY <1>4 DEF Text
    <3> QED BY <1>3, <2>2, <2>3, <2>5, <3>1, <3>2
  <2> QED BY <2>4, <2>5
<1>8. CASE c # <<>>
  <2>1. Len(c) > 0 /\ w # <<>> /\ v # <<>>
    BY <1>1, <1>5, <1>8 DEF Text
  <2>2. /\ \A k \in 1..Len(s) : w[k] = s[k]
        /\ \A k \in 1..Len(c) : w[Len(s) + k] = c[k]
        /\ \A k \in 1..Len(u) : v[k] = u[k]
        /\ \A k \in 1..Len(c) : v[Len(u) + k] = c[k]
    BY <1>1, <1>4, <1>5 DEF Text
  <2>3. KeptLines(n) = IF Len(s) \in DOMAIN lines /\ lines[Len(s)] = Newline THEN RemoveAt(lines, Len(s)) ELSE lines
    BY <1>2, <1>8
  <2>4. w[Len(w)] = c[Len(c)] /\ v[Len(v)] = c[Len(c)]
    <3>1. Len(c) \in 1..Len(c)
      BY <1>5, <2>1
    <3> QED BY <1>5, <2>2, <3>1
  <2> HIDE DEF v, w
  <2>5. /\ Len(lines) \in Nat /\ DOMAIN lines = 1..Len(lines) /\ Len(lines) >= Len(s)
        /\ \A k \in 1..Len(lines) : lines[k] = w[k]
        /\ Len(b) \in Nat /\ \A k \in 1..Len(b) : b[k] = v[k]
        /\ Len(lines) - Len(s) = Len(b) - Len(u)
        /\ Len(lines) <= Len(s) + Len(c)
    <3>1. DOMAIN lines = 1..Len(lines) /\ Len(lines) \in Nat /\ Len(b) \in Nat
      BY <1>6 DEF Text
    <3>2. CASE c[Len(c)] = Newline
      <4>1. Len(lines) = Len(w) - 1 /\ Len(b) = Len(v) - 1
        BY <1>5, <2>1, <2>4, <3>2, UntrailedIs
      <4>2. /\ \A k \in 1..Len(lines) : lines[k] = w[k]
            /\ \A k \in 1..Len(b) : b[k] = v[k]
        BY <1>5, UntrailedIs
      <4> HIDE DEF b, lines
      <4> QED BY <1>5, <2>1, <3>1, <4>1, <4>2
    <3>3. CASE c[Len(c)] # Newline
      <4>1. lines = w /\ b = v
        BY <1>5, <2>1, <2>4, <3>3, UntrailedIs
      <4> QED BY <1>5, <2>1, <3>1, <4>1
    <3> QED BY <3>2, <3>3
  <2> HIDE DEF b, lines
  <2>6. CASE s # <<>> /\ s[Len(s)] = Newline
    <3>1. Len(u) = Len(s) - 1 /\ \A k \in 1..Len(u) : u[k] = s[k]
      BY <1>1, <2>6, UntrailedIs
    <3>2. Len(s) > 0 /\ Len(s) \in 1..Len(lines) /\ lines[Len(s)] = Newline
      BY <1>1, <1>5, <2>2, <2>5, <2>6, EmptySeq, LenProperties DEF Text
    <3> DEFINE a == RemoveAt(lines, Len(s))
    <3>3. KeptLines(n) = a
      BY <2>3, <2>5, <3>2
    <3>4. /\ a \in Text /\ Len(a) = Len(lines) - 1
          /\ \A k \in 1..(Len(lines) - 1) : a[k] = IF k < Len(s) THEN lines[k] ELSE lines[k + 1]
      BY <1>6, <3>2, RemovedIs
    <3> HIDE DEF a, u
    <3>5. Len(b) = Len(a)
      <4>1. /\ Len(lines) \in Nat /\ Len(b) \in Nat /\ Len(s) \in Nat
            /\ Len(lines) - Len(s) = Len(b) - Len(u) /\ Len(u) = Len(s) - 1
        BY <1>5, <2>5, <3>1
      <4>2. Len(b) = Len(lines) - 1
        BY <4>1
      <4> QED BY <3>4, <4>2
    <3>6. ASSUME NEW k \in 1..Len(b) PROVE a[k] = b[k]
      <4>1. k \in Int /\ k >= 1 /\ k <= Len(b) /\ k \in 1..(Len(lines) - 1)
        BY <2>5, <3>4, <3>5
      <4>2. CASE k < Len(s)
        <5>1. k \in 1..Len(u) /\ k \in 1..Len(s) /\ k \in 1..Len(lines)
          BY <1>5, <2>5, <3>1, <4>1, <4>2
        <5> QED BY <2>2, <2>5, <3>1, <3>4, <4>1, <4>2, <5>1
      <4>3. CASE ~(k < Len(s))
        <5> DEFINE j == k - Len(u)
        <5>1. j \in 1..Len(c) /\ k = Len(u) + j /\ k + 1 = Len(s) + j /\ k + 1 \in 1..Len(lines)
          BY <1>5, <2>5, <3>1, <4>1, <4>3
        <5> HIDE DEF j
        <5>2. a[k] = lines[k + 1] /\ lines[k + 1] = w[k + 1] /\ b[k] = v[k]
          BY <2>5, <3>4, <4>1, <4>3, <5>1
        <5>3. w[k + 1] = c[j] /\ v[k] = c[j]
          BY <2>2, <5>1
        <5> QED BY <5>2, <5>3
      <4> QED BY <4>2, <4>3
    <3>7. a = b
      BY <1>6, <3>4, <3>5, <3>6, SeqEqual DEF Text
    <3> QED BY <1>3, <1>6, <3>3, <3>7
  <2>7. CASE ~(s # <<>> /\ s[Len(s)] = Newline)
    <3>1. u = s
      BY <1>1, <2>7, UntrailedIs
    <3>2. b = lines
      BY <3>1 DEF b, lines, v, w
    <3>3. Len(s) \in DOMAIN lines => s # <<>> /\ lines[Len(s)] = s[Len(s)]
      BY <1>1, <1>5, <2>2, <2>5, EmptySeq
    <3>4. KeptLines(n) = lines
      BY <2>3, <2>7, <3>3
    <3> QED BY <1>3, <1>6, <3>2, <3>4
  <2> QED BY <2>6, <2>7
<1> QED BY <1>7, <1>8

\* So they are prose.
LEMMA HtmlIs ==
    ASSUME NEW n \in SourceNodes
    PROVE  HtmlValue(n) \in Prose /\ HtmlValue(n) = Plain(KeptLines(n))
<1>1. HtmlValue(n) = Plain(HtmlLines(n))
  BY DEF HtmlValue, HtmlLines
<1> QED BY <1>1, KeptIs, PlainProse

\* The language and the rest of a fence have the words of its info string.
LEMMA FencedIs ==
    ASSUME NEW n \in SourceNodes
    PROVE  /\ FencedCode(n) \in Nodes /\ FencedCode(n).type = "code"
           /\ Words(FencedCode(n)) = Inked(n.info) \o LinesValue(n)
<1> DEFINE info == Span(n.info, Printed(n.info, 1))
           gap == {k \in 1..Len(info) : info[k] = Blank}
           cut == CHOOSE k \in gap : \A j \in gap : k <= j
           lang == IF gap = {} THEN info ELSE SubSeq(info, 1, cut - 1)
           meta == IF gap = {} THEN <<>> ELSE Span(info, Printed(info, cut))
           f == FencedCode(n)
<1>1. n.info \in Text
  BY DEF SourceNodes, Text
<1>2. info \in Text /\ Inked(info) = Inked(n.info)
  <2>1. 1 \in 1..(Len(n.info) + 1) /\ Cut(n.info, 1, Len(n.info)) = n.info
    BY <1>1, LenProperties, CutWhole DEF Text
  <2>2. info \in Text /\ Inked(info) = Inked(Cut(n.info, 1, Len(n.info)))
    BY <1>1, <2>1, SpanWords
  <2> QED BY <2>1, <2>2
<1>3. f = [Valued("code", LinesValue(n)) EXCEPT !.lang = lang, !.meta = meta]
  BY DEF FencedCode
<1> HIDE DEF info, f
<1>4. Len(info) \in Nat
  BY <1>2, LenProperties DEF Text
<1>5. lang \in Text /\ meta \in Text /\ Inked(info) = Then(Inked(lang), Inked(meta))
  <2>1. CASE gap = {}
    <3>1. lang = info /\ meta = <<>>
      BY <2>1
    <3>2. <<>> \in Text
      BY EmptySeq DEF Text
    <3>3. Inked(info) \in Prose
      BY <1>2, ShadesIs
    <3>4. Inked(info) = Then(Inked(info), <<>>)
      BY <3>3, ThenIs
    <3> QED BY <1>2, <3>1, <3>2, <3>4, InkedNone
  <2>2. CASE gap # {}
    <3>1. cut \in gap
      <4>1. gap \subseteq 1..Len(info)
        OBVIOUS
      <4> HIDE DEF gap
      <4>2. \E m \in gap : \A k \in gap : m <= k
        BY <1>4, <2>2, <4>1, Bounds
      <4> QED BY <4>2
    <3>2. cut \in 1..Len(info)
      <4> HIDE DEF cut
      <4> QED BY <3>1
    <3>3. lang = Cut(info, 1, cut - 1) /\ meta = Span(info, Printed(info, cut))
      BY <2>2 DEF Cut
    <3> HIDE DEF lang, meta, cut
    <3> DEFINE b == cut - 1
               c == Len(info)
    <3>4. b \in 0..c /\ c \in b..c /\ 1 \in 1..(c + 1) /\ cut \in 1..(c + 1) /\ b + 1 = cut
          /\ b - 1 + 1 = b /\ b \in (1 - 1)..c
      BY <1>4, <3>2
    <3>5. meta \in Text /\ Inked(meta) = Inked(Cut(info, cut, c))
      BY <1>2, <3>3, <3>4, SpanWords
    <3>6. lang \in Text
      <4> HIDE DEF b
      <4>1. Cut(info, 1, b) \in Text
        BY <1>2, <3>4, CutIs
      <4> QED BY <3>3, <4>1 DEF b
    <3>7. Inked(Cut(info, 1, c)) = Then(Inked(Cut(info, 1, b)), Inked(Cut(info, b + 1, c)))
      <4> HIDE DEF b
      <4> QED BY <1>2, <3>4, CutJoins
    <3>8. Cut(info, 1, c) = info
      BY <1>2, CutWhole
    <3> QED BY <3>3, <3>4, <3>5, <3>6, <3>7, <3>8
  <2> QED BY <2>1, <2>2
<1> DEFINE value == LinesValue(n)
<1>6. value \in Prose
  BY LinesIs
<1> HIDE DEF lang, meta, value
<1>7. f \in Nodes /\ f.type = "code" /\ f.value = value /\ f.lang = lang /\ f.meta = meta
  <2> DEFINE v == Valued("code", value)
  <2>1. v \in Nodes /\ v.type = "code" /\ v.value = value
    BY <1>6, ValuedIs DEF Types, Flow
  <2>2. f = [v EXCEPT !.lang = lang, !.meta = meta]
    BY <1>3 DEF value
  <2> HIDE DEF v
  <2> QED BY <1>5, <2>1, <2>2 DEF Nodes
<1>8. Words(f) = Then(Inked(n.info), value)
  <2> DEFINE w == Then(Inked(lang), Inked(meta))
  <2>1. Words(f) = Then(Then(w, value), <<>>)
    BY <1>7, WordsIs
  <2>2. w \in Prose
    BY <1>5, ShadesIs, ThenIs
  <2>3. Then(w, value) \in Prose
    <3> HIDE DEF w
    <3> QED BY <1>6, <2>2, ThenIs
  <2>4. Words(f) = Then(w, value)
    <3> HIDE DEF w
    <3> QED BY <2>1, <2>3, ThenIs
  <2> QED BY <1>2, <1>5, <2>4
<1> QED BY <1>7, <1>8 DEF f, value, Then

-----------------------------------------------------------------------------
(* goldmark's tree.                                                        *)

Good(t) == t \in Seq(SourceNodes) /\ IsTree(t) /\ IsPage(t)

\* What a page of goldmark's is.
LEMMA TreeIs ==
    ASSUME NEW t, Good(t)
    PROVE  /\ Len(t) \in Nat \ {0} /\ DOMAIN t = 1..Len(t)
           /\ t[1].parent = 0 /\ t[1].last = Len(t) /\ t[1].kind = "document"
           /\ \A i \in 1..Len(t) :
                  /\ t[i] \in SourceNodes
                  /\ t[i].last \in i..Len(t)
                  /\ \A j \in i..t[i].last : t[j].last <= t[i].last
                  /\ i < t[i].last => t[i + 1].parent = i
           /\ \A i \in 2..Len(t) :
                  /\ t[i].parent \in 1..(i - 1)
                  /\ i <= t[t[i].parent].last
                  /\ t[i].last < t[t[i].parent].last => t[t[i].last + 1].parent = t[i].parent
                  /\ t[i].kind \in Holds(t[t[i].parent].kind)
<1>1. t \in Seq(SourceNodes)
  BY DEF Good
<1>2. Len(t) \in Nat /\ DOMAIN t = 1..Len(t) /\ \A i \in 1..Len(t) : t[i] \in SourceNodes
  BY <1>1, LenProperties, ElementOfSeq
<1>3. Len(t) # 0
  <2>1. t # <<>>
    BY DEF Good, IsTree
  <2> QED BY <1>1, <2>1, EmptySeq
<1>4. /\ t[1].parent = 0 /\ t[1].last = Len(t)
      /\ \A i \in 1..Len(t) :
             /\ t[i].last \in i..Len(t)
             /\ \A j \in i..t[i].last : t[j].last <= t[i].last
             /\ i < t[i].last => t[i + 1].parent = i
      /\ \A i \in 2..Len(t) :
             /\ t[i].parent \in 1..(i - 1)
             /\ i <= t[t[i].parent].last
             /\ t[i].last < t[t[i].parent].last => t[t[i].last + 1].parent = t[i].parent
  BY <1>2, Zenon DEF Good, IsTree
<1>5. t[1].kind = "document" /\ \A i \in 2..Len(t) : t[i].kind \in Holds(t[t[i].parent].kind)
  BY Zenon DEF Good, IsPage
<1> QED BY <1>2, <1>3, <1>4, <1>5

\* What may hold nothing has nothing below it.
LEMMA LeafEnds ==
    ASSUME NEW t, Good(t), NEW i \in 1..Len(t), Holds(t[i].kind) = {}
    PROVE  t[i].last = i
<1> SUFFICES ASSUME t[i].last # i PROVE FALSE
  OBVIOUS
<1>1. Len(t) \in Nat /\ t[i].last \in i..Len(t) /\ (i < t[i].last => t[i + 1].parent = i)
  BY TreeIs
<1>2. i + 1 \in 2..Len(t) /\ t[i + 1].parent = i
  BY <1>1
<1>3. t[i + 1].kind \in Holds(t[i].kind)
  BY <1>2, TreeIs
<1> QED BY <1>3

\* What holds nothing.
LEMMA LeafKinds ==
    \A kind \in {"text", "string", "checkbox", "autolink", "rawhtml", "footnotelink", "backlink",
                 "rule", "fence", "indented", "htmlblock", "definition", "other"} : Holds(kind) = {}
BY DEF Holds

\* A node that lies below another hangs on it or on one below it.
LEMMA ParentIn ==
    ASSUME NEW t, Good(t), NEW m \in 1..Len(t), NEW i \in (m + 1)..t[m].last
    PROVE  t[i].parent \in m..(i - 1)
<1> DEFINE N == Len(t)
           D == {k \in 0..N : k \in (m + 1)..t[m].last /\ t[k].parent \notin m..(k - 1)}
<1>1. /\ N \in Nat
      /\ \A k \in 1..N : t[k].last \in k..N /\ (k < t[k].last => t[k + 1].parent = k)
      /\ \A k \in 1..N : \A j \in k..t[k].last : t[j].last <= t[k].last
      /\ \A k \in 2..N : t[k].parent \in 1..(k - 1) /\ k <= t[t[k].parent].last
      /\ \A k \in 2..N : t[k].last < t[t[k].parent].last => t[t[k].last + 1].parent = t[k].parent
  BY TreeIs
<1>2. ASSUME D # {} PROVE FALSE
  <2>1. PICK k \in D : \A l \in D : k <= l
    <3>1. D \subseteq 0..N
      OBVIOUS
    <3> HIDE DEF D
    <3> QED BY <1>1, <1>2, <3>1, LeastOf
  <2>2. k \in 2..N /\ k \in (m + 1)..t[m].last /\ t[k].parent \notin m..(k - 1)
    BY <1>1
  <2>3. \A l \in (m + 1)..(k - 1) : t[l].parent \in m..(l - 1)
    <3> SUFFICES ASSUME NEW l \in (m + 1)..(k - 1), t[l].parent \notin m..(l - 1) PROVE FALSE
      OBVIOUS
    <3>1. l \in D
      BY <1>1, <2>2
    <3>2. ~(k <= l)
      BY <2>2
    <3> HIDE DEF D
    <3> QED BY <2>1, <3>1, <3>2
  <2> DEFINE e == k - 1
             Q == {q \in 0..N : q \in (m + 1)..e /\ t[q].last = e}
  <2>4. e \in m..N /\ k = e + 1 /\ e \in 1..N
    BY <1>1, <2>2
  <2>5. t[e].last = e
    <3> SUFFICES ASSUME t[e].last # e PROVE FALSE
      OBVIOUS
    <3> HIDE DEF e
    <3>1. t[e].last \in e..N /\ (e < t[e].last => t[e + 1].parent = e)
      BY <1>1, <2>4
    <3>2. t[k].parent = e
      BY <2>4, <3>1
    <3> QED BY <2>2, <2>4, <3>2
  <2>6. e # m
    BY <2>2, <2>4, <2>5
  <2>7. e \in Q
    BY <2>4, <2>5, <2>6
  <2>8. PICK q \in Q : \A l \in Q : q <= l
    <3>1. Q \subseteq 0..N /\ Q # {}
      BY <2>7
    <3> HIDE DEF Q
    <3> QED BY <1>1, <3>1, LeastOf
  <2>9. q \in (m + 1)..e /\ t[q].last = e /\ q \in 2..N
    BY <2>4
  <2> DEFINE r == t[q].parent
  <2>10. r \in m..(q - 1) /\ r \in 1..N /\ q <= t[r].last
    <3>1. q \in (m + 1)..(k - 1)
      BY <2>4, <2>9
    <3> QED BY <1>1, <2>3, <2>9, <3>1
  <2>11. t[q].last <= t[r].last /\ t[r].last \in r..N
    <3> HIDE DEF r
    <3>1. q \in r..t[r].last
      BY <1>1, <2>9, <2>10
    <3> QED BY <1>1, <2>10, <3>1
  <2>12. CASE t[r].last = e
    <3>1. r # m
      BY <2>2, <2>4, <2>12
    <3>2. r \in Q /\ ~(q <= r)
      BY <2>4, <2>9, <2>10, <2>12, <3>1
    <3> HIDE DEF Q, r
    <3> QED BY <2>8, <3>2
  <2>13. CASE t[r].last # e
    <3>1. t[q].last < t[r].last
      BY <2>9, <2>11, <2>4, <2>13
    <3>2. t[e + 1].parent = r
      BY <1>1, <2>9, <3>1
    <3>3. t[k].parent \in m..(k - 1)
      BY <2>4, <2>9, <2>10, <3>2
    <3> QED BY <2>2, <3>3
  <2> QED BY <2>12, <2>13
<1>3. i \in 0..N /\ D = {}
  BY <1>1, <1>2
<1> QED BY <1>3

\* Below an inline node is nothing else.
LEMMA InlineBelow ==
    ASSUME NEW t, Good(t), NEW i \in 1..Len(t), t[i].kind \in InlineKinds, NEW j \in i..t[i].last
    PROVE  t[j].kind \in InlineKinds
<1> DEFINE N == Len(t)
           D == {k \in 0..N : k \in i..t[i].last /\ t[k].kind \notin InlineKinds}
<1>1. N \in Nat /\ t[i].last \in i..N
  BY TreeIs
<1>2. ASSUME D # {} PROVE FALSE
  <2>1. PICK k \in D : \A l \in D : k <= l
    <3>1. D \subseteq 0..N
      OBVIOUS
    <3> HIDE DEF D
    <3> QED BY <1>1, <1>2, <3>1, LeastOf
  <2>2. k \in i..t[i].last /\ t[k].kind \notin InlineKinds
    OBVIOUS
  <2>3. k # i
    BY <2>2
  <2>4. k \in (i + 1)..t[i].last /\ k \in 2..N
    BY <1>1, <2>2, <2>3
  <2> DEFINE p == t[k].parent
  <2>5. p \in i..(k - 1) /\ t[k].kind \in Holds(t[p].kind)
    BY <2>4, ParentIn, TreeIs
  <2>6. t[p].kind \in InlineKinds
    <3> SUFFICES ASSUME t[p].kind \notin InlineKinds PROVE FALSE
      OBVIOUS
    <3>1. p \in 0..N /\ p \in i..t[i].last /\ ~(k <= p)
      BY <1>1, <2>4, <2>5
    <3>2. p \in D
      BY <3>1
    <3> HIDE DEF D, p
    <3> QED BY <2>1, <3>1, <3>2
  <2>7. \A kind \in InlineKinds : Holds(kind) \subseteq InlineKinds
    BY DEF InlineKinds, Holds
  <2> QED BY <2>2, <2>5, <2>6, <2>7
<1>3. j \in 0..N /\ D = {}
  BY <1>1, <1>2
<1> QED BY <1>3

\* Below a code span is text.
LEMMA CodeBelow ==
    ASSUME NEW t, Good(t), NEW i \in 1..Len(t), t[i].kind = "codespan", NEW j \in (i + 1)..t[i].last
    PROVE  t[j].kind = "text"
<1> DEFINE N == Len(t)
           D == {k \in 0..N : k \in (i + 1)..t[i].last /\ t[k].kind # "text"}
<1>1. N \in Nat /\ t[i].last \in i..N
  BY TreeIs
<1>2. ASSUME D # {} PROVE FALSE
  <2>1. PICK k \in D : \A l \in D : k <= l
    <3>1. D \subseteq 0..N
      OBVIOUS
    <3> HIDE DEF D
    <3> QED BY <1>1, <1>2, <3>1, LeastOf
  <2>2. k \in (i + 1)..t[i].last /\ t[k].kind # "text" /\ k \in 2..N
    BY <1>1
  <2> DEFINE p == t[k].parent
  <2>3. p \in i..(k - 1) /\ t[k].kind \in Holds(t[p].kind)
    BY <2>2, ParentIn, TreeIs
  <2>4. CASE p = i
    <3>1. t[k].kind \in Holds("codespan")
      BY <2>3, <2>4
    <3> QED BY <2>2, <3>1 DEF Holds
  <2>5. CASE p # i
    <3>1. t[p].kind = "text"
      <4> SUFFICES ASSUME t[p].kind # "text" PROVE FALSE
        OBVIOUS
      <4>1. p \in 0..N /\ p \in (i + 1)..t[i].last /\ ~(k <= p)
        BY <1>1, <2>2, <2>3, <2>5
      <4>2. p \in D
        BY <4>1
      <4> HIDE DEF D, p
      <4> QED BY <2>1, <4>1, <4>2
    <3> QED BY <2>3, <3>1, LeafKinds
  <2> QED BY <2>4, <2>5
<1>3. j \in 0..N /\ D = {}
  BY <1>1, <1>2
<1> QED BY <1>3

-----------------------------------------------------------------------------
(* What becomes of the kinds of nodes.                                     *)

Becomes(kind) ==
    CASE kind \in {"document", "footnotes"} -> {"root"}
      [] kind \in {"paragraph", "textblock"} -> {"paragraph"}
      [] kind = "heading" -> {"heading"}
      [] kind = "rule" -> {"thematicBreak"}
      [] kind = "quote" -> {"blockquote"}
      [] kind = "list" -> {"list"}
      [] kind = "item" -> {"listItem"}
      [] kind \in {"fence", "indented"} -> {"code"}
      [] kind \in {"htmlblock", "rawhtml"} -> {"html"}
      [] kind = "definition" -> {"definition"}
      [] kind = "table" -> {"table"}
      [] kind = "row" -> {"tableRow"}
      [] kind = "cell" -> {"tableCell"}
      [] kind = "footnote" -> {"footnoteDefinition"}
      [] kind = "emphasis" -> {"emphasis", "strong"}
      [] kind = "strikethrough" -> {"delete"}
      [] kind = "codespan" -> {"inlineCode"}
      [] kind = "link" -> {"link", "linkReference"}
      [] kind = "autolink" -> {"link"}
      [] kind = "image" -> {"image", "imageReference"}
      [] kind = "footnotelink" -> {"footnoteReference"}
      [] OTHER -> {}

\* What runs of text stand in.
Runs == {"paragraph", "textblock", "heading", "cell", "emphasis", "strikethrough", "link"}

Containers == Walked \cup {"document"}

\* What stands by itself.

AllKinds == InlineKinds \cup BlockKinds \cup {"footnotes", "footnote", "item", "row", "cell"}

\* Inline nodes are held by what runs, footnotes by their list, the list by the page.
LEMMA HoldsIs ==
    /\ \A k : Holds(k) \subseteq AllKinds
    /\ \A k \in Containers : \A l \in Holds(k) : l \in InlineKinds \ {"backlink"} => k \in Runs
    /\ \A k \in Containers : \A l \in Holds(k) : l = "footnotes" => k = "document"
    /\ \A k \in Containers : \A l \in Holds(k) : l = "footnote" => k = "footnotes"
    /\ \A k \in AllKinds : k \notin Walked \cup {"codespan", "image"} => Holds(k) = {}
    /\ \A k \in Runs : k # "footnotes" /\ k \in Walked
<1>1. \A k : Holds(k) \subseteq AllKinds
  BY DEF Holds, AllKinds, InlineKinds
<1>2. \A k \in Containers : \A l \in Holds(k) :
          /\ l \in InlineKinds \ {"backlink"} => k \in Runs
          /\ l = "footnotes" => k = "document"
          /\ l = "footnote" => k = "footnotes"
  <2> SUFFICES ASSUME NEW k \in Containers, NEW l \in Holds(k)
               PROVE  /\ l \in InlineKinds \ {"backlink"} => k \in Runs
                      /\ l = "footnotes" => k = "document"
                      /\ l = "footnote" => k = "footnotes"
    OBVIOUS
  <2>1. ASSUME l \in InlineKinds \ {"backlink"}, k \notin Runs PROVE FALSE
    BY <2>1 DEF Holds, Runs, Containers, Walked, InlineKinds, BlockKinds
  <2>2. ASSUME l = "footnotes" PROVE k = "document"
    BY <2>2 DEF Holds, Runs, Containers, Walked, InlineKinds, BlockKinds
  <2>3. ASSUME l = "footnote" PROVE k = "footnotes"
    BY <2>3 DEF Holds, Runs, Containers, Walked, InlineKinds, BlockKinds
  <2> QED BY <2>1, <2>2, <2>3
<1>3. \A k \in AllKinds : k \notin Walked \cup {"codespan", "image"} => Holds(k) = {}
  BY DEF Holds, AllKinds, Walked, InlineKinds, BlockKinds
<1>4. \A k \in Runs : k # "footnotes" /\ k \in Walked
  BY DEF Runs, Walked
<1> QED BY <1>1, <1>2, <1>3, <1>4

\* What a node becomes fits in what the one it hangs on becomes.
LEMMA Fits ==
    ASSUME NEW k \in Containers, NEW l \in Holds(k), l # "footnotes",
           NEW a \in Becomes(k), NEW b \in Becomes(l)
    PROVE  b \in Content(a)
<1> USE DEF Becomes, Holds, Content, Phrasing, Flow, BlockKinds, InlineKinds
<1>1. CASE k \in {"document", "footnotes"}
  BY <1>1
<1>2. CASE k \in {"quote", "item"}
  BY <1>2
<1>3. CASE k = "footnote"
  BY <1>3
<1>4. CASE k \in {"list", "table", "row"}
  BY <1>4
<1>5. CASE k \in {"paragraph", "textblock", "heading", "cell"}
  BY <1>5
<1>6. CASE k \in {"emphasis", "strikethrough", "link"}
  BY <1>6
<1> QED BY <1>1, <1>2, <1>3, <1>4, <1>5, <1>6 DEF Containers, Walked

\* Where text may be, and what only one kind becomes.
LEMMA TextFits ==
    /\ \A k \in Runs : \A a \in Becomes(k) : {"text", "break"} \subseteq Content(a)
    /\ \A k \in Containers : \A l \in Holds(k) : l \notin InlineKinds => \A a \in Becomes(k) : "text" \notin Content(a)
    /\ \A k : "text" \notin Becomes(k) /\ "break" \notin Becomes(k)
    /\ "text" \in Content("link")
    /\ \A k : "listItem" \in Becomes(k) => k = "item"
    /\ \A k : "footnoteDefinition" \in Becomes(k) => k = "footnote"
    /\ \A k : "footnoteReference" \in Becomes(k) => k = "footnotelink"
    /\ \A k : Becomes(k) \subseteq Types
<1>1. \A k \in Runs : \A a \in Becomes(k) : {"text", "break"} \subseteq Content(a)
  BY DEF Runs, Becomes, Content, Phrasing
<1>2. ASSUME NEW k \in Containers, NEW l \in Holds(k), l \notin InlineKinds, NEW a \in Becomes(k)
      PROVE  "text" \notin Content(a)
  BY <1>2 DEF Containers, Walked, Holds, Becomes, Content, Flow, InlineKinds
<1>3. \A k : "text" \notin Becomes(k) /\ "break" \notin Becomes(k)
  BY DEF Becomes
<1>4. "text" \in Content("link")
  BY DEF Content, Phrasing
<1>5. /\ \A k : "listItem" \in Becomes(k) => k = "item"
      /\ \A k : "footnoteDefinition" \in Becomes(k) => k = "footnote"
      /\ \A k : "footnoteReference" \in Becomes(k) => k = "footnotelink"
  BY DEF Becomes
<1>6. \A k : Becomes(k) \subseteq Types
  BY DEF Becomes, Types, Flow, Phrasing
<1> QED BY <1>1, <1>2, <1>3, <1>4, <1>5, <1>6

-----------------------------------------------------------------------------
(* What is made of one node.                                               *)

\* Block, kind by kind.
LEMMA BlockForms ==
    ASSUME NEW i, NEW p
    PROVE  LET n == input[i]
               One(node) == <<Put(node, p, i)>> IN
           /\ n.kind \in {"paragraph", "textblock"} => Block(i, p) = One(Typed("paragraph"))
           /\ n.kind = "heading" => Block(i, p) = One(Typed("heading"))
           /\ n.kind = "rule" => Block(i, p) = One(Typed("thematicBreak"))
           /\ n.kind = "quote" => Block(i, p) = One(Typed("blockquote"))
           /\ n.kind = "list" => Block(i, p) = One([Typed("list") EXCEPT !.spread = n.mark # "tight"])
           /\ n.kind = "item" =>
                  Block(i, p) = One([Typed("listItem") EXCEPT !.spread = ItemSpread(i), !.checked = TaskChecked(i)])
           /\ n.kind = "fence" => Block(i, p) = One(FencedCode(n))
           /\ n.kind = "indented" => Block(i, p) = One(Valued("code", LinesValue(n)))
           /\ n.kind = "htmlblock" => Block(i, p) = One(Valued("html", HtmlValue(n)))
           /\ n.kind = "definition" => Block(i, p) = One(Labelled(Typed("definition"), n.label))
           /\ n.kind = "table" => Block(i, p) = One(Typed("table"))
           /\ n.kind = "row" => Block(i, p) = One(Typed("tableRow"))
           /\ n.kind = "cell" => Block(i, p) = One(Typed("tableCell"))
           /\ n.kind = "footnote" => Block(i, p) = One(Labelled(Typed("footnoteDefinition"), n.label))
           /\ n.kind \in {"other", "footnotes"} => Block(i, p) = <<>>
BY DEF Block

\* InlineNode, kind by kind.
LEMMA InlineForms ==
    ASSUME NEW i, NEW p, NEW here
    PROVE  LET n == input[i]
               One(node) == <<Put(node, p, i)>> IN
           /\ n.kind = "emphasis" => InlineNode(i, p, here) = One(Typed(IF n.mark = "2" THEN "strong" ELSE "emphasis"))
           /\ n.kind = "strikethrough" => InlineNode(i, p, here) = One(Typed("delete"))
           /\ n.kind = "codespan" => InlineNode(i, p, here) = One(Valued("inlineCode", CodeSpanValue(i)))
           /\ n.kind = "link" =>
                  InlineNode(i, p, here) =
                      One(IF n.label = Unset THEN Typed("link")
                          ELSE [Labelled(Typed("linkReference"), n.label) EXCEPT !.mark = n.mark])
           /\ n.kind = "autolink" =>
                  InlineNode(i, p, here) = One(Typed("link")) \o <<Put(Valued("text", Plain(n.seg)), here, i)>>
           /\ n.kind = "image" =>
                  InlineNode(i, p, here) =
                      One(IF n.label = Unset THEN Valued("image", TextContent(i))
                          ELSE [Labelled(Valued("imageReference", TextContent(i)), n.label) EXCEPT !.mark = n.mark])
           /\ n.kind = "rawhtml" => InlineNode(i, p, here) = One(Valued("html", Plain(n.seg)))
           /\ n.kind = "footnotelink" =>
                  InlineNode(i, p, here) = One(Labelled(Typed("footnoteReference"), FootnoteLabel(n.index)))
           /\ n.kind = "backlink" => InlineNode(i, p, here) = <<>>
BY DEF InlineNode

\* b is made of the node at i, as a child of p, and has these words.
Made(b, i, p, words) ==
    /\ b \in Nodes /\ b.parent = p /\ b.from = i /\ b.type \in Becomes(Kind(i)) /\ Words(b) = words
    /\ b.type = "listItem" => b.spread = ItemSpread(i)
    /\ b.type = "footnoteDefinition" => b.identifier = Identifier(input[i].label)
    /\ b.type = "footnoteReference" => b.identifier = Identifier(FootnoteLabel(input[i].index))

\* A node of the right type and words is well made.
LEMMA MadeOf ==
    ASSUME NEW i \in Nat, NEW p \in Nat, NEW n \in Nodes, NEW words,
           n.type \in Becomes(Kind(i)), Words(n) = words,
           n.type = "listItem" => n.spread = ItemSpread(i),
           n.type = "footnoteDefinition" => n.identifier = Identifier(input[i].label),
           n.type = "footnoteReference" => n.identifier = Identifier(FootnoteLabel(input[i].index))
    PROVE  Made(Put(n, p, i), i, p, words)
<1> DEFINE b == Put(n, p, i)
<1>1. /\ b \in Nodes /\ Same(b, n) /\ b.parent = p /\ b.from = i
      /\ b.identifier = n.identifier /\ b.spread = n.spread
  BY PutIs
<1>2. b.type = n.type /\ Words(b) = Words(n)
  BY <1>1, WordsSame DEF Same
<1> HIDE DEF b
<1>3. Made(b, i, p, words)
  BY <1>1, <1>2 DEF Made
<1> QED BY <1>3 DEF b

\* A node with nothing of its own to read.
LEMMA MadeTyped ==
    ASSUME NEW i \in Nat, NEW p \in Nat, NEW type \in Becomes(Kind(i)),
           type \notin {"listItem", "footnoteDefinition", "footnoteReference", "break", "text"}
    PROVE  Made(Put(Typed(type), p, i), i, p, <<>>)
<1>1. type \in Types
  BY TextFits
<1> DEFINE n == Typed(type)
<1>2. n \in Nodes /\ n.type = type /\ n.value = <<>> /\ n.lang = <<>> /\ n.meta = <<>>
  BY <1>1, TypedIs
<1> HIDE DEF n
<1>3. Words(n) = <<>>
  BY <1>2, WordsIs
<1>4. Made(Put(n, p, i), i, p, <<>>)
  BY <1>2, <1>3, MadeOf
<1> QED BY <1>4 DEF n

\* So is one with a value.
LEMMA MadeValued ==
    ASSUME NEW i \in Nat, NEW p \in Nat, NEW type \in Becomes(Kind(i)), NEW value \in Prose,
           type \notin {"listItem", "footnoteDefinition", "footnoteReference", "break", "text"}
    PROVE  Made(Put(Valued(type, value), p, i), i, p, value)
<1>1. type \in Types
  BY TextFits
<1> DEFINE n == Valued(type, value)
<1>2. n \in Nodes /\ n.type = type /\ n.value = value /\ n.lang = <<>> /\ n.meta = <<>>
  BY <1>1, ValuedIs
<1> HIDE DEF n
<1>3. Words(n) = value
  BY <1>2, WordsIs
<1>4. Made(Put(n, p, i), i, p, value)
  BY <1>2, <1>3, MadeOf
<1> QED BY <1>4 DEF n

\* So is one with a label.
LEMMA MadeLabelled ==
    ASSUME NEW i \in Nat, NEW p \in Nat, NEW type \in Becomes(Kind(i)), NEW label \in Strings,
           type \notin {"listItem", "break", "text"},
           type = "footnoteDefinition" => label = input[i].label,
           type = "footnoteReference" => label = FootnoteLabel(input[i].index)
    PROVE  Made(Put(Labelled(Typed(type), label), p, i), i, p, <<>>)
<1>1. type \in Types
  BY TextFits
<1> DEFINE m == Typed(type)
           n == Labelled(m, label)
<1>2. m \in Nodes /\ m.type = type /\ m.value = <<>> /\ m.lang = <<>> /\ m.meta = <<>>
  BY <1>1, TypedIs
<1> HIDE DEF m
<1>3. n \in Nodes /\ Same(n, m) /\ n.identifier = Identifier(label)
  BY <1>2, LabelledIs
<1> HIDE DEF n
<1>4. n.type = type /\ Words(n) = <<>>
  BY <1>2, <1>3, WordsIs DEF Same
<1>5. Made(Put(n, p, i), i, p, <<>>)
  BY <1>3, <1>4, MadeOf
<1> QED BY <1>5 DEF n, m

\* A mark changes nothing that is read.
LEMMA MarkedIs ==
    ASSUME NEW n \in Nodes, NEW mark \in Strings
    PROVE  [n EXCEPT !.mark = mark] \in Nodes /\ Same([n EXCEPT !.mark = mark], n)
BY DEF Nodes, Same

\* What is read of a block.
BlockWords(i) ==
    CASE Kind(i) = "fence" -> Inked(input[i].info) \o LinesValue(input[i])
      [] Kind(i) = "indented" -> LinesValue(input[i])
      [] Kind(i) = "htmlblock" -> HtmlValue(input[i])
      [] OTHER -> <<>>

\* A block becomes one node with the words of its lines, or none if it is not known or the list of footnotes.
LEMMA BlockIs ==
    ASSUME Good(input), NEW i \in 2..Len(input), Kind(i) \notin InlineKinds, NEW p \in Nat
    PROVE  \/ Kind(i) \in {"other", "footnotes"} /\ Block(i, p) = <<>>
           \/ /\ Kind(i) \notin {"other", "footnotes"}
              /\ \E b : Block(i, p) = <<b>> /\ Made(b, i, p, BlockWords(i))
<1> DEFINE n == input[i]
<1>1. Len(input) \in Nat /\ i \in Nat /\ i \in 1..Len(input)
  BY TreeIs
<1>2. n \in SourceNodes /\ Kind(i) = n.kind
  BY <1>1, TreeIs DEF Kind
<1>3. n.kind \in AllKinds
  BY <1>2, TreeIs, HoldsIs
<1>4. n.label \in Strings /\ n.mark \in Strings
  BY <1>2 DEF SourceNodes, Strings
<1>5. LinesValue(n) \in Prose /\ HtmlValue(n) \in Prose
  BY <1>2, LinesIs, HtmlIs
<1> HIDE DEF n
<1> DEFINE Goal == Kind(i) \notin {"other", "footnotes"} /\ \E b : Block(i, p) = <<b>> /\ Made(b, i, p, BlockWords(i))
<1>6. ASSUME NEW type \in {"paragraph", "heading", "thematicBreak", "blockquote", "table", "tableRow", "tableCell"},
             type \in Becomes(Kind(i)), Block(i, p) = <<Put(Typed(type), p, i)>>,
             Kind(i) \notin {"fence", "indented", "htmlblock", "other", "footnotes"}
      PROVE  Goal
  <2>1. Made(Put(Typed(type), p, i), i, p, <<>>)
    BY <1>1, <1>6, MadeTyped
  <2>2. BlockWords(i) = <<>>
    BY <1>6 DEF BlockWords
  <2> QED BY <1>6, <2>1, <2>2
<1>7. CASE n.kind \in {"paragraph", "textblock"}
  <2>1. "paragraph" \in Becomes(Kind(i)) /\ Block(i, p) = <<Put(Typed("paragraph"), p, i)>>
    BY <1>2, <1>7, BlockForms DEF Becomes, n
  <2> QED BY <1>2, <1>6, <1>7, <2>1
<1>8. CASE n.kind = "heading"
  <2>1. "heading" \in Becomes(Kind(i)) /\ Block(i, p) = <<Put(Typed("heading"), p, i)>>
    BY <1>2, <1>8, BlockForms DEF Becomes, n
  <2> QED BY <1>2, <1>6, <1>8, <2>1
<1>9. CASE n.kind = "rule"
  <2>1. "thematicBreak" \in Becomes(Kind(i)) /\ Block(i, p) = <<Put(Typed("thematicBreak"), p, i)>>
    BY <1>2, <1>9, BlockForms DEF Becomes, n
  <2> QED BY <1>2, <1>6, <1>9, <2>1
<1>10. CASE n.kind = "quote"
  <2>1. "blockquote" \in Becomes(Kind(i)) /\ Block(i, p) = <<Put(Typed("blockquote"), p, i)>>
    BY <1>2, <1>10, BlockForms DEF Becomes, n
  <2> QED BY <1>2, <1>6, <1>10, <2>1
<1>11. CASE n.kind = "table"
  <2>1. "table" \in Becomes(Kind(i)) /\ Block(i, p) = <<Put(Typed("table"), p, i)>>
    BY <1>2, <1>11, BlockForms DEF Becomes, n
  <2> QED BY <1>2, <1>6, <1>11, <2>1
<1>12. CASE n.kind = "row"
  <2>1. "tableRow" \in Becomes(Kind(i)) /\ Block(i, p) = <<Put(Typed("tableRow"), p, i)>>
    BY <1>2, <1>12, BlockForms DEF Becomes, n
  <2> QED BY <1>2, <1>6, <1>12, <2>1
<1>13. CASE n.kind = "cell"
  <2>1. "tableCell" \in Becomes(Kind(i)) /\ Block(i, p) = <<Put(Typed("tableCell"), p, i)>>
    BY <1>2, <1>13, BlockForms DEF Becomes, n
  <2> QED BY <1>2, <1>6, <1>13, <2>1
<1>14. CASE n.kind = "list"
  <2> DEFINE spread == n.mark # "tight"
             l == Typed("list")
             m == [l EXCEPT !.spread = spread]
  <2>1. l \in Nodes /\ l.type = "list" /\ l.value = <<>> /\ l.lang = <<>> /\ l.meta = <<>>
    BY TypedIs DEF Types, Flow
  <2>2. spread \in BOOLEAN
    OBVIOUS
  <2>3. Block(i, p) = <<Put(m, p, i)>>
    BY <1>14, BlockForms DEF n
  <2> HIDE DEF l, spread
  <2>4. m \in Nodes /\ m.type = "list" /\ m.value = <<>> /\ m.lang = <<>> /\ m.meta = <<>>
    BY <2>1, <2>2 DEF Nodes
  <2> HIDE DEF m
  <2>5. "list" \in Becomes(Kind(i)) /\ BlockWords(i) = <<>>
    BY <1>2, <1>14 DEF Becomes, BlockWords
  <2>6. Words(m) = <<>>
    BY <2>4, WordsIs
  <2>7. Made(Put(m, p, i), i, p, <<>>)
    BY <1>1, <2>4, <2>5, <2>6, MadeOf
  <2> QED BY <1>2, <1>14, <2>3, <2>5, <2>7
<1>15. CASE n.kind = "item"
  <2> DEFINE spread == ItemSpread(i)
             checked == TaskChecked(i)
             l == Typed("listItem")
             m == [l EXCEPT !.spread = spread, !.checked = checked]
  <2>1. l \in Nodes /\ l.type = "listItem" /\ l.value = <<>> /\ l.lang = <<>> /\ l.meta = <<>>
    BY TypedIs DEF Types
  <2>2. spread \in BOOLEAN
    BY DEF ItemSpread
  <2>3. checked \in Strings
    <3>1. CASE i + 1 \in Children(i) /\ i + 2 \in Children(i + 1) /\ Kind(i + 2) = "checkbox"
      <4>1. checked = input[i + 2].mark
        BY <3>1 DEF TaskChecked
      <4>2. i + 1 \in 1..Len(input)
        BY <1>1, <3>1, TreeIs DEF Children, Below
      <4>3. i + 2 \in 1..Len(input)
        BY <1>1, <3>1, <4>2, TreeIs DEF Children, Below
      <4>4. input[i + 2] \in SourceNodes
        BY <4>3, TreeIs
      <4> HIDE DEF checked
      <4> QED BY <4>1, <4>4 DEF SourceNodes, Strings
    <3>2. CASE ~(i + 1 \in Children(i) /\ i + 2 \in Children(i + 1) /\ Kind(i + 2) = "checkbox")
      BY <3>2 DEF TaskChecked, Strings
    <3> QED BY <3>1, <3>2
  <2>4. Block(i, p) = <<Put(m, p, i)>>
    BY <1>15, BlockForms DEF n
  <2> HIDE DEF l, spread, checked
  <2>5. /\ m \in Nodes /\ m.type = "listItem" /\ m.value = <<>> /\ m.lang = <<>> /\ m.meta = <<>>
        /\ m.spread = spread
    BY <2>1, <2>2, <2>3 DEF Nodes
  <2> HIDE DEF m
  <2>6. "listItem" \in Becomes(Kind(i)) /\ BlockWords(i) = <<>>
    BY <1>2, <1>15 DEF Becomes, BlockWords
  <2>7. Words(m) = <<>>
    BY <2>5, WordsIs
  <2>8. Made(Put(m, p, i), i, p, <<>>)
    BY <1>1, <2>5, <2>6, <2>7, MadeOf DEF spread
  <2> QED BY <1>2, <1>15, <2>4, <2>6, <2>8
<1>16. CASE n.kind = "fence"
  <2> DEFINE m == FencedCode(n)
  <2>1. m \in Nodes /\ m.type = "code" /\ Words(m) = Inked(n.info) \o LinesValue(n)
    BY <1>2, FencedIs
  <2>2. Block(i, p) = <<Put(m, p, i)>>
    BY <1>16, BlockForms DEF n
  <2> HIDE DEF m
  <2>3. "code" \in Becomes(Kind(i)) /\ BlockWords(i) = Words(m)
    BY <1>2, <1>16, <2>1 DEF Becomes, BlockWords, n
  <2>4. Made(Put(m, p, i), i, p, Words(m))
    BY <1>1, <2>1, <2>3, MadeOf
  <2> QED BY <1>2, <1>16, <2>2, <2>3, <2>4
<1>17. CASE n.kind = "indented"
  <2>1. "code" \in Becomes(Kind(i)) /\ BlockWords(i) = LinesValue(n)
    BY <1>2, <1>17 DEF Becomes, BlockWords, n
  <2>2. Block(i, p) = <<Put(Valued("code", LinesValue(n)), p, i)>>
    BY <1>17, BlockForms DEF n
  <2>3. Made(Put(Valued("code", LinesValue(n)), p, i), i, p, LinesValue(n))
    BY <1>1, <1>5, <2>1, MadeValued
  <2> QED BY <1>2, <1>17, <2>1, <2>2, <2>3
<1>18. CASE n.kind = "htmlblock"
  <2>1. "html" \in Becomes(Kind(i)) /\ BlockWords(i) = HtmlValue(n)
    BY <1>2, <1>18 DEF Becomes, BlockWords, n
  <2>2. Block(i, p) = <<Put(Valued("html", HtmlValue(n)), p, i)>>
    BY <1>18, BlockForms DEF n
  <2>3. Made(Put(Valued("html", HtmlValue(n)), p, i), i, p, HtmlValue(n))
    BY <1>1, <1>5, <2>1, MadeValued
  <2> QED BY <1>2, <1>18, <2>1, <2>2, <2>3
<1>19. CASE n.kind = "definition"
  <2>1. "definition" \in Becomes(Kind(i)) /\ BlockWords(i) = <<>>
    BY <1>2, <1>19 DEF Becomes, BlockWords
  <2>2. Block(i, p) = <<Put(Labelled(Typed("definition"), n.label), p, i)>>
    BY <1>19, BlockForms DEF n
  <2>3. Made(Put(Labelled(Typed("definition"), n.label), p, i), i, p, <<>>)
    BY <1>1, <1>4, <2>1, MadeLabelled
  <2> QED BY <1>2, <1>19, <2>1, <2>2, <2>3
<1>20. CASE n.kind = "footnote"
  <2>1. "footnoteDefinition" \in Becomes(Kind(i)) /\ BlockWords(i) = <<>>
    BY <1>2, <1>20 DEF Becomes, BlockWords
  <2>2. Block(i, p) = <<Put(Labelled(Typed("footnoteDefinition"), n.label), p, i)>>
    BY <1>20, BlockForms DEF n
  <2>3. Made(Put(Labelled(Typed("footnoteDefinition"), n.label), p, i), i, p, <<>>)
    BY <1>1, <1>4, <2>1, MadeLabelled DEF n
  <2> QED BY <1>2, <1>20, <2>1, <2>2, <2>3
<1>21. CASE n.kind \in {"other", "footnotes"}
  <2>1. Block(i, p) = <<>>
    BY <1>21, BlockForms DEF n
  <2> QED BY <1>2, <1>21, <2>1
<1>22. n.kind \in BlockKinds \cup {"footnotes", "footnote", "item", "row", "cell"}
  BY <1>2, <1>3 DEF AllKinds
<1> HIDE DEF Goal
<1> QED BY <1>7, <1>8, <1>9, <1>10, <1>11, <1>12, <1>13, <1>14, <1>15, <1>16, <1>17, <1>18, <1>19,
    <1>20, <1>21, <1>22 DEF BlockKinds, Goal

\* Decoded text is prose.
LEMMA DecodedIs ==
    ASSUME NEW s \in Text
    PROVE  Decoded(s) \in Prose
<1>1. Len(s) \in Nat
  BY LenProperties DEF Text
<1>2. 0 \in 0..Len(s) /\ Meaning(s) \in [0..Len(s) -> Seq(Text)]
  BY <1>1, MeaningUnfolds DEF Means
<1>3. Decoded(s) \in Seq(Text)
  BY <1>2 DEF Decoded
<1>4. Text \subseteq Pieces
  BY DEF Pieces
<1> QED BY <1>3, <1>4, SeqMonotonic DEF Prose

\* The texts below an image, and below a code span.
Alts(i) == [k \in 1..(input[i].last - i) |-> IF Kind(i + k) = "text" THEN Decoded(input[i + k].seg) ELSE <<>>]
Codes(i) == [k \in 1..(input[i].last - i) |-> Plain(input[i + k].seg)]

\* What is below a node.
LEMMA BelowIs ==
    ASSUME Good(input), NEW i \in 1..Len(input)
    PROVE  /\ input[i].last - i \in Nat
           /\ \A k \in 1..(input[i].last - i) :
                  i + k \in 1..Len(input) /\ i + k \in (i + 1)..input[i].last /\ input[i + k].seg \in Text
<1>1. Len(input) \in Nat /\ input[i].last \in i..Len(input)
  BY TreeIs
<1>2. ASSUME NEW k \in 1..(input[i].last - i)
      PROVE  i + k \in 1..Len(input) /\ i + k \in (i + 1)..input[i].last /\ input[i + k].seg \in Text
  <2>1. i + k \in 1..Len(input) /\ i + k \in (i + 1)..input[i].last
    BY <1>1
  <2>2. input[i + k] \in SourceNodes
    BY <2>1, TreeIs
  <2> QED BY <2>1, <2>2 DEF SourceNodes, Text
<1> QED BY <1>1, <1>2

\* The text of an image, piece by piece.
LEMMA AltsIs ==
    ASSUME Good(input), NEW i \in 1..Len(input)
    PROVE  /\ Alts(i) \in Seq(Prose) /\ Len(Alts(i)) = input[i].last - i
           /\ TextContent(i) = FlattenSeq(Alts(i)) /\ TextContent(i) \in Prose
<1> DEFINE m == input[i].last - i
<1>1. m \in Nat /\ \A k \in 1..m : input[i + k].seg \in Text
  BY BelowIs
<1>2. <<>> \in Prose
  BY EmptySeq DEF Prose
<1>3. \A k \in 1..m : (IF Kind(i + k) = "text" THEN Decoded(input[i + k].seg) ELSE <<>>) \in Prose
  BY <1>1, <1>2, DecodedIs
<1> HIDE DEF m
<1>4. Alts(i) = [k \in 1..m |-> IF Kind(i + k) = "text" THEN Decoded(input[i + k].seg) ELSE <<>>]
  BY DEF Alts, m
<1>5. Alts(i) \in [1..m -> Prose]
  BY <1>3, <1>4
<1>6. Alts(i) \in Seq(Prose) /\ Len(Alts(i)) = m
  BY <1>1, <1>5
<1>7. TextContent(i) = FlattenSeq(Alts(i))
  BY DEF TextContent, Alts
<1> QED BY <1>6, <1>7, FlattenIn DEF m

\* The text of a code span, piece by piece.
LEMMA CodesIs ==
    ASSUME Good(input), NEW i \in 1..Len(input)
    PROVE  /\ Codes(i) \in Seq(Prose) /\ Len(Codes(i)) = input[i].last - i
           /\ CodeSpanValue(i) = FlattenSeq(Codes(i)) /\ CodeSpanValue(i) \in Prose
<1> DEFINE m == input[i].last - i
<1>1. m \in Nat /\ \A k \in 1..m : input[i + k].seg \in Text
  BY BelowIs
<1>2. \A k \in 1..m : Plain(input[i + k].seg) \in Prose
  BY <1>1, PlainProse
<1> HIDE DEF m
<1>3. Codes(i) = [k \in 1..m |-> Plain(input[i + k].seg)]
  BY DEF Codes, m
<1>4. Codes(i) \in [1..m -> Prose]
  BY <1>2, <1>3
<1>5. Codes(i) \in Seq(Prose) /\ Len(Codes(i)) = m
  BY <1>1, <1>4
<1>6. CodeSpanValue(i) = FlattenSeq(Codes(i))
  BY DEF CodeSpanValue, Codes
<1> QED BY <1>5, <1>6, FlattenIn DEF m

\* The label of a footnote is a string, if it is there or not.
LEMMA FootnoteLabelIs ==
    ASSUME Good(input), NEW index
    PROVE  FootnoteLabel(index) \in Strings
<1> DEFINE fs == {f \in Footnotes : input[f].index = index}
           f == CHOOSE g \in fs : TRUE
<1>1. CASE fs = {}
  BY <1>1 DEF FootnoteLabel, Strings
<1>2. CASE fs # {}
  <2>1. f \in fs
    BY <1>2
  <2>2. f \in 1..Len(input)
    BY <2>1, TreeIs DEF Footnotes
  <2>3. input[f].label \in STRING
    BY <2>2, TreeIs DEF SourceNodes
  <2>4. FootnoteLabel(index) = input[f].label
    BY <1>2 DEF FootnoteLabel
  <2> QED BY <2>3, <2>4 DEF Strings
<1> QED BY <1>1, <1>2

\* What is read of an inline node that is not text.
InlineWords(i) ==
    CASE Kind(i) = "codespan" -> CodeSpanValue(i)
      [] Kind(i) = "image" -> TextContent(i)
      [] Kind(i) \in {"autolink", "rawhtml"} -> Plain(input[i].seg)
      [] OTHER -> <<>>

\* An inline node becomes one node with its words; a bare link two, a backlink none.
LEMMA InlineIs ==
    ASSUME Good(input), NEW i \in 2..Len(input), Kind(i) \in InlineKinds \ {"text", "string", "checkbox"},
           NEW p \in Nat, NEW here \in Nat
    PROVE  \/ Kind(i) = "backlink" /\ InlineNode(i, p, here) = <<>>
           \/ /\ Kind(i) = "autolink"
              /\ \E a, b : /\ InlineNode(i, p, here) = <<a>> \o <<b>> /\ Made(a, i, p, <<>>)
                           /\ b \in Nodes /\ b.type = "text" /\ b.parent = here /\ b.from = i
                           /\ Words(b) = InlineWords(i)
           \/ /\ Kind(i) \notin {"backlink", "autolink"}
              /\ \E b : InlineNode(i, p, here) = <<b>> /\ Made(b, i, p, InlineWords(i))
<1> DEFINE n == input[i]
<1>1. Len(input) \in Nat /\ i \in Nat /\ i \in 1..Len(input)
  BY TreeIs
<1>2. n \in SourceNodes /\ Kind(i) = n.kind
  BY <1>1, TreeIs DEF Kind
<1>3. n.label \in Strings /\ n.mark \in Strings /\ n.seg \in Text
  BY <1>2 DEF SourceNodes, Strings, Text
<1>4. Plain(n.seg) \in Prose /\ CodeSpanValue(i) \in Prose /\ TextContent(i) \in Prose
  BY <1>1, <1>3, PlainProse, CodesIs, AltsIs
<1> HIDE DEF n
<1> DEFINE Goal == /\ Kind(i) \notin {"backlink", "autolink"}
                   /\ \E b : InlineNode(i, p, here) = <<b>> /\ Made(b, i, p, InlineWords(i))
<1>5. CASE n.kind = "emphasis"
  <2> DEFINE type == IF n.mark = "2" THEN "strong" ELSE "emphasis"
  <2>1. InlineNode(i, p, here) = <<Put(Typed(type), p, i)>>
    BY <1>5, InlineForms DEF n
  <2>2. type \in Becomes(Kind(i)) /\ type \in {"strong", "emphasis"} /\ InlineWords(i) = <<>>
    BY <1>2, <1>5 DEF Becomes, InlineWords
  <2> HIDE DEF type
  <2>3. Made(Put(Typed(type), p, i), i, p, <<>>)
    BY <1>1, <2>2, MadeTyped
  <2> QED BY <1>2, <1>5, <2>1, <2>2, <2>3
<1>6. CASE n.kind = "strikethrough"
  <2>1. InlineNode(i, p, here) = <<Put(Typed("delete"), p, i)>>
    BY <1>6, InlineForms DEF n
  <2>2. "delete" \in Becomes(Kind(i)) /\ InlineWords(i) = <<>>
    BY <1>2, <1>6 DEF Becomes, InlineWords
  <2>3. Made(Put(Typed("delete"), p, i), i, p, <<>>)
    BY <1>1, <2>2, MadeTyped
  <2> QED BY <1>2, <1>6, <2>1, <2>2, <2>3
<1>7. CASE n.kind = "codespan"
  <2>1. InlineNode(i, p, here) = <<Put(Valued("inlineCode", CodeSpanValue(i)), p, i)>>
    BY <1>7, InlineForms DEF n
  <2>2. "inlineCode" \in Becomes(Kind(i)) /\ InlineWords(i) = CodeSpanValue(i)
    BY <1>2, <1>7 DEF Becomes, InlineWords
  <2>3. Made(Put(Valued("inlineCode", CodeSpanValue(i)), p, i), i, p, CodeSpanValue(i))
    BY <1>1, <1>4, <2>2, MadeValued
  <2> QED BY <1>2, <1>7, <2>1, <2>2, <2>3
<1>8. CASE n.kind = "rawhtml"
  <2>1. InlineNode(i, p, here) = <<Put(Valued("html", Plain(n.seg)), p, i)>>
    BY <1>8, InlineForms DEF n
  <2>2. "html" \in Becomes(Kind(i)) /\ InlineWords(i) = Plain(n.seg)
    BY <1>2, <1>8 DEF Becomes, InlineWords, n
  <2>3. Made(Put(Valued("html", Plain(n.seg)), p, i), i, p, Plain(n.seg))
    BY <1>1, <1>4, <2>2, MadeValued
  <2> QED BY <1>2, <1>8, <2>1, <2>2, <2>3
<1>9. CASE n.kind = "footnotelink"
  <2> DEFINE label == FootnoteLabel(n.index)
  <2>1. InlineNode(i, p, here) = <<Put(Labelled(Typed("footnoteReference"), label), p, i)>>
    BY <1>9, InlineForms DEF n
  <2>2. "footnoteReference" \in Becomes(Kind(i)) /\ InlineWords(i) = <<>>
    BY <1>2, <1>9 DEF Becomes, InlineWords
  <2>3. label \in Strings /\ label = FootnoteLabel(input[i].index)
    BY FootnoteLabelIs DEF n
  <2> HIDE DEF label
  <2>4. Made(Put(Labelled(Typed("footnoteReference"), label), p, i), i, p, <<>>)
    BY <1>1, <2>2, <2>3, MadeLabelled
  <2> QED BY <1>2, <1>9, <2>1, <2>2, <2>4
<1>10. CASE n.kind = "link"
  <2>1. {"link", "linkReference"} = Becomes(Kind(i)) /\ InlineWords(i) = <<>>
    BY <1>2, <1>10 DEF Becomes, InlineWords
  <2>2. CASE n.label = Unset
    <3>1. InlineNode(i, p, here) = <<Put(Typed("link"), p, i)>>
      BY <1>10, <2>2, InlineForms DEF n
    <3>2. Made(Put(Typed("link"), p, i), i, p, <<>>)
      BY <1>1, <2>1, MadeTyped
    <3> QED BY <1>2, <1>10, <2>1, <3>1, <3>2
  <2>3. CASE n.label # Unset
    <3> DEFINE l == Typed("linkReference")
               m == Labelled(l, n.label)
               q == [m EXCEPT !.mark = n.mark]
    <3>1. InlineNode(i, p, here) = <<Put(q, p, i)>>
      BY <1>10, <2>3, InlineForms DEF n
    <3>2. l \in Nodes /\ l.type = "linkReference" /\ l.value = <<>> /\ l.lang = <<>> /\ l.meta = <<>>
      BY TypedIs DEF Types, Phrasing
    <3> HIDE DEF l
    <3>3. m \in Nodes /\ Same(m, l)
      BY <1>3, <3>2, LabelledIs
    <3> HIDE DEF m
    <3>4. q \in Nodes /\ Same(q, m)
      BY <1>3, <3>3, MarkedIs
    <3> HIDE DEF q
    <3>5. q.type = "linkReference" /\ Words(q) = <<>>
      BY <3>2, <3>3, <3>4, WordsIs DEF Same
    <3>6. Made(Put(q, p, i), i, p, <<>>)
      BY <1>1, <2>1, <3>4, <3>5, MadeOf
    <3> QED BY <1>2, <1>10, <2>1, <3>1, <3>6
  <2> QED BY <2>2, <2>3
<1>11. CASE n.kind = "image"
  <2> DEFINE alt == TextContent(i)
  <2>1. {"image", "imageReference"} = Becomes(Kind(i)) /\ InlineWords(i) = alt /\ alt \in Prose
    BY <1>2, <1>4, <1>11 DEF Becomes, InlineWords
  <2>2. CASE n.label = Unset
    <3>1. InlineNode(i, p, here) = <<Put(Valued("image", alt), p, i)>>
      BY <1>11, <2>2, InlineForms DEF n
    <3>2. Made(Put(Valued("image", alt), p, i), i, p, alt)
      <4> HIDE DEF alt
      <4> QED BY <1>1, <2>1, MadeValued
    <3> QED BY <1>2, <1>11, <2>1, <3>1, <3>2
  <2>3. CASE n.label # Unset
    <3> DEFINE l == Valued("imageReference", alt)
               m == Labelled(l, n.label)
               q == [m EXCEPT !.mark = n.mark]
    <3>1. InlineNode(i, p, here) = <<Put(q, p, i)>>
      BY <1>11, <2>3, InlineForms DEF n
    <3>2. l \in Nodes /\ l.type = "imageReference" /\ l.value = alt /\ l.lang = <<>> /\ l.meta = <<>>
      <4> HIDE DEF alt
      <4> QED BY <2>1, ValuedIs DEF Types, Phrasing
    <3> HIDE DEF l, alt
    <3>3. m \in Nodes /\ Same(m, l)
      BY <1>3, <3>2, LabelledIs
    <3> HIDE DEF m
    <3>4. q \in Nodes /\ Same(q, m)
      BY <1>3, <3>3, MarkedIs
    <3> HIDE DEF q
    <3>5. q.type = "imageReference" /\ Words(q) = alt
      BY <3>2, <3>3, <3>4, WordsIs DEF Same
    <3>6. Made(Put(q, p, i), i, p, alt)
      BY <1>1, <2>1, <3>4, <3>5, MadeOf
    <3> QED BY <1>2, <1>11, <2>1, <3>1, <3>6
  <2> QED BY <2>2, <2>3
<1>12. CASE n.kind = "autolink"
  <2> DEFINE value == Plain(n.seg)
             a == Put(Typed("link"), p, i)
             m == Valued("text", value)
             b == Put(m, here, i)
  <2>1. InlineNode(i, p, here) = <<a>> \o <<b>>
    BY <1>12, InlineForms DEF n
  <2>2. "link" \in Becomes(Kind(i)) /\ InlineWords(i) = value
    BY <1>2, <1>12 DEF Becomes, InlineWords, n
  <2>3. Made(a, i, p, <<>>)
    BY <1>1, <2>2, MadeTyped
  <2>4. m \in Nodes /\ m.type = "text" /\ m.value = value /\ m.lang = <<>> /\ m.meta = <<>>
    <3> HIDE DEF value
    <3> QED BY <1>4, ValuedIs DEF Types, Phrasing, value
  <2> HIDE DEF m, value
  <2>5. b \in Nodes /\ Same(b, m) /\ b.parent = here /\ b.from = i
    <3>1. m \in Nodes /\ here \in Nat /\ i \in Nat
      BY <1>1, <2>4
    <3> QED BY <3>1, PutIs, Zenon
  <2> HIDE DEF a, b
  <2>6. b.type = "text" /\ Words(b) = value
    BY <2>4, <2>5, WordsIs DEF Same
  <2> QED BY <1>2, <1>12, <2>1, <2>2, <2>3, <2>5, <2>6
<1>13. CASE n.kind = "backlink"
  <2>1. InlineNode(i, p, here) = <<>>
    BY <1>13, InlineForms DEF n
  <2> QED BY <1>2, <1>13, <2>1
<1> HIDE DEF Goal
<1> QED BY <1>2, <1>5, <1>6, <1>7, <1>8, <1>9, <1>10, <1>11, <1>12, <1>13 DEF InlineKinds, Goal

-----------------------------------------------------------------------------
(* The invariant.                                                          *)

CallRecs == [node : Nat, place : Nat, buf : Prose]

\* The node of goldmark's that a node of mdast hangs on, if it is made below i.
Seat(t, i) == IF t[i].kind = "footnotes" THEN t[i].parent ELSE i

\* The node at k hangs where it should.
Hung(t, o, k) ==
    LET p == o[k].parent IN
    /\ p \in 1..(k - 1)
    /\ o[k].type \in Content(o[p].type)
    /\ o[p].from = IF o[k].type \in {"text", "break"} THEN o[k].from ELSE Seat(t, t[o[k].from].parent)

Hangs(t, o) ==
    /\ o \in Seq(Nodes) /\ o # <<>> /\ o[1].type = "root"
    /\ \A k \in 2..Len(o) : Hung(t, o, k)

\* The call converts a container, to a node that is there.
Seated(t, a, call, o) ==
    /\ call.node \in 1..(a - 1) /\ call.node <= Len(t)
    /\ t[call.node].kind \in Containers
    /\ call.place \in 1..Len(o)
    /\ o[call.place].type \in Becomes(t[call.node].kind)
    /\ o[call.place].from = Seat(t, call.node)

\* Each call was made by the one before it, which waits.
Nested(t, c) ==
    /\ c # <<>> => c[1].node = 1
    /\ \A k \in 2..Len(c) :
           /\ t[c[k].node].parent = c[k - 1].node
           /\ t[c[k].node].kind # "footnotes" => c[k - 1].place < c[k].place
    /\ \A k \in 1..Len(c) : \A j \in 1..k : c[j].place <= c[k].place
    /\ \A k \in 1..(Len(c) - 1) : c[k].buf = <<>>

\* The walk is in what the last call converts.
Walking(t, a, c) ==
    IF c = <<>> THEN a = Len(t) + 1
    ELSE LET top == c[Len(c)] IN
         /\ a <= t[top.node].last + 1
         /\ a <= t[top.node].last => t[a].parent = top.node
         /\ top.buf # <<>> => t[top.node].kind \in Runs

Standing(t, a, c, o) ==
    /\ a \in 2..(Len(t) + 1)
    /\ c \in Seq(CallRecs)
    /\ \A k \in 1..Len(c) : Seated(t, a, c[k], o)
    /\ Nested(t, c)
    /\ Walking(t, a, c)

\* Nothing is jumped over but what was converted at once.
Covered(t, a) == \A m \in 1..(a - 1) : a <= t[m].last => t[m].kind \in Containers

\* Text does not follow text, and is not empty.
Apart(t, o) ==
    \A k \in 1..Len(o) : o[k].type = "text" =>
        /\ o[k].value # <<>> \/ t[o[k].from].kind = "autolink"
        /\ k < Len(o) => ~(o[k + 1].type = "text" /\ o[k + 1].parent = o[k].parent)

\* The last node is that of a call, or below it.
Low(c, o) == \A k \in 1..Len(c) : Len(o) = c[k].place \/ o[Len(o)].parent >= c[k].place

\* Text is the last that the call of the top has made.
Ended(call, o) == o[Len(o)].type = "text" /\ o[Len(o)].parent = call.place

\* After it comes no more.
Shut(t, a, c, o) ==
    c # <<>> => LET top == c[Len(c)] IN
        Ended(top, o) => top.buf = <<>> /\ (a > t[top.node].last \/ t[a].kind = "backlink")

\* A node is what the node it comes from becomes.
Faithful(b) ==
    /\ b.type \in Becomes(Kind(b.from))
    /\ b.type = "listItem" => b.spread = ItemSpread(b.from)
    /\ b.type = "footnoteDefinition" => b.identifier = Identifier(input[b.from].label)
    /\ b.type = "footnoteReference" => b.identifier = Identifier(FootnoteLabel(input[b.from].index))

\* Nodes come from what was passed.
Sourced(a, o) ==
    \A k \in 1..Len(o) :
        /\ o[k].from \in 1..(a - 1)
        /\ o[k].type \notin {"text", "break", "root"} => Faithful(o[k])

\* A footnote that was passed has one definition.
Noted(t, a, o) ==
    /\ \A f \in 1..(a - 1) : t[f].kind = "footnote" =>
           \E k \in 1..Len(o) : o[k].type = "footnoteDefinition" /\ o[k].from = f
    /\ \A j, k \in 1..Len(o) :
           o[j].type = "footnoteDefinition" /\ o[k].type = "footnoteDefinition" /\ o[j].from = o[k].from => j = k

\* Segments are decoded where they stand.
Phase(t, a, c) ==
    /\ pc \in {"walk", "decode", "done"}
    /\ pc = "done" <=> c = <<>>
    /\ pc = "decode" =>
           a <= t[c[Len(c)].node].last /\ t[a].kind \in {"text", "string"} /\ frame.source = t[a].seg

AllWords(o) == FlattenSeq([k \in 1..Len(o) |-> Words(o[k])])

Told(n) == FlattenSeq([i \in 1..n |-> SourceWords(i)])

\* What was passed is in the tree, or waits in the last call.
Said(a, c, o) == Then(AllWords(o), IF c = <<>> THEN <<>> ELSE c[Len(c)].buf) = Told(a - 1)

\* The tree, and where the walk stands in it.
Body(a, c, o) ==
    /\ Hangs(input, o)
    /\ Standing(input, a, c, o)
    /\ Apart(input, o)
    /\ Low(c, o)

Shape(a, c, o) ==
    /\ Body(a, c, o)
    /\ Covered(input, a)
    /\ Shut(input, a, c, o)
    /\ Sourced(a, o)
    /\ Noted(input, a, o)
    /\ Said(a, c, o)

MInv ==
    /\ Good(input)
    /\ Shape(at, calls, out)
    /\ Phase(input, at, calls)
    /\ DInv

-----------------------------------------------------------------------------
(* One node more.                                                          *)

\* A tree with a node more.
LEMMA OneMore ==
    ASSUME NEW o \in Seq(Nodes), NEW x \in Nodes
    PROVE  LET q == Append(o, x) IN
           /\ q \in Seq(Nodes) /\ q # <<>> /\ Len(o) \in Nat /\ Len(q) = Len(o) + 1
           /\ q[Len(o) + 1] = x /\ q[Len(q)] = x
           /\ \A k \in 1..Len(o) : q[k] = o[k] /\ o[k] \in Nodes
           /\ \A k \in 1..Len(q) : k \in 1..Len(o) \/ k = Len(o) + 1
           /\ o \o <<x>> = q
<1> DEFINE q == Append(o, x)
<1>1. Len(o) \in Nat /\ \A k \in 1..Len(o) : o[k] \in Nodes
  BY LenProperties, ElementOfSeq
<1>2. /\ q \in Seq(Nodes) /\ q # <<>> /\ Len(q) = Len(o) + 1
      /\ q[Len(o) + 1] = x /\ \A k \in 1..Len(o) : q[k] = o[k]
  BY AppendProperties
<1>3. o \o <<x>> = q
  BY AppendIsConcat
<1> HIDE DEF q
<1>4. \A k \in 1..Len(q) : k \in 1..Len(o) \/ k = Len(o) + 1
  BY <1>1, <1>2
<1>5. q[Len(q)] = x
  BY <1>2
<1> QED BY <1>1, <1>2, <1>3, <1>4, <1>5 DEF q

\* A node where it may be keeps the tree in order.
LEMMA HangsMore ==
    ASSUME NEW t, NEW o, Hangs(t, o), NEW x \in Nodes, x.parent \in 1..Len(o),
           x.type \in Content(o[x.parent].type),
           o[x.parent].from = IF x.type \in {"text", "break"} THEN x.from ELSE Seat(t, t[x.from].parent)
    PROVE  Hangs(t, Append(o, x))
<1> DEFINE q == Append(o, x)
<1>1. o \in Seq(Nodes) /\ o # <<>> /\ o[1].type = "root" /\ \A k \in 2..Len(o) : Hung(t, o, k)
  BY DEF Hangs
<1>2. /\ q \in Seq(Nodes) /\ q # <<>> /\ Len(o) \in Nat /\ Len(q) = Len(o) + 1
      /\ q[Len(o) + 1] = x
      /\ \A k \in 1..Len(o) : q[k] = o[k]
  BY <1>1, OneMore
<1>3. Len(o) # 0 /\ 1 \in 1..Len(o)
  BY <1>1, <1>2, EmptySeq
<1> HIDE DEF q
<1>4. ASSUME NEW k \in 2..Len(o) PROVE Hung(t, q, k)
  <2>1. k \in 1..Len(o) /\ Hung(t, o, k)
    BY <1>1, <1>2
  <2> DEFINE p == o[k].parent
  <2>2. p \in 1..(k - 1) /\ p \in 1..Len(o)
    BY <1>2, <2>1 DEF Hung
  <2>3. q[k] = o[k] /\ q[p] = o[p]
    BY <1>2, <2>1, <2>2
  <2> QED BY <2>1, <2>3 DEF Hung
<1>5. Hung(t, q, Len(o) + 1)
  <2>1. q[x.parent] = o[x.parent] /\ x.parent \in 1..(Len(o) + 1 - 1)
    BY <1>2
  <2> QED BY <1>2, <2>1 DEF Hung
<1>6. \A k \in 2..Len(q) : k \in 2..Len(o) \/ k = Len(o) + 1
  BY <1>2
<1>7. \A k \in 2..Len(q) : Hung(t, q, k)
  BY <1>4, <1>5, <1>6
<1>8. q[1].type = "root"
  BY <1>1, <1>2, <1>3
<1>9. Hangs(t, q)
  BY <1>2, <1>7, <1>8 DEF Hangs
<1> QED BY <1>9 DEF q

\* Text that does not follow text keeps text apart.
LEMMA ApartMore ==
    ASSUME NEW t, NEW o \in Seq(Nodes), o # <<>>, Apart(t, o), NEW x \in Nodes,
           x.type = "text" => /\ x.value # <<>> \/ t[x.from].kind = "autolink"
                              /\ ~(o[Len(o)].type = "text" /\ o[Len(o)].parent = x.parent)
    PROVE  Apart(t, Append(o, x))
<1> DEFINE q == Append(o, x)
<1>1. /\ Len(o) \in Nat /\ Len(q) = Len(o) + 1
      /\ q[Len(o) + 1] = x
      /\ \A k \in 1..Len(o) : q[k] = o[k]
      /\ \A k \in 1..Len(q) : k \in 1..Len(o) \/ k = Len(o) + 1
  BY OneMore
<1> HIDE DEF q
<1>2. ASSUME NEW k \in 1..Len(o), q[k].type = "text"
      PROVE  /\ q[k].value # <<>> \/ t[q[k].from].kind = "autolink"
             /\ k < Len(q) => ~(q[k + 1].type = "text" /\ q[k + 1].parent = q[k].parent)
  <2>1. q[k] = o[k] /\ o[k].type = "text"
    BY <1>1, <1>2
  <2>2. o[k].value # <<>> \/ t[o[k].from].kind = "autolink"
    BY <2>1 DEF Apart
  <2>3. CASE k < Len(o)
    <3>1. q[k + 1] = o[k + 1]
      BY <1>1, <2>3
    <3>2. ~(o[k + 1].type = "text" /\ o[k + 1].parent = o[k].parent)
      BY <2>1, <2>3 DEF Apart
    <3> QED BY <2>1, <2>2, <3>1, <3>2
  <2>4. CASE k = Len(o)
    <3>1. q[k + 1] = x
      BY <1>1, <2>4
    <3> QED BY <2>1, <2>2, <2>4, <3>1
  <2> QED BY <1>1, <2>3, <2>4
<1>3. ASSUME NEW k, k = Len(o) + 1, q[k].type = "text"
      PROVE  /\ q[k].value # <<>> \/ t[q[k].from].kind = "autolink"
             /\ k < Len(q) => ~(q[k + 1].type = "text" /\ q[k + 1].parent = q[k].parent)
  BY <1>1, <1>3
<1>4. Apart(t, q)
  BY <1>1, <1>2, <1>3 DEF Apart
<1> QED BY <1>4 DEF q

\* A node that is what it comes from.
LEMMA SourcedMore ==
    ASSUME NEW a \in Nat, NEW o \in Seq(Nodes), Sourced(a, o), NEW x \in Nodes, x.from \in 1..(a - 1),
           x.type \in {"text", "break"} \/ Faithful(x)
    PROVE  Sourced(a, Append(o, x))
<1> DEFINE q == Append(o, x)
<1>1. /\ q[Len(o) + 1] = x /\ \A k \in 1..Len(o) : q[k] = o[k]
      /\ \A k \in 1..Len(q) : k \in 1..Len(o) \/ k = Len(o) + 1
  BY OneMore
<1> HIDE DEF q
<1>2. Sourced(a, q)
  BY <1>1 DEF Sourced
<1> QED BY <1>2 DEF q

\* What was passed stays passed.
LEMMA SourcedLater ==
    ASSUME NEW a \in Nat, NEW b \in Nat, a <= b, NEW o, Sourced(a, o)
    PROVE  Sourced(b, o)
<1>1. \A m \in 1..(a - 1) : m \in 1..(b - 1)
  OBVIOUS
<1> QED BY <1>1 DEF Sourced

\* Any node but a definition of a footnote.
LEMMA NotedMore ==
    ASSUME NEW t, NEW a \in Nat, NEW o \in Seq(Nodes), Noted(t, a, o), NEW x \in Nodes,
           x.type # "footnoteDefinition"
    PROVE  Noted(t, a, Append(o, x))
<1> DEFINE q == Append(o, x)
<1>1. /\ q[Len(o) + 1] = x /\ \A k \in 1..Len(o) : q[k] = o[k] /\ k \in 1..Len(q)
      /\ \A k \in 1..Len(q) : k \in 1..Len(o) \/ k = Len(o) + 1
  <2>1. /\ Len(o) \in Nat /\ Len(q) = Len(o) + 1 /\ q[Len(o) + 1] = x
        /\ \A k \in 1..Len(o) : q[k] = o[k]
        /\ \A k \in 1..Len(q) : k \in 1..Len(o) \/ k = Len(o) + 1
    BY OneMore
  <2> HIDE DEF q
  <2> QED BY <2>1
<1> HIDE DEF q
<1>2. ASSUME NEW f \in 1..(a - 1), t[f].kind = "footnote"
      PROVE  \E k \in 1..Len(q) : q[k].type = "footnoteDefinition" /\ q[k].from = f
  <2>1. PICK k \in 1..Len(o) : o[k].type = "footnoteDefinition" /\ o[k].from = f
    BY <1>2 DEF Noted
  <2> QED BY <1>1, <2>1
<1>3. ASSUME NEW j \in 1..Len(q), NEW k \in 1..Len(q), q[j].type = "footnoteDefinition",
             q[k].type = "footnoteDefinition", q[j].from = q[k].from
      PROVE  j = k
  <2>1. j \in 1..Len(o) /\ k \in 1..Len(o)
    BY <1>1, <1>3
  <2> QED BY <1>1, <1>3, <2>1 DEF Noted
<1>4. Noted(t, a, q)
  BY <1>2, <1>3 DEF Noted
<1> QED BY <1>4 DEF q

\* No footnote is passed.
LEMMA NotedJump ==
    ASSUME NEW t, NEW a \in Nat, NEW b \in Nat, a <= b, NEW o, Noted(t, a, o),
           \A f \in a..(b - 1) : t[f].kind # "footnote"
    PROVE  Noted(t, b, o)
<1>1. \A f \in 1..(b - 1) : f \in 1..(a - 1) \/ f \in a..(b - 1)
  OBVIOUS
<1> QED BY <1>1 DEF Noted

\* A footnote is passed and defined.
LEMMA NotedNew ==
    ASSUME NEW t, NEW a \in Nat \ {0}, NEW o \in Seq(Nodes), Noted(t, a, o), Sourced(a, o), NEW x \in Nodes,
           x.type = "footnoteDefinition", x.from = a
    PROVE  Noted(t, a + 1, Append(o, x))
<1> DEFINE q == Append(o, x)
<1>1. /\ q[Len(o) + 1] = x /\ \A k \in 1..Len(o) : q[k] = o[k] /\ k \in 1..Len(q)
      /\ Len(o) + 1 \in 1..Len(q)
      /\ \A k \in 1..Len(q) : k \in 1..Len(o) \/ k = Len(o) + 1
  <2>1. /\ Len(o) \in Nat /\ Len(q) = Len(o) + 1 /\ q[Len(o) + 1] = x
        /\ \A k \in 1..Len(o) : q[k] = o[k]
        /\ \A k \in 1..Len(q) : k \in 1..Len(o) \/ k = Len(o) + 1
    BY OneMore
  <2> HIDE DEF q
  <2> QED BY <2>1
<1> HIDE DEF q
<1>2. ASSUME NEW f \in 1..(a + 1 - 1), t[f].kind = "footnote"
      PROVE  \E k \in 1..Len(q) : q[k].type = "footnoteDefinition" /\ q[k].from = f
  <2>1. CASE f = a
    BY <1>1, <2>1
  <2>2. CASE f # a
    <3>1. f \in 1..(a - 1)
      BY <2>2
    <3>2. PICK k \in 1..Len(o) : o[k].type = "footnoteDefinition" /\ o[k].from = f
      BY <1>2, <3>1 DEF Noted
    <3> QED BY <1>1, <3>2
  <2> QED BY <2>1, <2>2
<1>3. ASSUME NEW j \in 1..Len(q), NEW k \in 1..Len(q), q[j].type = "footnoteDefinition",
             q[k].type = "footnoteDefinition", q[j].from = q[k].from
      PROVE  j = k
  <2>1. \A m \in 1..Len(o) : q[m].from # a
    <3>1. \A m \in 1..Len(o) : o[m].from \in 1..(a - 1)
      BY DEF Sourced
    <3> QED BY <1>1, <3>1
  <2>2. CASE j \in 1..Len(o) /\ k \in 1..Len(o)
    BY <1>1, <1>3, <2>2 DEF Noted
  <2>3. CASE ~(j \in 1..Len(o) /\ k \in 1..Len(o))
    BY <1>1, <1>3, <2>1, <2>3
  <2> QED BY <2>2, <2>3
<1>4. Noted(t, a + 1, q)
  BY <1>2, <1>3 DEF Noted
<1> QED BY <1>4 DEF q

-----------------------------------------------------------------------------
(* Words.                                                                  *)

\* The words of a node come after those before it.
LEMMA WordsMore ==
    ASSUME NEW o \in Seq(Nodes), NEW x \in Nodes
    PROVE  /\ AllWords(o) \in Prose /\ Words(x) \in Prose
           /\ AllWords(Append(o, x)) = Then(AllWords(o), Words(x))
<1> DEFINE q == Append(o, x)
           u == [k \in 1..Len(o) |-> Words(o[k])]
           v == [k \in 1..Len(q) |-> Words(q[k])]
<1>1. /\ q \in Seq(Nodes) /\ Len(o) \in Nat /\ Len(q) = Len(o) + 1
      /\ q[Len(o) + 1] = x
      /\ \A k \in 1..Len(o) : q[k] = o[k] /\ o[k] \in Nodes
      /\ \A k \in 1..Len(q) : k \in 1..Len(o) \/ k = Len(o) + 1
  BY OneMore
<1> HIDE DEF q
<1>2. \A n \in Nodes : Words(n) \in Prose
  BY WordsIs
<1>3. u \in [1..Len(o) -> Prose] /\ v \in [1..Len(q) -> Prose]
  BY <1>1, <1>2
<1>4. u \in Seq(Prose) /\ Len(u) = Len(o) /\ v \in Seq(Prose) /\ Len(v) = Len(q)
  BY <1>1, <1>3
<1>5. \A k \in 1..Len(o) : k \in 1..Len(q) /\ v[k] = u[k]
  BY <1>1
<1>6. v[Len(o) + 1] = Words(x)
  BY <1>1
<1>7. AllWords(o) = FlattenSeq(u) /\ AllWords(q) = FlattenSeq(v)
  BY DEF AllWords
<1> HIDE DEF u, v
<1>8. Len(v) = Len(u) + 1 /\ \A k \in 1..Len(u) : v[k] = u[k]
  BY <1>1, <1>4, <1>5
<1>9. FlattenSeq(v) = Then(FlattenSeq(u), v[Len(u) + 1])
  BY <1>4, <1>8, FlattenMore
<1>10. FlattenSeq(u) \in Prose
  BY <1>4, FlattenIn
<1> QED BY <1>2, <1>4, <1>6, <1>7, <1>9, <1>10 DEF q

-----------------------------------------------------------------------------
(* The calls.                                                              *)

\* The fields of a call.
LEMMA CallIs ==
    ASSUME NEW r \in CallRecs
    PROVE  r.node \in Nat /\ r.place \in Nat /\ r.buf \in Prose
BY DEF CallRecs

\* What is known of the last call, and of the node it comes to.
LEMMA TopIs ==
    ASSUME NEW t, Good(t), NEW a, NEW c, NEW o, Standing(t, a, c, o), c # <<>>
    PROVE  LET top == c[Len(c)] IN
           /\ a \in 2..(Len(t) + 1) /\ Len(t) \in Nat
           /\ Len(c) \in Nat \ {0} /\ Len(c) \in 1..Len(c)
           /\ top \in CallRecs /\ top.node \in 1..Len(t) /\ top.node < a /\ top.buf \in Prose
           /\ t[top.node].kind \in Containers
           /\ top.place \in 1..Len(o)
           /\ o[top.place].type \in Becomes(t[top.node].kind)
           /\ o[top.place].from = Seat(t, top.node)
           /\ t[top.node].last \in top.node..Len(t) /\ a <= t[top.node].last + 1
           /\ top.buf # <<>> => t[top.node].kind \in Runs
           /\ a <= t[top.node].last =>
                  /\ a \in 2..Len(t) /\ t[a].parent = top.node
                  /\ t[a].kind \in Holds(t[top.node].kind)
                  /\ t[a].last \in a..t[top.node].last
<1> DEFINE top == c[Len(c)]
<1>1. a \in 2..(Len(t) + 1) /\ c \in Seq(CallRecs) /\ Walking(t, a, c)
  BY DEF Standing
<1>2. Len(t) \in Nat /\ Len(c) \in Nat \ {0} /\ Len(c) \in 1..Len(c)
  BY <1>1, TreeIs, EmptySeq
<1>3. top \in CallRecs
  BY <1>1, <1>2, ElementOfSeq
<1>4. Seated(t, a, top, o)
  BY <1>2 DEF Standing
<1>5. /\ a <= t[top.node].last + 1
      /\ a <= t[top.node].last => t[a].parent = top.node
      /\ top.buf # <<>> => t[top.node].kind \in Runs
  BY <1>1 DEF Walking
<1> HIDE DEF top
<1>6. top.node \in Nat /\ top.buf \in Prose
  BY <1>3, CallIs
<1>7. /\ top.node \in 1..Len(t) /\ top.node < a
      /\ t[top.node].kind \in Containers
      /\ top.place \in 1..Len(o)
      /\ o[top.place].type \in Becomes(t[top.node].kind)
      /\ o[top.place].from = Seat(t, top.node)
  BY <1>1, <1>2, <1>4, <1>6 DEF Seated
<1>8. t[top.node].last \in top.node..Len(t)
  BY <1>7, TreeIs
<1>9. ASSUME a <= t[top.node].last
      PROVE  /\ a \in 2..Len(t) /\ t[a].kind \in Holds(t[top.node].kind)
             /\ t[a].last \in a..t[top.node].last
  <2>1. a \in 2..Len(t) /\ a \in 1..Len(t) /\ a \in top.node..t[top.node].last
    BY <1>1, <1>2, <1>7, <1>8, <1>9
  <2>2. t[a].kind \in Holds(t[t[a].parent].kind)
    BY <2>1, TreeIs
  <2>3. t[a].last \in a..Len(t)
    BY <2>1, TreeIs
  <2>4. t[a].last <= t[top.node].last
    BY <1>7, <2>1, TreeIs
  <2> QED BY <1>5, <1>8, <1>9, <2>1, <2>2, <2>3, <2>4
<1> QED BY <1>1, <1>2, <1>3, <1>5, <1>6, <1>7, <1>8, <1>9 DEF top

\* The walk stands where it stood while the tree grows.
LEMMA StandGrown ==
    ASSUME NEW t, NEW a, NEW c, NEW o, Standing(t, a, c, o), NEW q,
           Len(o) \in Nat, Len(q) \in Nat, Len(o) <= Len(q), \A k \in 1..Len(o) : q[k] = o[k]
    PROVE  Standing(t, a, c, q)
<1>1. \A k \in 1..Len(c) : Seated(t, a, c[k], q)
  <2> SUFFICES ASSUME NEW k \in 1..Len(c) PROVE Seated(t, a, c[k], q)
    OBVIOUS
  <2>1. Seated(t, a, c[k], o)
    BY DEF Standing
  <2>2. c[k].place \in 1..Len(o)
    BY <2>1 DEF Seated
  <2>3. c[k].place \in 1..Len(q) /\ q[c[k].place] = o[c[k].place]
    BY <2>2
  <2> QED BY <2>1, <2>3 DEF Seated
<1> QED BY <1>1 DEF Standing

Holding(c, b) == [c EXCEPT ![Len(c)].buf = b]

\* The last call with other text.
LEMMA HoldingIs ==
    ASSUME NEW c \in Seq(CallRecs), c # <<>>, NEW b \in Prose
    PROVE  LET d == Holding(c, b) IN
           /\ d \in Seq(CallRecs) /\ d # <<>> /\ Len(c) \in Nat \ {0} /\ Len(d) = Len(c)
           /\ \A k \in 1..Len(c) : d[k].node = c[k].node /\ d[k].place = c[k].place
           /\ \A k \in 1..(Len(c) - 1) : d[k] = c[k]
           /\ d[Len(c)].buf = b
<1> DEFINE n == Len(c)
           r == [c[n] EXCEPT !.buf = b]
           d == Holding(c, b)
<1>1. n \in Nat \ {0} /\ n \in 1..n
  BY EmptySeq
<1>2. c[n] \in CallRecs
  BY <1>1, ElementOfSeq
<1>3. r \in CallRecs /\ r.node = c[n].node /\ r.place = c[n].place /\ r.buf = b
  BY <1>2 DEF CallRecs
<1>4. d = [c EXCEPT ![n] = r]
  BY DEF Holding
<1> HIDE DEF r, n, d
<1>5. n = Len(c)
  BY DEF n
<1>6. d \in Seq(CallRecs) /\ Len(d) = Len(c) /\ \A j \in 1..Len(c) : d[j] = IF j = n THEN r ELSE c[j]
  <2>1. n \in 1..Len(c)
    BY <1>1, <1>5
  <2> QED BY <1>3, <1>4, <2>1, ExceptSeq
<1>7. d # <<>>
  BY <1>1, <1>5, <1>6, EmptySeq
<1>8. \A k \in 1..(n - 1) : d[k] = c[k]
  BY <1>1, <1>5, <1>6
<1>9. \A k \in 1..n : d[k].node = c[k].node /\ d[k].place = c[k].place
  BY <1>3, <1>5, <1>6
<1>10. d[n].buf = b
  BY <1>1, <1>3, <1>5, <1>6
<1> QED BY <1>1, <1>5, <1>6, <1>7, <1>8, <1>9, <1>10 DEF d

\* The calls before the last are as they were, and it holds another text.
LEMMA StandHolding ==
    ASSUME NEW t, NEW a \in Nat, NEW c, NEW o, Standing(t, a, c, o), c # <<>>, NEW b \in Prose, NEW e \in Nat, a <= e
    PROVE  LET d == Holding(c, b) IN
           /\ \A k \in 1..Len(d) : Seated(t, e, d[k], o)
           /\ Nested(t, d)
<1> DEFINE d == Holding(c, b)
<1>1. c \in Seq(CallRecs) /\ Nested(t, c) /\ \A k \in 1..Len(c) : Seated(t, a, c[k], o)
  BY DEF Standing
<1>2. /\ d # <<>> /\ Len(c) \in Nat \ {0} /\ Len(d) = Len(c)
      /\ \A k \in 1..Len(c) : d[k].node = c[k].node /\ d[k].place = c[k].place
      /\ \A k \in 1..(Len(c) - 1) : d[k] = c[k]
  BY <1>1, HoldingIs
<1> HIDE DEF d
<1>3. ASSUME NEW k \in 1..Len(d) PROVE Seated(t, e, d[k], o)
  <2>1. Seated(t, a, c[k], o) /\ d[k].node = c[k].node /\ d[k].place = c[k].place
    BY <1>1, <1>2
  <2>2. \A m \in 1..(a - 1) : m \in 1..(e - 1)
    OBVIOUS
  <2> QED BY <2>1, <2>2 DEF Seated
<1>4. Nested(t, d)
  <2>1. d[1].node = 1
    <3>1. c[1].node = 1 /\ 1 \in 1..Len(c)
      BY <1>1, <1>2 DEF Nested
    <3> QED BY <1>2, <3>1
  <2>2. ASSUME NEW k \in 2..Len(d)
        PROVE  /\ t[d[k].node].parent = d[k - 1].node
               /\ t[d[k].node].kind # "footnotes" => d[k - 1].place < d[k].place
    <3>1. k \in 2..Len(c) /\ k \in 1..Len(c) /\ k - 1 \in 1..Len(c)
      BY <1>2
    <3>2. /\ t[c[k].node].parent = c[k - 1].node
          /\ t[c[k].node].kind # "footnotes" => c[k - 1].place < c[k].place
      BY <1>1, <3>1 DEF Nested
    <3> QED BY <1>2, <3>1, <3>2
  <2>3. ASSUME NEW k \in 1..Len(d), NEW j \in 1..k PROVE d[j].place <= d[k].place
    <3>1. j \in 1..Len(c) /\ k \in 1..Len(c)
      BY <1>2
    <3>2. c[j].place <= c[k].place
      BY <1>1, <3>1 DEF Nested
    <3> QED BY <1>2, <3>1, <3>2
  <2>4. ASSUME NEW k \in 1..(Len(d) - 1) PROVE d[k].buf = <<>>
    <3>1. k \in 1..(Len(c) - 1)
      BY <1>2
    <3>2. c[k].buf = <<>> /\ d[k] = c[k]
      BY <1>1, <1>2, <3>1 DEF Nested
    <3> QED BY <3>2
  <2> QED BY <2>1, <2>2, <2>3, <2>4 DEF Nested
<1> QED BY <1>3, <1>4 DEF d

\* What is next is done with.
LEMMA StandPast ==
    ASSUME NEW t, Good(t), NEW a, NEW c, NEW o, Standing(t, a, c, o), c # <<>>,
           a <= t[c[Len(c)].node].last, NEW b \in Prose, b # <<>> => t[c[Len(c)].node].kind \in Runs
    PROVE  Standing(t, t[a].last + 1, Holding(c, b), o)
<1> DEFINE top == c[Len(c)]
           m == top.node
           e == t[a].last + 1
           d == Holding(c, b)
<1>1. /\ a \in 2..Len(t) /\ Len(t) \in Nat /\ t[a].parent = m /\ t[m].last \in m..Len(t)
      /\ t[a].last \in a..t[m].last
  BY TopIs
<1>2. e \in 2..(Len(t) + 1) /\ e \in Nat /\ a \in Nat /\ a <= e
  BY <1>1
<1>3. c \in Seq(CallRecs)
  BY DEF Standing
<1>4. /\ d \in Seq(CallRecs) /\ d # <<>> /\ Len(c) \in Nat \ {0} /\ Len(d) = Len(c)
      /\ d[Len(c)].node = m /\ d[Len(c)].buf = b
  <2>1. /\ d \in Seq(CallRecs) /\ d # <<>> /\ Len(c) \in Nat \ {0} /\ Len(d) = Len(c)
        /\ \A k \in 1..Len(c) : d[k].node = c[k].node
        /\ d[Len(c)].buf = b
    BY <1>3, HoldingIs
  <2> HIDE DEF d
  <2>2. Len(c) \in 1..Len(c)
    BY <2>1
  <2> QED BY <2>1, <2>2
<1>5. (\A k \in 1..Len(d) : Seated(t, e, d[k], o)) /\ Nested(t, d)
  <2> HIDE DEF e
  <2> QED BY <1>2, StandHolding
<1> HIDE DEF d
<1>6. Walking(t, e, d)
  <2>1. e <= t[m].last => t[e].parent = m
    <3>1. t[a].last < t[t[a].parent].last => t[t[a].last + 1].parent = t[a].parent
      BY <1>1, TreeIs
    <3> QED BY <1>1, <3>1
  <2>2. e <= t[m].last + 1
    BY <1>1
  <2> HIDE DEF e
  <2> QED BY <1>4, <2>1, <2>2 DEF Walking
<1> HIDE DEF e
<1>7. Standing(t, e, d, o)
  BY <1>2, <1>4, <1>5, <1>6 DEF Standing
<1> QED BY <1>7 DEF d, e

\* What is next begins a call.
LEMMA StandDown ==
    ASSUME NEW t, Good(t), NEW a, NEW c, NEW o, Standing(t, a, c, o), c # <<>>,
           a <= t[c[Len(c)].node].last, t[a].kind \in Walked,
           NEW p \in 1..Len(o), o[p].type \in Becomes(t[a].kind), o[p].from = Seat(t, a),
           IF t[a].kind = "footnotes" THEN c[Len(c)].place <= p ELSE c[Len(c)].place < p
    PROVE  Standing(t, a + 1, Append(Holding(c, <<>>), Call(a, p)), o)
<1> DEFINE n == Len(c)
           top == c[n]
           d == Holding(c, <<>>)
           r == Call(a, p)
           f == Append(d, r)
<1>1. /\ a \in 2..Len(t) /\ Len(t) \in Nat /\ t[a].parent = top.node /\ n \in Nat \ {0}
      /\ top \in CallRecs /\ t[a].last \in a..Len(t)
  BY TopIs
<1>2. c \in Seq(CallRecs) /\ <<>> \in Prose
  BY EmptySeq DEF Standing, Prose
<1>3. /\ d \in Seq(CallRecs) /\ d # <<>> /\ Len(d) = n
      /\ \A k \in 1..n : d[k].node = c[k].node /\ d[k].place = c[k].place
      /\ d[n].buf = <<>>
  BY <1>2, HoldingIs
<1>4. (\A k \in 1..n : Seated(t, a + 1, d[k], o)) /\ Nested(t, d)
  <2> DEFINE e == a + 1
  <2>1. e \in Nat /\ a \in Nat /\ a <= e
    BY <1>1
  <2> HIDE DEF e
  <2>2. (\A k \in 1..Len(d) : Seated(t, e, d[k], o)) /\ Nested(t, d)
    BY <1>2, <2>1, StandHolding
  <2> QED BY <1>3, <2>2 DEF e
<1>5. r \in CallRecs /\ r.node = a /\ r.place = p /\ r.buf = <<>>
  <2>1. p \in Nat /\ a \in Nat
    BY <1>1
  <2> QED BY <1>2, <2>1 DEF Call, CallRecs
<1> HIDE DEF d, r
<1>6. /\ f \in Seq(CallRecs) /\ f # <<>> /\ Len(f) = n + 1 /\ f[n + 1] = r
      /\ \A k \in 1..n : f[k] = d[k]
  BY <1>3, <1>5, AppendProperties
<1> HIDE DEF f
<1>7. Seated(t, a + 1, r, o)
  <2>1. a \in 1..(a + 1 - 1) /\ a <= Len(t) /\ t[a].kind \in Containers
    BY <1>1 DEF Containers
  <2> QED BY <1>5, <2>1 DEF Seated
<1>8. \A k \in 1..Len(f) : Seated(t, a + 1, f[k], o)
  <2>1. \A k \in 1..Len(f) : k \in 1..n \/ k = n + 1
    BY <1>1, <1>6
  <2> QED BY <1>4, <1>6, <1>7, <2>1
<1>9. top.place \in Nat /\ n \in 1..n
  BY <1>1, CallIs
<1>10. d[n].node = top.node /\ d[n].place = top.place
  BY <1>3, <1>9
<1>11. Nested(t, f)
  <2>1. f[1].node = 1
    <3>1. 1 \in 1..n
      BY <1>1
    <3> QED BY <1>3, <1>4, <1>6, <3>1 DEF Nested
  <2>2. ASSUME NEW k \in 2..Len(f)
        PROVE  /\ t[f[k].node].parent = f[k - 1].node
               /\ t[f[k].node].kind # "footnotes" => f[k - 1].place < f[k].place
    <3>1. CASE k \in 2..n
      <4>1. k \in 1..n /\ k - 1 \in 1..n /\ k \in 2..Len(d)
        BY <1>1, <1>3, <3>1
      <4>2. /\ t[d[k].node].parent = d[k - 1].node
            /\ t[d[k].node].kind # "footnotes" => d[k - 1].place < d[k].place
        BY <1>4, <4>1 DEF Nested
      <4>3. f[k] = d[k] /\ f[k - 1] = d[k - 1]
        BY <1>6, <4>1
      <4> QED BY <4>2, <4>3
    <3>2. CASE k = n + 1
      <4>1. f[k] = r /\ f[k - 1] = d[n]
        <5>1. k - 1 = n
          BY <1>1, <3>2
        <5> QED BY <1>6, <1>9, <3>2, <5>1
      <4> QED BY <1>1, <1>5, <1>10, <4>1
    <3>3. k \in 2..n \/ k = n + 1
      BY <1>1, <1>6
    <3> QED BY <3>1, <3>2, <3>3
  <2>3. ASSUME NEW k \in 1..Len(f), NEW j \in 1..k PROVE f[j].place <= f[k].place
    <3>1. CASE k \in 1..n
      <4>1. j \in 1..n /\ f[j] = d[j] /\ f[k] = d[k] /\ k \in 1..Len(d)
        BY <1>1, <1>3, <1>6, <3>1
      <4> QED BY <1>4, <4>1 DEF Nested
    <3>2. CASE k = n + 1 /\ j = n + 1
      BY <1>1, <1>5, <1>6, <3>2
    <3>3. CASE k = n + 1 /\ j \in 1..n
      <4>1. f[k].place = p /\ f[j] = d[j] /\ n \in 1..Len(d)
        BY <1>3, <1>5, <1>6, <1>9, <3>3
      <4>2. d[j].place <= d[n].place
        BY <1>4, <3>3, <4>1 DEF Nested
      <4>3. d[j].place \in Nat
        <5>1. d[j] \in CallRecs
          BY <1>3, <3>3, ElementOfSeq
        <5> QED BY <5>1, CallIs
      <4>4. top.place <= p
        BY <1>1, <1>9
      <4> QED BY <1>9, <1>10, <4>1, <4>2, <4>3, <4>4
    <3>4. k \in 1..n \/ (k = n + 1 /\ (j = n + 1 \/ j \in 1..n))
      BY <1>1, <1>6
    <3> QED BY <3>1, <3>2, <3>3, <3>4
  <2>4. ASSUME NEW k \in 1..(Len(f) - 1) PROVE f[k].buf = <<>>
    <3>1. k \in 1..n
      BY <1>1, <1>6
    <3>2. CASE k = n
      BY <1>3, <1>6, <3>1, <3>2
    <3>3. CASE k # n
      <4>1. k \in 1..(Len(d) - 1)
        BY <1>1, <1>3, <3>1, <3>3
      <4> QED BY <1>4, <1>6, <3>1, <4>1 DEF Nested
    <3> QED BY <3>2, <3>3
  <2> QED BY <2>1, <2>2, <2>3, <2>4 DEF Nested
<1>12. Walking(t, a + 1, f)
  <2> DEFINE e == a + 1
  <2>1. e <= t[a].last + 1 /\ (e <= t[a].last => t[e].parent = a)
    <3>1. a \in 1..Len(t)
      BY <1>1
    <3>2. a < t[a].last => t[a + 1].parent = a
      BY <3>1, TreeIs
    <3> QED BY <1>1, <3>2
  <2> HIDE DEF e
  <2>2. f[Len(f)] = r
    BY <1>6
  <2>3. Walking(t, e, f)
    BY <1>5, <1>6, <2>1, <2>2 DEF Walking
  <2> QED BY <2>3 DEF e
<1>13. a + 1 \in 2..(Len(t) + 1)
  BY <1>1
<1>14. Standing(t, a + 1, f, o)
  BY <1>6, <1>8, <1>11, <1>12, <1>13 DEF Standing
<1> QED BY <1>14 DEF d, r, f

\* The calls but the last.
LEMMA FrontIs ==
    ASSUME NEW c \in Seq(CallRecs), c # <<>>
    PROVE  /\ Front(c) \in Seq(CallRecs) /\ Len(c) \in Nat \ {0} /\ Len(Front(c)) = Len(c) - 1
           /\ \A k \in 1..(Len(c) - 1) : Front(c)[k] = c[k]
           /\ Front(c) = <<>> <=> Len(c) = 1
<1> DEFINE m == Len(c) - 1
           d == Front(c)
<1>1. Len(c) \in Nat \ {0}
  BY EmptySeq
<1>2. m \in 0..Len(c)
  BY <1>1
<1>3. d = Initial(c, m)
  BY DEF Front, Initial
<1> HIDE DEF m, d
<1>4. d \in Seq(CallRecs) /\ Len(d) = m /\ \A k \in 1..m : d[k] = c[k]
  BY <1>2, <1>3, InitialIs
<1>5. d = <<>> <=> m = 0
  BY <1>2, <1>4, EmptySeq
<1> QED BY <1>1, <1>4, <1>5 DEF m, d

\* A call returns.
LEMMA StandUp ==
    ASSUME NEW t, Good(t), NEW a, NEW c, NEW o, Standing(t, a, c, o), c # <<>>,
           a > t[c[Len(c)].node].last
    PROVE  Standing(t, a, Front(c), o)
<1> DEFINE n == Len(c)
           top == c[n]
           d == Front(c)
<1>1. /\ a \in 2..(Len(t) + 1) /\ Len(t) \in Nat /\ n \in Nat \ {0} /\ n \in 1..n
      /\ top.node \in 1..Len(t) /\ t[top.node].last \in top.node..Len(t) /\ a <= t[top.node].last + 1
  BY TopIs
<1>2. a = t[top.node].last + 1
  BY <1>1
<1>3. c \in Seq(CallRecs) /\ Nested(t, c) /\ \A k \in 1..n : Seated(t, a, c[k], o)
  BY DEF Standing
<1>4. /\ d \in Seq(CallRecs) /\ Len(d) = n - 1
      /\ \A k \in 1..(n - 1) : d[k] = c[k]
      /\ d = <<>> <=> n = 1
  BY <1>3, FrontIs
<1> HIDE DEF d
<1>5. \A k \in 1..Len(d) : k \in 1..n /\ d[k] = c[k] /\ Seated(t, a, d[k], o)
  BY <1>1, <1>3, <1>4
<1>6. Nested(t, d)
  <2>1. d # <<>> => d[1].node = 1
    <3>1. d # <<>> => 1 \in 1..Len(d)
      BY <1>1, <1>4
    <3>2. c[1].node = 1
      <4>1. c # <<>>
        OBVIOUS
      <4> QED BY <1>3, <4>1 DEF Nested
    <3> QED BY <1>5, <3>1, <3>2
  <2>2. ASSUME NEW k \in 2..Len(d)
        PROVE  /\ t[d[k].node].parent = d[k - 1].node
               /\ t[d[k].node].kind # "footnotes" => d[k - 1].place < d[k].place
    <3>1. k \in 2..n /\ k \in 1..Len(d) /\ k - 1 \in 1..Len(d)
      BY <1>1, <1>4
    <3> QED BY <1>3, <1>5, <3>1 DEF Nested
  <2>3. ASSUME NEW k \in 1..Len(d), NEW j \in 1..k PROVE d[j].place <= d[k].place
    <3>1. j \in 1..Len(d) /\ k \in 1..n
      BY <1>1, <1>4
    <3> QED BY <1>3, <1>5, <3>1 DEF Nested
  <2>4. ASSUME NEW k \in 1..(Len(d) - 1) PROVE d[k].buf = <<>>
    <3>1. k \in 1..Len(d) /\ k \in 1..(n - 1)
      BY <1>1, <1>4
    <3> QED BY <1>3, <1>5, <3>1 DEF Nested
  <2> QED BY <2>1, <2>2, <2>3, <2>4 DEF Nested
<1>7. Walking(t, a, d)
  <2>1. CASE n = 1
    <3>1. top.node = 1
      <4>1. c[1].node = 1
        BY <1>3 DEF Nested
      <4> QED BY <2>1, <4>1
    <3>2. t[1].last = Len(t)
      BY TreeIs
    <3>3. d = <<>> /\ a = Len(t) + 1
      BY <1>2, <1>4, <2>1, <3>1, <3>2
    <3> QED BY <3>3 DEF Walking
  <2>2. CASE n # 1
    <3> DEFINE i == top.node
               r == c[n - 1]
               p == r.node
    <3>1. n \in 2..n /\ n - 1 \in 1..n /\ n - 1 \in 1..(n - 1) /\ n - 1 \in 1..Len(d)
      BY <1>1, <1>4, <2>2
    <3>2. t[i].parent = p /\ r.buf = <<>>
      BY <1>3, <3>1 DEF Nested
    <3>3. Seated(t, a, r, o)
      BY <1>3, <3>1
    <3>4. p \in Nat
      <4>1. r \in CallRecs
        BY <1>3, <3>1, ElementOfSeq
      <4> QED BY <4>1, CallIs
    <3>5. p \in 1..Len(t)
      BY <1>1, <3>3, <3>4 DEF Seated
    <3>6. i \in 2..Len(t)
      <4>1. t[1].parent = 0
        BY TreeIs
      <4>2. i # 1
        BY <3>2, <3>5, <4>1
      <4> QED BY <1>1, <4>2
    <3>7. p \in 1..(i - 1) /\ i <= t[p].last /\ (t[i].last < t[p].last => t[t[i].last + 1].parent = p)
      BY <3>2, <3>6, TreeIs
    <3>8. t[p].last \in p..Len(t) /\ \A j \in p..t[p].last : t[j].last <= t[p].last
      BY <3>5, TreeIs
    <3>9. t[i].last <= t[p].last
      <4>1. i \in p..t[p].last
        BY <3>5, <3>6, <3>7, <3>8
      <4> QED BY <3>8, <4>1
    <3>10. a <= t[p].last + 1 /\ (a <= t[p].last => t[a].parent = p)
      <4> DEFINE x == t[i].last
                 y == t[p].last
      <4>1. x \in Int /\ y \in Int /\ x <= y /\ a = x + 1 /\ (x < y => t[x + 1].parent = p)
        BY <1>1, <1>2, <3>7, <3>8, <3>9
      <4> HIDE DEF x, y, p
      <4>2. a <= y + 1 /\ (a <= y => x < y)
        BY <4>1
      <4>3. a <= y => t[a].parent = p
        BY <4>1, <4>2
      <4> QED BY <4>2, <4>3 DEF y
    <3>11. d # <<>> /\ d[Len(d)] = r
      BY <1>4, <1>5, <2>2, <3>1
    <3> HIDE DEF r
    <3> QED BY <3>2, <3>10, <3>11 DEF Walking
  <2> QED BY <2>1, <2>2
<1>8. Standing(t, a, d, o)
  BY <1>1, <1>4, <1>5, <1>6, <1>7 DEF Standing
<1> QED BY <1>8 DEF d

-----------------------------------------------------------------------------
(* Steps of the walk.                                                      *)

\* A node is jumped over.
LEMMA CoveredPast ==
    ASSUME NEW t, Good(t), NEW a \in 1..Len(t), Covered(t, a)
    PROVE  Covered(t, t[a].last + 1)
<1> DEFINE e == t[a].last + 1
<1>1. /\ Len(t) \in Nat /\ t[a].last \in a..Len(t) /\ \A m \in 1..Len(t) : t[m].last \in m..Len(t)
      /\ \A j \in a..t[a].last : t[j].last <= t[a].last
  BY TreeIs
<1>2. ASSUME NEW m \in 1..(e - 1), e <= t[m].last PROVE t[m].kind \in Containers
  <2>1. m \in 1..Len(t) /\ t[m].last \in Int
    BY <1>1
  <2>2. m \in 1..(a - 1)
    <3>1. ~(m \in a..t[a].last)
      BY <1>1, <1>2, <2>1
    <3> QED BY <1>1, <3>1
  <2>3. a <= t[m].last
    BY <1>1, <1>2, <2>1
  <2> QED BY <2>2, <2>3 DEF Covered
<1> HIDE DEF e
<1>3. Covered(t, e)
  BY <1>2 DEF Covered
<1> QED BY <1>3 DEF e

\* A container is gone into.
LEMMA CoveredIn ==
    ASSUME NEW t, Good(t), NEW a \in 1..Len(t), Covered(t, a), t[a].kind \in Containers
    PROVE  Covered(t, a + 1)
<1>1. Len(t) \in Nat /\ \A m \in 1..Len(t) : t[m].last \in m..Len(t)
  BY TreeIs
<1>2. ASSUME NEW m \in 1..(a + 1 - 1), a + 1 <= t[m].last PROVE t[m].kind \in Containers
  <2>1. CASE m = a
    BY <2>1
  <2>2. CASE m # a
    <3>1. m \in 1..(a - 1) /\ m \in 1..Len(t)
      BY <1>1, <2>2
    <3>2. a <= t[m].last
      BY <1>1, <1>2, <3>1
    <3> QED BY <3>1, <3>2 DEF Covered
  <2> QED BY <2>1, <2>2
<1> QED BY <1>2 DEF Covered

\* Text of its own does not end what the call has made while more but a backlink comes.
LEMMA NotEnded ==
    ASSUME Good(input), NEW a, NEW c, NEW o, Standing(input, a, c, o), Shut(input, a, c, o), c # <<>>,
           a <= input[c[Len(c)].node].last, Kind(a) # "backlink"
    PROVE  ~Ended(c[Len(c)], o)
<1>1. a \in Int /\ input[c[Len(c)].node].last \in Int
  BY TopIs
<1> QED BY <1>1 DEF Shut, Kind

\* What the last call makes hangs on the node it makes it for.
LEMMA SeatIs ==
    ASSUME Good(input), NEW a, NEW c, NEW o, Standing(input, a, c, o), c # <<>>
    PROVE  LET top == c[Len(c)] IN
           /\ a <= input[top.node].last => o[top.place].from = Seat(input, input[a].parent)
           /\ Kind(top.node) \in Runs => o[top.place].from = top.node
<1>1. /\ o[c[Len(c)].place].from = Seat(input, c[Len(c)].node)
      /\ a <= input[c[Len(c)].node].last => input[a].parent = c[Len(c)].node
  BY TopIs
<1>2. "footnotes" \notin Runs
  BY HoldsIs
<1> QED BY <1>1, <1>2 DEF Seat, Kind

\* The last call makes one node more.
LEMMA Grow ==
    ASSUME Good(input), NEW a, NEW c, NEW o, Body(a, c, o), c # <<>>, NEW x \in Nodes,
           x.parent = c[Len(c)].place,
           \/ x.type \in {"text", "break"} /\ x.from = c[Len(c)].node /\ Kind(c[Len(c)].node) \in Runs
           \/ /\ x.type \in Becomes(Kind(a)) /\ x.from = a
              /\ a <= input[c[Len(c)].node].last /\ Kind(a) # "footnotes",
           x.type = "text" => x.value # <<>> /\ ~Ended(c[Len(c)], o)
    PROVE  Body(a, c, Append(o, x))
<1> DEFINE top == c[Len(c)]
           p == top.place
           q == Append(o, x)
<1>1. Hangs(input, o) /\ Standing(input, a, c, o) /\ Apart(input, o) /\ Low(c, o) /\ o \in Seq(Nodes) /\ o # <<>>
  BY DEF Body, Hangs
<1>2. /\ Len(c) \in Nat \ {0} /\ Len(c) \in 1..Len(c) /\ p \in 1..Len(o) /\ p \in Nat
      /\ Kind(top.node) \in Containers
      /\ o[p].type \in Becomes(Kind(top.node))
      /\ a <= input[top.node].last => Kind(a) \in Holds(Kind(top.node))
  <2>1. /\ Len(c) \in Nat \ {0} /\ Len(c) \in 1..Len(c) /\ top \in CallRecs
        /\ top.place \in 1..Len(o)
        /\ input[top.node].kind \in Containers
        /\ o[top.place].type \in Becomes(input[top.node].kind)
        /\ a <= input[top.node].last => input[a].kind \in Holds(input[top.node].kind)
    BY <1>1, TopIs
  <2>2. top.place \in Nat
    BY <2>1, CallIs
  <2> HIDE DEF top
  <2> QED BY <2>1, <2>2 DEF Kind
<1>3. /\ q \in Seq(Nodes) /\ Len(o) \in Nat /\ Len(q) = Len(o) + 1
      /\ q[Len(q)] = x /\ \A k \in 1..Len(o) : q[k] = o[k]
  BY <1>1, OneMore
<1>4. x.type \in Content(o[p].type)
  <2>1. CASE x.type \in {"text", "break"} /\ Kind(top.node) \in Runs
    BY <1>2, <2>1, TextFits
  <2>2. CASE /\ x.type \in Becomes(Kind(a)) /\ a <= input[top.node].last /\ Kind(a) # "footnotes"
    <3> HIDE DEF top, p
    <3> QED BY <1>2, <2>2, Fits
  <2> QED BY <2>1, <2>2
<1>5. o[p].from = IF x.type \in {"text", "break"} THEN x.from ELSE Seat(input, input[x.from].parent)
  <2>1. /\ a <= input[top.node].last => o[p].from = Seat(input, input[a].parent)
        /\ Kind(top.node) \in Runs => o[p].from = top.node
    BY <1>1, SeatIs
  <2>2. CASE x.type \in {"text", "break"} /\ x.from = top.node /\ Kind(top.node) \in Runs
    BY <2>1, <2>2
  <2>3. CASE x.type \in Becomes(Kind(a)) /\ x.from = a /\ a <= input[top.node].last
    <3>1. x.type \notin {"text", "break"}
      BY <2>3, TextFits
    <3> QED BY <2>1, <2>3, <3>1
  <2> QED BY <2>2, <2>3
<1>6. Hangs(input, q)
  <2> HIDE DEF p, q
  <2>1. x.parent \in 1..Len(o) /\ x.parent = p
    BY <1>2 DEF p
  <2> QED BY <1>1, <1>4, <1>5, <2>1, HangsMore DEF q
<1>7. Standing(input, a, c, q)
  <2>1. Len(o) <= Len(q) /\ Len(q) \in Nat
    BY <1>3
  <2> HIDE DEF q
  <2> QED BY <1>1, <1>3, <2>1, StandGrown
<1>8. Apart(input, q)
  <2>1. x.type = "text" => /\ x.value # <<>> \/ input[x.from].kind = "autolink"
                           /\ ~(o[Len(o)].type = "text" /\ o[Len(o)].parent = x.parent)
    BY DEF Ended
  <2> QED BY <1>1, <2>1, ApartMore
<1>9. Low(c, q)
  <2> SUFFICES ASSUME NEW k \in 1..Len(c) PROVE q[Len(q)].parent >= c[k].place
    BY DEF Low
  <2>1. c[k].place <= p
    <3>1. Nested(input, c)
      BY <1>1 DEF Standing
    <3>2. k \in 1..Len(c) /\ Len(c) \in 1..Len(c)
      BY <1>2
    <3> QED BY <3>1, <3>2 DEF Nested
  <2>2. c[k].place \in Nat
    <3>1. c \in Seq(CallRecs)
      BY <1>1 DEF Standing
    <3>2. c[k] \in CallRecs
      BY <3>1, ElementOfSeq
    <3> QED BY <3>2, CallIs
  <2>3. q[Len(q)].parent = p
    <3> HIDE DEF q
    <3> QED BY <1>3
  <2> HIDE DEF q, p
  <2> QED BY <1>2, <2>1, <2>2, <2>3
<1> HIDE DEF q
<1>10. Body(a, c, q)
  BY <1>6, <1>7, <1>8, <1>9 DEF Body
<1> QED BY <1>10 DEF q

\* The text of a bare link, which is the last node.
LEMMA GrowLink ==
    ASSUME Good(input), NEW a, NEW c, NEW o, Body(a, c, o), c # <<>>, NEW x \in Nodes,
           o[Len(o)].type = "link", o[Len(o)].from = a,
           x.parent = Len(o), x.from = a, x.type = "text", Kind(a) = "autolink"
    PROVE  Body(a, c, Append(o, x))
<1> DEFINE q == Append(o, x)
<1>1. Hangs(input, o) /\ Standing(input, a, c, o) /\ Apart(input, o) /\ Low(c, o) /\ o \in Seq(Nodes) /\ o # <<>>
  BY DEF Body, Hangs
<1>2. Len(o) \in 1..Len(o)
  BY <1>1, EmptySeq
<1>3. /\ q \in Seq(Nodes) /\ Len(o) \in Nat /\ Len(q) = Len(o) + 1
      /\ q[Len(q)] = x /\ \A k \in 1..Len(o) : q[k] = o[k]
  BY <1>1, OneMore
<1>4. Hangs(input, q)
  <2>1. x.type \in Content(o[x.parent].type)
    BY TextFits
  <2>2. o[x.parent].from = IF x.type \in {"text", "break"} THEN x.from ELSE Seat(input, input[x.from].parent)
    OBVIOUS
  <2>3. x.parent \in 1..Len(o)
    BY <1>2
  <2> HIDE DEF q
  <2> QED BY <1>1, <2>1, <2>2, <2>3, HangsMore DEF q
<1>5. Standing(input, a, c, q)
  <2>1. Len(o) <= Len(q) /\ Len(q) \in Nat
    BY <1>3
  <2> HIDE DEF q
  <2> QED BY <1>1, <1>3, <2>1, StandGrown
<1>6. Apart(input, q)
  <2>1. x.type = "text" => /\ x.value # <<>> \/ input[x.from].kind = "autolink"
                           /\ ~(o[Len(o)].type = "text" /\ o[Len(o)].parent = x.parent)
    BY DEF Kind
  <2> QED BY <1>1, <2>1, ApartMore
<1>7. Low(c, q)
  <2> SUFFICES ASSUME NEW k \in 1..Len(c) PROVE q[Len(q)].parent >= c[k].place
    BY DEF Low
  <2>1. c[k].place \in 1..Len(o)
    BY <1>1 DEF Standing, Seated
  <2>2. q[Len(q)].parent = Len(o)
    <3> HIDE DEF q
    <3> QED BY <1>3
  <2> HIDE DEF q
  <2> QED BY <1>3, <2>1, <2>2
<1> HIDE DEF q
<1>8. Body(a, c, q)
  BY <1>4, <1>5, <1>6, <1>7 DEF Body
<1> QED BY <1>8 DEF q

\* A node is done with.
LEMMA BodyPast ==
    ASSUME Good(input), NEW a, NEW c, NEW o, Body(a, c, o), c # <<>>,
           a <= input[c[Len(c)].node].last, NEW b \in Prose, b # <<>> => Kind(c[Len(c)].node) \in Runs
    PROVE  Body(input[a].last + 1, Holding(c, b), o)
<1> DEFINE d == Holding(c, b)
<1>1. Hangs(input, o) /\ Standing(input, a, c, o) /\ Apart(input, o) /\ Low(c, o) /\ c \in Seq(CallRecs)
  BY DEF Body, Standing
<1>2. Len(d) = Len(c) /\ \A k \in 1..Len(c) : d[k].place = c[k].place
  BY <1>1, HoldingIs
<1>3. Standing(input, input[a].last + 1, d, o)
  BY <1>1, StandPast DEF Kind
<1> HIDE DEF d
<1>4. Low(d, o)
  BY <1>1, <1>2 DEF Low
<1>5. Body(input[a].last + 1, d, o)
  BY <1>1, <1>3, <1>4 DEF Body
<1> QED BY <1>5 DEF d

\* A call is made.
LEMMA BodyDown ==
    ASSUME Good(input), NEW a, NEW c, NEW o, Body(a, c, o), c # <<>>,
           a <= input[c[Len(c)].node].last, Kind(a) \in Walked, NEW p,
           IF Kind(a) = "footnotes" THEN p = c[Len(c)].place
           ELSE /\ p = Len(o) /\ c[Len(c)].place < p
                /\ o[p].type \in Becomes(Kind(a)) /\ o[p].from = a
    PROVE  Body(a + 1, Append(Holding(c, <<>>), Call(a, p)), o)
<1> DEFINE n == Len(c)
           top == c[n]
           d == Holding(c, <<>>)
           r == Call(a, p)
           f == Append(d, r)
<1>1. /\ Hangs(input, o) /\ Standing(input, a, c, o) /\ Apart(input, o) /\ Low(c, o) /\ c \in Seq(CallRecs)
      /\ <<>> \in Prose
  BY EmptySeq DEF Body, Standing, Prose
<1>2. /\ n \in Nat \ {0} /\ n \in 1..n /\ top.place \in 1..Len(o) /\ top \in CallRecs
      /\ o[top.place].type \in Becomes(Kind(top.node))
      /\ o[top.place].from = Seat(input, top.node)
      /\ Kind(top.node) \in Containers
      /\ a \in 2..Len(input) /\ input[a].parent = top.node /\ Kind(a) \in Holds(Kind(top.node))
  <2>1. /\ n \in Nat \ {0} /\ n \in 1..n /\ top.place \in 1..Len(o) /\ top \in CallRecs
        /\ o[top.place].type \in Becomes(input[top.node].kind)
        /\ o[top.place].from = Seat(input, top.node)
        /\ input[top.node].kind \in Containers
        /\ a \in 2..Len(input) /\ input[a].parent = top.node /\ input[a].kind \in Holds(input[top.node].kind)
    BY <1>1, TopIs
  <2> HIDE DEF n, top
  <2> QED BY <2>1 DEF Kind
<1>3. Len(o) \in Nat /\ Len(o) # 0
  <2>1. o \in Seq(Nodes) /\ o # <<>>
    BY <1>1 DEF Hangs
  <2> QED BY <2>1, EmptySeq
<1>4. p \in 1..Len(o) /\ o[p].type \in Becomes(Kind(a)) /\ o[p].from = Seat(input, a)
  <2>1. CASE Kind(a) = "footnotes"
    <3>1. Kind(top.node) = "document"
      BY <1>2, <2>1, HoldsIs
    <3>2. Becomes("document") = Becomes("footnotes")
      BY DEF Becomes
    <3>3. p = top.place /\ o[p].type \in Becomes(Kind(a))
      BY <1>2, <2>1, <3>1, <3>2
    <3>4. Seat(input, a) = top.node /\ Seat(input, top.node) = top.node
      BY <1>2, <2>1, <3>1 DEF Seat, Kind
    <3> QED BY <1>2, <3>3, <3>4
  <2>2. CASE Kind(a) # "footnotes"
    <3>1. Seat(input, a) = a
      BY <2>2 DEF Seat, Kind
    <3> QED BY <1>3, <2>2, <3>1
  <2> QED BY <2>1, <2>2
<1>5. IF input[a].kind = "footnotes" THEN top.place <= p ELSE top.place < p
  <2>1. top.place \in Nat
    BY <1>2, CallIs
  <2> QED BY <2>1 DEF Kind
<1>6. Standing(input, a + 1, f, o)
  <2>1. input[a].kind \in Walked /\ o[p].type \in Becomes(input[a].kind)
    BY <1>4 DEF Kind
  <2> HIDE DEF Seat
  <2> QED BY <1>1, <1>4, <1>5, <2>1, StandDown
<1>7. /\ d \in Seq(CallRecs) /\ Len(d) = n
      /\ \A k \in 1..n : d[k].place = c[k].place
  BY <1>1, HoldingIs
<1>8. r \in CallRecs /\ r.place = p
  <2>1. p \in Nat /\ a \in Nat
    BY <1>2, <1>4
  <2> QED BY <1>1, <2>1 DEF Call, CallRecs
<1> HIDE DEF d, r
<1>9. Len(f) = n + 1 /\ f[n + 1] = r /\ \A k \in 1..n : f[k] = d[k]
  BY <1>7, <1>8, AppendProperties
<1> HIDE DEF f
<1>10. Low(f, o)
  <2> SUFFICES ASSUME NEW k \in 1..Len(f) PROVE Len(o) = f[k].place \/ o[Len(o)].parent >= f[k].place
    BY DEF Low
  <2>1. CASE k \in 1..n
    <3>1. f[k].place = c[k].place
      BY <1>7, <1>9, <2>1
    <3>2. Len(o) = c[k].place \/ o[Len(o)].parent >= c[k].place
      BY <1>1, <2>1 DEF Low
    <3> QED BY <3>1, <3>2
  <2>2. CASE k = n + 1
    <3>1. f[k].place = p
      BY <1>8, <1>9, <2>2
    <3>2. CASE Kind(a) = "footnotes"
      <4>1. p = top.place
        BY <3>2
      <4>2. Len(o) = top.place \/ o[Len(o)].parent >= top.place
        BY <1>1, <1>2 DEF Low
      <4> QED BY <3>1, <4>1, <4>2
    <3>3. CASE Kind(a) # "footnotes"
      BY <3>1, <3>3
    <3> QED BY <3>2, <3>3
  <2>3. k \in 1..n \/ k = n + 1
    BY <1>2, <1>9
  <2> QED BY <2>1, <2>2, <2>3
<1>11. Body(a + 1, f, o)
  BY <1>1, <1>6, <1>10 DEF Body
<1> QED BY <1>11 DEF d, r, f

\* A call returns.
LEMMA BodyUp ==
    ASSUME Good(input), NEW a, NEW c, NEW o, Body(a, c, o), c # <<>>, a > input[c[Len(c)].node].last
    PROVE  Body(a, Front(c), o)
<1> DEFINE d == Front(c)
<1>1. Hangs(input, o) /\ Standing(input, a, c, o) /\ Apart(input, o) /\ Low(c, o) /\ c \in Seq(CallRecs)
  BY DEF Body, Standing
<1>2. Len(c) \in Nat \ {0} /\ Len(d) = Len(c) - 1 /\ \A k \in 1..(Len(c) - 1) : d[k] = c[k]
  BY <1>1, FrontIs
<1>3. Standing(input, a, d, o)
  BY <1>1, StandUp
<1> HIDE DEF d
<1>4. \A k \in 1..Len(d) : k \in 1..Len(c) /\ d[k] = c[k]
  BY <1>2
<1>5. Low(d, o)
  BY <1>1, <1>4 DEF Low
<1>6. Body(a, d, o)
  BY <1>1, <1>3, <1>5 DEF Body
<1> QED BY <1>6 DEF d

-----------------------------------------------------------------------------
(* The words of goldmark's tree.                                           *)

Free(i) == ~Inside(i, "image") /\ ~Inside(i, "codespan")

\* The walk is never in an image or a code span, which are converted at once.
LEMMA FreeIs ==
    ASSUME NEW a, Covered(input, a)
    PROVE  Free(a)
<1>1. "image" \notin Containers /\ "codespan" \notin Containers
  BY DEF Containers, Walked
<1> QED BY <1>1 DEF Free, Inside, Covered, Kind

\* What the end of a line of text reads as.
LineEnd(mark) == CASE mark = "soft" -> NL [] mark = "hard" -> BR [] OTHER -> <<>>

\* The ends of lines, case by case.
LEMMA LineEndIs ==
    /\ \A mark : LineEnd(mark) \in Prose
    /\ LineEnd("soft") = NL /\ LineEnd("hard") = BR
    /\ \A mark : mark \notin {"soft", "hard"} => LineEnd(mark) = <<>>
<1>1. <<>> \in Prose
  BY EmptySeq DEF Prose
<1> QED BY <1>1, BRIs DEF LineEnd

\* SourceWords, case by case.
LEMMA SourceForms ==
    ASSUME NEW i
    PROVE  /\ Inside(i, "image") =>
                  SourceWords(i) = IF Kind(i) = "text" THEN Decoded(input[i].seg) ELSE <<>>
           /\ Inside(i, "codespan") /\ ~Inside(i, "image") => SourceWords(i) = Plain(input[i].seg)
           /\ Free(i) /\ Kind(i) \in {"text", "string"} =>
                  SourceWords(i) = Decoded(input[i].seg) \o LineEnd(input[i].mark)
           /\ Free(i) /\ Kind(i) \in {"autolink", "rawhtml"} => SourceWords(i) = Plain(input[i].seg)
           /\ Free(i) /\ Kind(i) = "fence" => SourceWords(i) = Inked(input[i].info) \o LinesValue(input[i])
           /\ Free(i) /\ Kind(i) = "indented" => SourceWords(i) = LinesValue(input[i])
           /\ Free(i) /\ Kind(i) = "htmlblock" => SourceWords(i) = Plain(KeptLines(input[i]))
           /\ Free(i) /\ Kind(i) \notin {"text", "string", "autolink", "rawhtml", "fence", "indented", "htmlblock"} =>
                  SourceWords(i) = <<>>
<1>1. Inside(i, "image") => SourceWords(i) = IF Kind(i) = "text" THEN Decoded(input[i].seg) ELSE <<>>
  BY DEF SourceWords, Kind
<1>2. Inside(i, "codespan") /\ ~Inside(i, "image") => SourceWords(i) = Plain(input[i].seg)
  BY DEF SourceWords
<1>3. ASSUME Free(i)
      PROVE  /\ Kind(i) \in {"text", "string"} => SourceWords(i) = Decoded(input[i].seg) \o LineEnd(input[i].mark)
             /\ Kind(i) \in {"autolink", "rawhtml"} => SourceWords(i) = Plain(input[i].seg)
             /\ Kind(i) = "fence" => SourceWords(i) = Inked(input[i].info) \o LinesValue(input[i])
             /\ Kind(i) = "indented" => SourceWords(i) = LinesValue(input[i])
             /\ Kind(i) = "htmlblock" => SourceWords(i) = Plain(KeptLines(input[i]))
             /\ Kind(i) \notin {"text", "string", "autolink", "rawhtml", "fence", "indented", "htmlblock"} =>
                    SourceWords(i) = <<>>
  <2>1. ~Inside(i, "image") /\ ~Inside(i, "codespan")
    BY <1>3 DEF Free
  <2>2. Kind(i) \in {"text", "string"} => SourceWords(i) = Decoded(input[i].seg) \o LineEnd(input[i].mark)
    BY <2>1 DEF SourceWords, LineEnd, Kind
  <2>3. Kind(i) \in {"autolink", "rawhtml"} => SourceWords(i) = Plain(input[i].seg)
    BY <2>1 DEF SourceWords, Kind
  <2>4. Kind(i) = "fence" => SourceWords(i) = Inked(input[i].info) \o LinesValue(input[i])
    BY <2>1 DEF SourceWords, Kind
  <2>5. /\ Kind(i) = "indented" => SourceWords(i) = LinesValue(input[i])
        /\ Kind(i) = "htmlblock" => SourceWords(i) = Plain(KeptLines(input[i]))
    BY <2>1 DEF SourceWords, Kind
  <2>6. Kind(i) \notin {"text", "string", "autolink", "rawhtml", "fence", "indented", "htmlblock"} =>
            SourceWords(i) = <<>>
    BY <2>1 DEF SourceWords, Kind
  <2> QED BY <2>2, <2>3, <2>4, <2>5, <2>6
<1> QED BY <1>1, <1>2, <1>3

\* Its words are prose.
LEMMA SourceIn ==
    ASSUME Good(input), NEW i \in 1..Len(input)
    PROVE  SourceWords(i) \in Prose
<1> DEFINE n == input[i]
<1>1. n \in SourceNodes
  BY TreeIs
<1>2. n.seg \in Text /\ n.info \in Text
  BY <1>1 DEF SourceNodes, Text
<1>3. /\ Decoded(n.seg) \in Prose /\ Plain(n.seg) \in Prose /\ <<>> \in Prose
      /\ Inked(n.info) \in Prose /\ LinesValue(n) \in Prose /\ LineEnd(n.mark) \in Prose
      /\ Plain(KeptLines(n)) \in Prose
  <2>1. <<>> \in Prose
    BY EmptySeq DEF Prose
  <2>2. Decoded(n.seg) \in Prose /\ Plain(n.seg) \in Prose
    BY <1>2, DecodedIs, PlainProse
  <2>3. Inked(n.info) \in Prose /\ LinesValue(n) \in Prose /\ Plain(KeptLines(n)) \in Prose
    BY <1>1, <1>2, ShadesIs, LinesIs, HtmlIs
  <2> QED BY <2>1, <2>2, <2>3, LineEndIs
<1> HIDE DEF n
<1>4. Then(Decoded(n.seg), LineEnd(n.mark)) \in Prose /\ Then(Inked(n.info), LinesValue(n)) \in Prose
  BY <1>3, ThenIs
<1>5. CASE Inside(i, "image")
  BY <1>3, <1>5, SourceForms DEF n
<1>6. CASE Inside(i, "codespan") /\ ~Inside(i, "image")
  BY <1>3, <1>6, SourceForms DEF n
<1>7. CASE Free(i)
  <2>1. CASE Kind(i) \in {"text", "string"}
    BY <1>4, <1>7, <2>1, SourceForms DEF n, Then
  <2>2. CASE Kind(i) = "fence"
    BY <1>4, <1>7, <2>2, SourceForms DEF n, Then
  <2>3. CASE Kind(i) \notin {"text", "string", "fence"}
    BY <1>3, <1>7, <2>3, SourceForms DEF n
  <2> QED BY <2>1, <2>2, <2>3
<1> QED BY <1>5, <1>6, <1>7 DEF Free

\* The words up to n, one by one.
Sayings(n) == [i \in 1..n |-> SourceWords(i)]

\* The words up to n are prose.
LEMMA SayingsIs ==
    ASSUME Good(input), NEW n \in 0..Len(input)
    PROVE  /\ Sayings(n) \in Seq(Prose) /\ Len(Sayings(n)) = n /\ \A i \in 1..n : Sayings(n)[i] = SourceWords(i)
           /\ Told(n) = FlattenSeq(Sayings(n)) /\ Told(n) \in Prose
<1>1. n \in Nat /\ Len(input) \in Nat
  BY TreeIs
<1>2. \A i \in 1..n : SourceWords(i) \in Prose
  BY <1>1, SourceIn
<1>3. Sayings(n) \in [1..n -> Prose]
  BY <1>2 DEF Sayings
<1>4. Sayings(n) \in Seq(Prose) /\ Len(Sayings(n)) = n
  BY <1>1, <1>3
<1>5. Told(n) = FlattenSeq(Sayings(n))
  BY DEF Told, Sayings
<1>6. \A i \in 1..n : Sayings(n)[i] = SourceWords(i)
  BY DEF Sayings
<1> QED BY <1>4, <1>5, <1>6, FlattenIn

\* The words of one node more.
LEMMA ToldMore ==
    ASSUME Good(input), NEW a \in 1..Len(input)
    PROVE  Told(a) = Then(Told(a - 1), SourceWords(a))
<1> DEFINE b == a - 1
           u == Sayings(b)
           v == Sayings(a)
<1>1. b \in 0..Len(input) /\ a \in 0..Len(input) /\ b + 1 = a /\ a \in 1..a /\ \A i \in 1..b : i \in 1..a
  BY TreeIs
<1> HIDE DEF b
<1>2. /\ u \in Seq(Prose) /\ Len(u) = b /\ Told(b) = FlattenSeq(u)
      /\ \A i \in 1..b : u[i] = SourceWords(i)
  BY <1>1, SayingsIs
<1>3. /\ v \in Seq(Prose) /\ Len(v) = a /\ Told(a) = FlattenSeq(v)
      /\ \A i \in 1..a : v[i] = SourceWords(i)
  BY <1>1, SayingsIs
<1> HIDE DEF u, v
<1>4. Len(v) = Len(u) + 1 /\ \A i \in 1..Len(u) : v[i] = u[i]
  BY <1>1, <1>2, <1>3
<1>5. FlattenSeq(v) = Then(FlattenSeq(u), v[Len(u) + 1])
  BY <1>2, <1>3, <1>4, FlattenMore
<1>6. v[Len(u) + 1] = SourceWords(a)
  BY <1>1, <1>2, <1>3
<1> QED BY <1>2, <1>3, <1>5, <1>6 DEF b

\* The words below a.
LEMMA ToldParts ==
    ASSUME Good(input), NEW a \in 1..Len(input), NEW w \in Seq(Prose), Len(w) = input[a].last - a,
           \A k \in 1..Len(w) : SourceWords(a + k) = w[k]
    PROVE  Told(input[a].last) = Then(Told(a), FlattenSeq(w))
<1> DEFINE l == input[a].last
           u == Sayings(a)
           v == Sayings(l)
<1>1. l \in a..Len(input) /\ l \in 0..Len(input) /\ a \in 0..Len(input) /\ Len(input) \in Nat
  <2>1. Len(input) \in Nat /\ l \in a..Len(input)
    BY TreeIs
  <2> HIDE DEF l
  <2> QED BY <2>1
<1>2. Len(w) = l - a
  OBVIOUS
<1> HIDE DEF l
<1>3. /\ u \in Seq(Prose) /\ Len(u) = a /\ Told(a) = FlattenSeq(u)
      /\ \A i \in 1..a : u[i] = SourceWords(i)
  BY <1>1, SayingsIs
<1>4. /\ v \in Seq(Prose) /\ Len(v) = l /\ Told(l) = FlattenSeq(v)
      /\ \A i \in 1..l : v[i] = SourceWords(i)
  BY <1>1, SayingsIs
<1> HIDE DEF u, v
<1>5. Len(v) = Len(u) + Len(w) /\ \A i \in 1..Len(u) : v[i] = u[i]
  <2>1. a \in Int /\ l \in Int
    BY <1>1
  <2>3. Len(v) = Len(u) + Len(w)
    <3>1. l = a + (l - a)
      BY <2>1
    <3>2. Len(v) = l /\ Len(u) = a /\ Len(w) = l - a
      BY <1>2, <1>3, <1>4
    <3> QED BY <3>1, <3>2
  <2>2. \A i \in 1..a : i \in 1..l
    BY <1>1
  <2> QED BY <1>3, <1>4, <2>2, <2>3
<1>6. \A k \in 1..Len(w) : v[Len(u) + k] = w[k]
  <2> SUFFICES ASSUME NEW k \in 1..Len(w) PROVE v[Len(u) + k] = w[k]
    OBVIOUS
  <2>1. a + k \in 1..l
    BY <1>1, <1>2
  <2> QED BY <1>3, <1>4, <2>1
<1>7. FlattenSeq(v) = Then(FlattenSeq(u), FlattenSeq(w))
  BY <1>3, <1>4, <1>5, <1>6, FlattenParts
<1> QED BY <1>3, <1>4, <1>7 DEF l

\* What is below an image or a code span is inside of it, and of no image in the second case.
LEMMA InsideIs ==
    ASSUME Good(input), NEW a \in 1..Len(input), NEW j \in (a + 1)..input[a].last
    PROVE  /\ Inside(j, Kind(a))
           /\ Free(a) /\ Kind(a) = "codespan" => ~Inside(j, "image")
<1>1. Len(input) \in Nat /\ input[a].last \in a..Len(input)
  BY TreeIs
<1>2. a \in 1..(j - 1) /\ j <= input[a].last
  BY <1>1
<1>3. ASSUME Free(a), Kind(a) = "codespan", NEW m \in 1..(j - 1), Kind(m) = "image", j <= input[m].last PROVE FALSE
  <2>1. m \in 1..Len(input)
    BY <1>1
  <2>2. input[m].last \in m..Len(input)
    BY <2>1, TreeIs
  <2>3. CASE m < a
    <3>1. m \in 1..(a - 1) /\ a <= input[m].last
      BY <1>1, <1>3, <2>2, <2>3
    <3> QED BY <1>3, <3>1 DEF Free, Inside
  <2>4. CASE m = a
    BY <1>3, <2>4
  <2>5. CASE m > a
    <3>1. m \in (a + 1)..input[a].last
      BY <1>1, <2>5
    <3>2. input[m].kind = "text"
      BY <1>3, <3>1, CodeBelow DEF Kind
    <3> QED BY <1>3, <3>2 DEF Kind
  <2> QED BY <1>1, <2>1, <2>3, <2>4, <2>5
<1> QED BY <1>2, <1>3 DEF Inside

\* The words below an image are its text.
LEMMA ToldAlts ==
    ASSUME Good(input), NEW a \in 1..Len(input), Kind(a) = "image"
    PROVE  Told(input[a].last) = Then(Told(a), TextContent(a))
<1> DEFINE w == Alts(a)
           m == input[a].last - a
<1>1. w \in Seq(Prose) /\ Len(w) = m /\ TextContent(a) = FlattenSeq(w)
  BY AltsIs
<1>2. m \in Nat /\ \A k \in 1..m : a + k \in (a + 1)..input[a].last
  BY BelowIs
<1>3. \A k \in 1..m : w[k] = IF Kind(a + k) = "text" THEN Decoded(input[a + k].seg) ELSE <<>>
  BY DEF Alts
<1>4. ASSUME NEW k \in 1..m PROVE SourceWords(a + k) = w[k]
  <2>1. Inside(a + k, "image")
    BY <1>2, InsideIs
  <2>2. SourceWords(a + k) = IF Kind(a + k) = "text" THEN Decoded(input[a + k].seg) ELSE <<>>
    BY <2>1, SourceForms
  <2> HIDE DEF w, m
  <2> QED BY <1>3, <2>2
<1>5. Len(w) = input[a].last - a /\ \A k \in 1..Len(w) : SourceWords(a + k) = w[k]
  <2>1. m = input[a].last - a
    OBVIOUS
  <2> HIDE DEF w, m
  <2> QED BY <1>1, <1>4, <2>1
<1> HIDE DEF w, m
<1>6. Told(input[a].last) = Then(Told(a), FlattenSeq(w))
  BY <1>1, <1>5, ToldParts
<1> QED BY <1>1, <1>6

\* The words below a code span are its value.
LEMMA ToldCodes ==
    ASSUME Good(input), NEW a \in 1..Len(input), Kind(a) = "codespan", Free(a)
    PROVE  Told(input[a].last) = Then(Told(a), CodeSpanValue(a))
<1> DEFINE w == Codes(a)
           m == input[a].last - a
<1>1. w \in Seq(Prose) /\ Len(w) = m /\ CodeSpanValue(a) = FlattenSeq(w)
  BY CodesIs
<1>2. m \in Nat /\ \A k \in 1..m : a + k \in (a + 1)..input[a].last
  BY BelowIs
<1>3. \A k \in 1..m : w[k] = Plain(input[a + k].seg)
  BY DEF Codes
<1>4. ASSUME NEW k \in 1..m PROVE SourceWords(a + k) = w[k]
  <2>1. Inside(a + k, "codespan") /\ ~Inside(a + k, "image")
    BY <1>2, InsideIs
  <2>2. SourceWords(a + k) = Plain(input[a + k].seg)
    BY <2>1, SourceForms
  <2> HIDE DEF w, m
  <2> QED BY <1>3, <2>2
<1>5. Len(w) = input[a].last - a /\ \A k \in 1..Len(w) : SourceWords(a + k) = w[k]
  <2>1. m = input[a].last - a
    OBVIOUS
  <2> HIDE DEF w, m
  <2> QED BY <1>1, <1>4, <2>1
<1> HIDE DEF w, m
<1>6. Told(input[a].last) = Then(Told(a), FlattenSeq(w))
  BY <1>1, <1>5, ToldParts
<1> QED BY <1>1, <1>6

\* How far the walk goes after a node.
Through(a) == IF Kind(a) \in Walked THEN a ELSE input[a].last

\* What is neither walked nor gathered ends where it begins.
LEMMA LeafIs ==
    ASSUME Good(input), NEW a \in 2..Len(input), Kind(a) \notin Walked \cup {"codespan", "image"}
    PROVE  input[a].last = a
<1>1. a \in 1..Len(input)
  OBVIOUS
<1>2. Kind(a) \in AllKinds
  <2>1. Kind(a) \in Holds(input[input[a].parent].kind)
    BY TreeIs DEF Kind
  <2> QED BY <2>1, HoldsIs
<1>3. Holds(input[a].kind) = {}
  BY <1>2, HoldsIs DEF Kind
<1> QED BY <1>1, <1>3, LeafEnds

\* The words of a text.
LEMMA ToldText ==
    ASSUME Good(input), NEW a \in 2..Len(input), Covered(input, a), Kind(a) \in {"text", "string"}
    PROVE  Told(a) = Then(Told(a - 1), Then(Decoded(input[a].seg), LineEnd(input[a].mark)))
<1>1. a \in 1..Len(input)
  OBVIOUS
<1>2. SourceWords(a) = Then(Decoded(input[a].seg), LineEnd(input[a].mark))
  BY FreeIs, SourceForms DEF Then
<1> QED BY <1>1, <1>2, ToldMore

\* The words of any other inline node, with what is below it if that is passed at once.
LEMMA ToldInline ==
    ASSUME Good(input), NEW a \in 2..Len(input), Covered(input, a), Kind(a) \in InlineKinds \ {"text", "string"}
    PROVE  /\ Told(Through(a)) = Then(Told(a - 1), InlineWords(a))
           /\ Kind(a) \in Walked => InlineWords(a) = <<>>
<1>1. a \in 1..Len(input) /\ a - 1 \in 0..Len(input) /\ Len(input) \in Nat
  BY TreeIs
<1>2. Free(a)
  BY FreeIs
<1>3. Told(a) = Then(Told(a - 1), SourceWords(a))
  BY <1>1, ToldMore
<1>4. Told(a - 1) \in Prose
  BY <1>1, SayingsIs
<1>5. Then(Told(a - 1), <<>>) = Told(a - 1)
  BY <1>4, ThenIs
<1>6. CASE Kind(a) \in {"codespan", "image"}
  <2>1. SourceWords(a) = <<>>
    BY <1>2, <1>6, SourceForms
  <2>2. Kind(a) \notin Walked
    BY <1>6 DEF Walked
  <2>3. Told(input[a].last) = Then(Told(a), InlineWords(a))
    BY <1>1, <1>2, <1>6, ToldAlts, ToldCodes DEF InlineWords
  <2> QED BY <1>3, <1>5, <2>1, <2>2, <2>3 DEF Through
<1>7. CASE Kind(a) \notin {"codespan", "image"}
  <2>1. Through(a) = a
    BY <1>7, LeafIs DEF Through
  <2>2. SourceWords(a) = InlineWords(a)
    <3>1. CASE Kind(a) \in {"autolink", "rawhtml"}
      BY <1>2, <3>1, SourceForms DEF InlineWords
    <3>2. CASE Kind(a) \notin {"autolink", "rawhtml"}
      <4>1. Kind(a) \notin {"text", "string", "autolink", "rawhtml", "fence", "indented", "htmlblock"}
        BY <3>2 DEF InlineKinds
      <4>2. InlineWords(a) = <<>>
        BY <1>7, <3>2 DEF InlineWords
      <4> QED BY <1>2, <4>1, <4>2, SourceForms
    <3> QED BY <3>1, <3>2
  <2>3. Kind(a) \in Walked => InlineWords(a) = <<>>
    BY DEF Walked, InlineWords
  <2> QED BY <1>3, <2>1, <2>2, <2>3
<1> QED BY <1>6, <1>7

\* The words of a block, without what is below it.
LEMMA ToldBlock ==
    ASSUME Good(input), NEW a \in 2..Len(input), Covered(input, a), Kind(a) \notin InlineKinds
    PROVE  /\ Told(Through(a)) = Then(Told(a - 1), BlockWords(a))
           /\ Kind(a) \in Walked => BlockWords(a) = <<>>
<1>1. a \in 1..Len(input)
  OBVIOUS
<1>2. Told(a) = Then(Told(a - 1), SourceWords(a))
  BY <1>1, ToldMore
<1>3. Through(a) = a
  <2>1. Kind(a) \notin {"codespan", "image"}
    BY DEF InlineKinds
  <2> QED BY <2>1, LeafIs DEF Through
<1>4. SourceWords(a) = BlockWords(a)
  <2>1. Kind(a) \notin {"text", "string", "autolink", "rawhtml"}
    BY DEF InlineKinds
  <2>2. Free(a)
    BY FreeIs
  <2>3. CASE Kind(a) = "fence"
    BY <2>2, <2>3, SourceForms DEF BlockWords
  <2>4. CASE Kind(a) = "indented"
    BY <2>2, <2>4, SourceForms DEF BlockWords
  <2>5. CASE Kind(a) = "htmlblock"
    <3>1. input[a] \in SourceNodes
      BY <1>1, TreeIs
    <3>2. HtmlValue(input[a]) = Plain(KeptLines(input[a]))
      BY <3>1, HtmlIs
    <3> QED BY <2>2, <2>5, <3>2, SourceForms DEF BlockWords
  <2>6. CASE Kind(a) \notin {"fence", "indented", "htmlblock"}
    BY <2>1, <2>2, <2>6, SourceForms DEF BlockWords
  <2> QED BY <2>3, <2>4, <2>5, <2>6
<1>5. Kind(a) \in Walked => BlockWords(a) = <<>>
  BY DEF Walked, BlockWords
<1> QED BY <1>2, <1>3, <1>4, <1>5

-----------------------------------------------------------------------------
(* Each step.                                                              *)

\* Joining prose is associative.
LEMMA ThenJoins ==
    ASSUME NEW a \in Prose, NEW b \in Prose, NEW c \in Prose
    PROVE  Then(a, Then(b, c)) = Then(Then(a, b), c)
BY ThenIs

\* What is asked of the page stays the same while the page does.
LEMMA SpreadStays ==
    ASSUME input' = input
    PROVE  \A i : ItemSpread(i)' = ItemSpread(i)
BY DEF ItemSpread, Neighbours, Children, Below, NodeStop, NodeStart, NodeLines

\* So do the labels.
LEMMA LabelStays ==
    ASSUME input' = input
    PROVE  \A i : FootnoteLabel(i)' = FootnoteLabel(i)
BY DEF FootnoteLabel, Footnotes, Kind

\* So do the words.
LEMMA WordsStay ==
    ASSUME input' = input
    PROVE  \A i : SourceWords(i)' = SourceWords(i)
BY DEF SourceWords, Inside, Kind

\* And the words up to any place.
LEMMA ToldStays ==
    ASSUME input' = input
    PROVE  \A n : Told(n)' = Told(n)
BY WordsStay DEF Told

\* And what nodes should become.
LEMMA FaithStays ==
    ASSUME input' = input
    PROVE  \A b : Faithful(b)' <=> Faithful(b)
BY SpreadStays, LabelStays DEF Faithful, Kind

\* The input is what it was.
LEMMA ShapeStays ==
    ASSUME input' = input, Shape(at', calls', out')
    PROVE  Shape(at, calls, out)'
BY ToldStays, FaithStays DEF Shape, Body, Sourced, Said

\* The tree, but for where its words stand.
Part(a, c, o) == Body(a, c, o) /\ Sourced(a, o) /\ Noted(input, a, o)

\* The types in it.
LEMMA PartIs ==
    ASSUME NEW a, NEW c, NEW o, Part(a, c, o)
    PROVE  /\ o \in Seq(Nodes) /\ o # <<>> /\ c \in Seq(CallRecs) /\ Standing(input, a, c, o)
           /\ AllWords(o) \in Prose /\ Len(o) \in Nat \ {0}
<1>1. o \in Seq(Nodes) /\ o # <<>> /\ c \in Seq(CallRecs) /\ Standing(input, a, c, o)
  BY DEF Part, Body, Hangs, Standing
<1>2. AllWords(o) \in Prose
  BY <1>1, WordsMore, NodeIs
<1>3. Len(o) \in Nat \ {0}
  BY <1>1, EmptySeq
<1> QED BY <1>1, <1>2, <1>3

\* The node of the text of a call.
LEMMA TextIs ==
    ASSUME NEW r \in CallRecs, r.buf # <<>>
    PROVE  LET x == Put(Valued("text", r.buf), r.place, r.node) IN
           /\ x \in Nodes /\ x.type = "text" /\ x.value = r.buf /\ x.parent = r.place /\ x.from = r.node
           /\ Words(x) = r.buf
<1> DEFINE v == Valued("text", r.buf)
           x == Put(v, r.place, r.node)
<1>1. r.buf \in Prose /\ r.place \in Nat /\ r.node \in Nat
  BY CallIs
<1>2. v \in Nodes /\ v.type = "text" /\ v.value = r.buf /\ v.lang = <<>> /\ v.meta = <<>>
  BY <1>1, ValuedIs DEF Types, Phrasing
<1> HIDE DEF v
<1>3. x \in Nodes /\ Same(x, v) /\ x.parent = r.place /\ x.from = r.node
  BY <1>1, <1>2, PutIs, Zenon
<1> HIDE DEF x
<1>4. x.type = "text" /\ x.value = r.buf /\ x.lang = <<>> /\ x.meta = <<>>
  BY <1>2, <1>3 DEF Same
<1>5. Words(x) = r.buf
  BY <1>3, <1>4, WordsIs
<1> QED BY <1>3, <1>4, <1>5 DEF x, v

\* The node of a hard break.
LEMMA BreakIs ==
    ASSUME NEW r \in CallRecs
    PROVE  LET x == Break(r) IN
           x \in Nodes /\ x.type = "break" /\ x.parent = r.place /\ x.from = r.node /\ Words(x) = BR
<1> DEFINE v == Typed("break")
           x == Put(v, r.place, r.node)
<1>1. r.place \in Nat /\ r.node \in Nat
  BY CallIs
<1>2. v \in Nodes /\ v.type = "break" /\ v.value = <<>> /\ v.lang = <<>> /\ v.meta = <<>>
  BY TypedIs DEF Types, Phrasing
<1> HIDE DEF v
<1>3. x \in Nodes /\ Same(x, v) /\ x.parent = r.place /\ x.from = r.node
  BY <1>1, <1>2, PutIs, Zenon
<1> HIDE DEF x
<1>4. x.type = "break" /\ x.value = <<>> /\ x.lang = <<>> /\ x.meta = <<>>
  BY <1>2, <1>3 DEF Same
<1>5. Words(x) = BR
  BY <1>3, <1>4, WordsIs
<1>6. Break(r) = x
  BY DEF Break, x, v
<1> QED BY <1>3, <1>4, <1>5, <1>6

\* One node of the last call's own, text or a break.
LEMMA PartText ==
    ASSUME Good(input), NEW a, NEW c, NEW o, Part(a, c, o), c # <<>>, NEW x \in Nodes,
           x.parent = c[Len(c)].place, x.type \in {"text", "break"}, x.from = c[Len(c)].node,
           Kind(c[Len(c)].node) \in Runs,
           x.type = "text" => x.value # <<>> /\ ~Ended(c[Len(c)], o)
    PROVE  Part(a, c, Append(o, x))
<1>1. Body(a, c, o) /\ Sourced(a, o) /\ Noted(input, a, o)
  BY DEF Part
<1>2. Body(a, c, Append(o, x))
  BY <1>1, Grow
<1>3. /\ a \in Nat /\ c[Len(c)].node \in 1..(a - 1) /\ o \in Seq(Nodes)
  <2>1. Standing(input, a, c, o) /\ o \in Seq(Nodes)
    BY PartIs
  <2>2. a \in 2..(Len(input) + 1) /\ Len(input) \in Nat /\ c[Len(c)].node \in 1..Len(input) /\ c[Len(c)].node < a
    BY <2>1, TopIs
  <2> QED BY <2>1, <2>2
<1>4. Sourced(a, Append(o, x))
  BY <1>1, <1>3, SourcedMore
<1>5. Noted(input, a, Append(o, x))
  BY <1>1, <1>3, NotedMore
<1> QED BY <1>2, <1>4, <1>5 DEF Part

\* The text of the last call becomes a node.
LEMMA FlushIs ==
    ASSUME Good(input), Part(at, calls, out), calls # <<>>, NEW r \in CallRecs,
           r.node = Top.node, r.place = Top.place,
           r.buf # <<>> => Kind(r.node) \in Runs /\ ~Ended(Top, out)
    PROVE  LET q == Flush(r) IN
           /\ Part(at, calls, q)
           /\ AllWords(q) = Then(AllWords(out), r.buf)
           /\ \/ r.buf = <<>> /\ q = out
              \/ r.buf # <<>> /\ Len(q) = Len(out) + 1 /\ q[Len(q)].type = "text" /\ q[Len(q)].parent = r.place
<1> DEFINE x == Put(Valued("text", r.buf), r.place, r.node)
           q == Flush(r)
<1>1. out \in Seq(Nodes) /\ AllWords(out) \in Prose
  BY PartIs
<1>2. CASE r.buf = <<>>
  <2>1. q = out
    BY <1>2 DEF Flush
  <2>2. Then(AllWords(out), <<>>) = AllWords(out)
    BY <1>1, ThenIs
  <2> QED BY <1>2, <2>1, <2>2
<1>3. CASE r.buf # <<>>
  <2>1. /\ x \in Nodes /\ x.type = "text" /\ x.value = r.buf /\ x.parent = r.place /\ x.from = r.node
        /\ Words(x) = r.buf
    BY <1>3, TextIs
  <2>2. q = Append(out, x)
    BY <1>3 DEF Flush
  <2> HIDE DEF x, q
  <2>3. Part(at, calls, q)
    BY <1>3, <2>1, <2>2, PartText DEF Top
  <2>4. AllWords(q) = Then(AllWords(out), r.buf)
    BY <1>1, <2>1, <2>2, WordsMore
  <2>5. Len(q) = Len(out) + 1 /\ q[Len(q)] = x
    BY <1>1, <2>1, <2>2, OneMore
  <2>6. q[Len(q)].type = "text" /\ q[Len(q)].parent = r.place
    BY <2>1, <2>5
  <2> QED BY <1>3, <2>3, <2>4, <2>5, <2>6 DEF q
<1> QED BY <1>2, <1>3

\* What is next is done with, and holds no footnote.
LEMMA PartPast ==
    ASSUME Good(input), NEW a, NEW c, NEW o, Part(a, c, o), c # <<>>,
           a <= input[c[Len(c)].node].last, NEW b \in Prose, b # <<>> => Kind(c[Len(c)].node) \in Runs,
           \A f \in a..input[a].last : Kind(f) # "footnote"
    PROVE  Part(input[a].last + 1, Holding(c, b), o)
<1> DEFINE e == input[a].last + 1
<1>1. Body(a, c, o) /\ Sourced(a, o) /\ Noted(input, a, o) /\ Standing(input, a, c, o)
  BY PartIs DEF Part
<1>2. Body(e, Holding(c, b), o)
  BY <1>1, BodyPast
<1>3. a \in Nat /\ e \in Nat /\ a <= e /\ e - 1 = input[a].last
  <2>1. a \in 2..Len(input) /\ Len(input) \in Nat /\ input[a].last \in a..input[c[Len(c)].node].last
    BY <1>1, TopIs
  <2> QED BY <2>1
<1>4. \A f \in a..(e - 1) : input[f].kind # "footnote"
  BY <1>3 DEF Kind
<1> HIDE DEF e
<1>5. Sourced(e, o) /\ Noted(input, e, o)
  BY <1>1, <1>3, <1>4, SourcedLater, NotedJump
<1>6. Part(e, Holding(c, b), o)
  BY <1>2, <1>5 DEF Part
<1> QED BY <1>6 DEF e

\* What is walked, or holds nothing.
LEMMA NoneBelow ==
    ASSUME Good(input), NEW a \in 2..Len(input), Kind(a) \notin Walked
    PROVE  \A f \in a..input[a].last : Kind(f) # "footnote"
<1>1. a \in 1..Len(input) /\ "footnote" \notin InlineKinds /\ "footnote" \in Walked
  BY DEF InlineKinds, Walked
<1>2. CASE Kind(a) \in InlineKinds
  BY <1>1, <1>2, InlineBelow DEF Kind
<1>3. CASE Kind(a) \notin InlineKinds
  <2>1. Kind(a) \notin Walked \cup {"codespan", "image"}
    BY <1>3 DEF InlineKinds
  <2>2. input[a].last = a
    BY <2>1, LeafIs
  <2> QED BY <1>1, <2>2
<1> QED BY <1>2, <1>3

\* What is decoded joins the text of the call, which a hard break ends.
LEMMA JoinKeeps ==
    ASSUME MInv, Join
    PROVE  Shape(at', calls', out')
<1> DEFINE mark == input[at].mark
           dec == Decoded(input[at].seg)
           soft == IF mark = "soft" THEN NL ELSE <<>>
           read == Top.buf \o dec \o soft
           e == input[at].last + 1
<1>1. /\ Good(input) /\ Shape(at, calls, out) /\ DInv /\ pc = "decode" /\ frame.i = Limit /\ calls # <<>>
      /\ at <= input[Top.node].last /\ Kind(at) \in {"text", "string"} /\ frame.source = input[at].seg
  BY DEF MInv, Phase, Join, End, Top, Kind
<1>2. Part(at, calls, out) /\ Covered(input, at) /\ Shut(input, at, calls, out) /\ Said(at, calls, out)
  BY <1>1 DEF Shape, Part
<1>3. Standing(input, at, calls, out) /\ calls \in Seq(CallRecs) /\ AllWords(out) \in Prose /\ out \in Seq(Nodes)
  BY <1>2, PartIs
<1>4. /\ at \in 2..Len(input) /\ Top \in CallRecs /\ Top.buf \in Prose
      /\ Kind(Top.node) \in Containers /\ Kind(at) \in Holds(Kind(Top.node))
      /\ Len(calls) \in 1..Len(calls)
  BY <1>1, <1>3, TopIs DEF Top, Kind
<1>5. Kind(Top.node) \in Runs
  <2>1. Kind(at) \in InlineKinds \ {"backlink"}
    BY <1>1 DEF InlineKinds
  <2> QED BY <1>4, <2>1, HoldsIs
<1>6. ~Ended(Top, out)
  <2>1. Kind(at) # "backlink" /\ at <= input[calls[Len(calls)].node].last
    BY <1>1 DEF Top
  <2> QED BY <1>1, <1>2, <1>3, <2>1, NotEnded DEF Top
<1>7. dec \in Prose /\ soft \in Prose /\ <<>> \in Prose
  <2>1. input[at] \in SourceNodes
    BY <1>4, TreeIs, <1>1
  <2>2. input[at].seg \in Text
    BY <2>1 DEF SourceNodes, Text
  <2> QED BY <2>2, DecodedIs, BRIs, EmptySeq DEF Prose
<1>8. Written = dec
  BY <1>1, DInvDecoded DEF AllDecoded
<1>9. at' = e /\ input[at].last = at
  <2>1. Kind(at) \notin Walked \cup {"codespan", "image"}
    BY <1>1 DEF Walked
  <2>2. input[at].last = at
    BY <1>1, <1>4, <2>1, LeafIs
  <2> QED BY <2>2 DEF Join
<1>10. \A f \in at..input[at].last : Kind(f) # "footnote"
  BY <1>1, <1>9
<1>11. Told(at) = Then(Told(at - 1), Then(dec, LineEnd(mark)))
  BY <1>1, <1>2, <1>4, ToldText
<1>12. Covered(input, e)
  <2>1. at \in 1..Len(input)
    BY <1>4
  <2> QED BY <1>1, <1>2, <2>1, CoveredPast
<1>13. e - 1 = at
  BY <1>4, <1>9
<1>14. Then(AllWords(out), Top.buf) = Told(at - 1)
  BY <1>1, <1>2 DEF Said, Top
<1>15. read = Then(Then(Top.buf, dec), soft)
  BY DEF Then
<1> HIDE DEF mark, dec, soft, read, e
<1>16. read \in Prose
  <2>1. Then(Top.buf, dec) \in Prose
    BY <1>4, <1>7, ThenIs
  <2> QED BY <1>7, <1>15, <2>1, ThenIs
<1>17. Then(AllWords(out), read) = Then(Told(at - 1), Then(dec, soft))
  <2>1. read = Then(Top.buf, Then(dec, soft))
    <3>1. Then(Top.buf, Then(dec, soft)) = Then(Then(Top.buf, dec), soft)
      <4>1. Top.buf \in Prose /\ dec \in Prose /\ soft \in Prose
        BY <1>4, <1>7
      <4> QED BY <4>1, ThenJoins, Zenon
    <3> QED BY <1>15, <3>1
  <2>2. Then(dec, soft) \in Prose
    BY <1>7, ThenIs
  <2> DEFINE y == Then(dec, soft)
  <2> HIDE DEF y
  <2>3. Then(AllWords(out), Then(Top.buf, y)) = Then(Then(AllWords(out), Top.buf), y)
    BY <1>3, <1>4, <2>2, ThenIs DEF y
  <2> QED BY <1>14, <2>1, <2>3 DEF y
<1>18. CASE mark # "hard"
  <2> DEFINE d == Holding(calls, read)
  <2>1. out' = out /\ calls' = d
    BY <1>8, <1>18 DEF Join, ReadText, Holding, mark, dec, soft, read
  <2>2. Part(e, d, out)
    BY <1>1, <1>2, <1>5, <1>10, <1>16, PartPast DEF Top, e
  <2>3. d # <<>> /\ Len(d) = Len(calls) /\ d[Len(d)].buf = read /\ d[Len(d)].place = Top.place
    <3>1. /\ d # <<>> /\ Len(d) = Len(calls)
          /\ \A k \in 1..Len(calls) : d[k].place = calls[k].place
          /\ d[Len(calls)].buf = read
      BY <1>1, <1>3, <1>16, HoldingIs
    <3> HIDE DEF d
    <3> QED BY <1>4, <3>1 DEF Top
  <2> HIDE DEF d
  <2>4. Shut(input, e, d, out)
    BY <1>6, <2>3 DEF Shut, Ended
  <2>5. Said(e, d, out)
    <3>1. LineEnd(mark) = soft
      BY <1>18, LineEndIs DEF soft
    <3>2. Then(AllWords(out), read) = Told(at)
      BY <1>11, <1>17, <3>1
    <3> QED BY <1>13, <2>3, <3>2 DEF Said
  <2>6. Shape(e, d, out)
    BY <1>12, <2>2, <2>4, <2>5 DEF Shape, Part
  <2> QED BY <1>9, <2>1, <2>6
<1>19. CASE mark = "hard"
  <2> DEFINE r == [Top EXCEPT !.buf = read]
             q == Flush(r)
             x == Break(Top)
             z == Append(q, x)
             d == Holding(calls, <<>>)
  <2>1. out' = z /\ calls' = d
    BY <1>8, <1>19 DEF Join, ReadText, Holding, mark, dec, soft, read
  <2>2. r \in CallRecs /\ r.node = Top.node /\ r.place = Top.place /\ r.buf = read
    BY <1>4, <1>16 DEF CallRecs
  <2> HIDE DEF r
  <2>3. Part(at, calls, q) /\ AllWords(q) = Then(AllWords(out), read)
    BY <1>1, <1>2, <1>5, <1>6, <2>2, FlushIs
  <2>4. x \in Nodes /\ x.type = "break" /\ x.parent = Top.place /\ x.from = Top.node /\ Words(x) = BR
    BY <1>4, BreakIs
  <2> HIDE DEF q, x
  <2>5. q \in Seq(Nodes) /\ AllWords(q) \in Prose
    BY <2>3, PartIs
  <2>6. Part(at, calls, z)
    BY <1>1, <1>5, <2>3, <2>4, PartText DEF Top
  <2>7. AllWords(z) = Then(Then(AllWords(out), read), BR) /\ AllWords(z) \in Prose
    <3>1. AllWords(z) = Then(AllWords(q), Words(x))
      BY <2>4, <2>5, WordsMore
    <3>2. Then(AllWords(q), BR) \in Prose
      BY <2>5, BRIs, ThenIs
    <3> QED BY <2>3, <2>4, <3>1, <3>2
  <2>8. Len(z) \in Nat /\ z[Len(z)] = x
    <3>1. Len(q) \in Nat /\ Len(z) = Len(q) + 1 /\ z[Len(z)] = x
      BY <2>4, <2>5, OneMore
    <3> QED BY <3>1
  <2> HIDE DEF z
  <2>9. Part(e, d, z)
    BY <1>1, <1>7, <1>10, <2>6, PartPast DEF Top, e
  <2>10. d # <<>> /\ Len(d) = Len(calls) /\ d[Len(d)].buf = <<>>
    <3>1. d # <<>> /\ Len(d) = Len(calls) /\ d[Len(calls)].buf = <<>>
      BY <1>1, <1>3, <1>7, HoldingIs
    <3> HIDE DEF d
    <3> QED BY <3>1
  <2> HIDE DEF d
  <2>11. Shut(input, e, d, z)
    <3>1. z[Len(z)].type # "text"
      BY <2>4, <2>8
    <3> QED BY <3>1 DEF Shut, Ended
  <2>12. Said(e, d, z)
    <3>1. soft = <<>> /\ LineEnd(mark) = BR
      BY <1>19, LineEndIs DEF soft
    <3>2. Then(AllWords(out), read) = Then(Told(at - 1), dec)
      BY <1>7, <1>17, <3>1, ThenIs
    <3>3. AllWords(z) = Told(at)
      <4>1. Told(at - 1) \in Prose
        <5>1. at - 1 \in 0..Len(input)
          BY <1>4
        <5> QED BY <1>1, <5>1, SayingsIs
      <4>2. Then(Then(Told(at - 1), dec), BR) = Then(Told(at - 1), Then(dec, BR))
        BY <1>7, <4>1, BRIs, ThenIs
      <4> QED BY <1>11, <2>7, <3>1, <3>2, <4>2
    <3>4. Then(AllWords(z), <<>>) = AllWords(z)
      BY <2>7, ThenIs
    <3> QED BY <1>13, <2>10, <3>3, <3>4 DEF Said
  <2>13. Shape(e, d, z)
    BY <1>12, <2>9, <2>11, <2>12 DEF Shape, Part
  <2> QED BY <1>9, <2>1, <2>13
<1> QED BY <1>18, <1>19

\* Text is never a child of the root.
LEMMA RootHoldsNoText == "text" \notin Content("root")
BY DEF Content, Flow

\* What runs holds inline nodes.
LEMMA RunsHoldInline == \A k \in Runs : \A l \in Holds(k) : l \in InlineKinds
BY DEF Runs, Holds

\* A call with the text it has.
LEMMA HoldingSame ==
    ASSUME NEW c \in Seq(CallRecs), c # <<>>
    PROVE  Holding(c, c[Len(c)].buf) = c
<1> DEFINE n == Len(c)
           b == c[n].buf
           d == Holding(c, b)
<1>1. n \in Nat \ {0} /\ n \in 1..n
  BY EmptySeq
<1>2. c[n] \in CallRecs /\ b \in Prose
  BY <1>1, ElementOfSeq, CallIs
<1>3. /\ d \in Seq(CallRecs) /\ Len(d) = n
      /\ \A k \in 1..n : d[k].node = c[k].node /\ d[k].place = c[k].place
      /\ \A k \in 1..(n - 1) : d[k] = c[k]
      /\ d[n].buf = b
  BY <1>2, HoldingIs
<1> HIDE DEF d
<1>4. d[n] = c[n]
  <2>1. d[n] \in CallRecs
    BY <1>1, <1>3, ElementOfSeq
  <2>2. d[n].node = c[n].node /\ d[n].place = c[n].place /\ d[n].buf = c[n].buf
    BY <1>1, <1>3
  <2> HIDE DEF n
  <2> QED BY <1>2, <2>1, <2>2 DEF CallRecs
<1>5. \A k \in 1..n : d[k] = c[k]
  <2>1. \A k \in 1..n : k \in 1..(n - 1) \/ k = n
    BY <1>1
  <2> QED BY <1>3, <1>4, <2>1
<1>6. d = c
  BY <1>3, <1>5, SeqEqual
<1> QED BY <1>6 DEF d

\* What is made of a node that is not text is known by its kind.
LEMMA MadeIs ==
    ASSUME NEW b, NEW i, NEW p, NEW words, Made(b, i, p, words)
    PROVE  /\ b \in Nodes /\ b.parent = p /\ b.from = i /\ b.type \in Becomes(Kind(i)) /\ Words(b) = words
           /\ b.type \notin {"text", "break"} /\ Faithful(b)
           /\ b.type = "footnoteDefinition" => Kind(i) = "footnote"
           /\ Kind(i) = "footnote" => b.type = "footnoteDefinition"
<1>1. /\ b \in Nodes /\ b.parent = p /\ b.from = i /\ b.type \in Becomes(Kind(i)) /\ Words(b) = words
      /\ Faithful(b)
  BY DEF Made, Faithful
<1>2. Becomes("footnote") = {"footnoteDefinition"}
  BY DEF Becomes
<1> QED BY <1>1, <1>2, TextFits

\* What is next has become one node, and the walk goes on below it, or after it.
LEMMA PutOne ==
    ASSUME Good(input), NEW q, Part(at, calls, q), calls # <<>>,
           at <= input[Top.node].last, Covered(input, at),
           Kind(at) # "footnotes", NEW words, NEW b, Made(b, at, Top.place, words),
           AllWords(q) = Told(at - 1), Told(Through(at)) = Then(Told(at - 1), words),
           NEW e, NEW f,
           IF Kind(at) \in Walked THEN e = at + 1 /\ f = Append(Holding(calls, <<>>), Call(at, Len(q) + 1))
                                  ELSE e = input[at].last + 1 /\ f = Holding(calls, <<>>)
    PROVE  Shape(e, f, Append(q, b))
<1> DEFINE z == Append(q, b)
           d == Holding(calls, <<>>)
           here == Len(q) + 1
<1>1. /\ Body(at, calls, q) /\ Sourced(at, q) /\ Noted(input, at, q)
      /\ Standing(input, at, calls, q) /\ q \in Seq(Nodes) /\ q # <<>> /\ calls \in Seq(CallRecs)
      /\ Len(q) \in Nat /\ <<>> \in Prose
  BY PartIs, EmptySeq DEF Part, Prose
<1>2. /\ at \in 2..Len(input) /\ at \in 1..Len(input) /\ Len(input) \in Nat /\ Top \in CallRecs
      /\ Top.place \in 1..Len(q) /\ input[at].last \in at..Len(input)
      /\ Len(calls) \in 1..Len(calls)
  <2>1. /\ at \in 2..Len(input) /\ Len(input) \in Nat /\ Top \in CallRecs
        /\ Top.place \in 1..Len(q) /\ input[at].last \in at..input[Top.node].last
        /\ input[Top.node].last \in Top.node..Len(input) /\ Top.node \in 1..Len(input)
        /\ Len(calls) \in 1..Len(calls)
    BY <1>1, TopIs DEF Top
  <2> HIDE DEF Top
  <2> QED BY <2>1
<1>3. /\ b \in Nodes /\ b.parent = Top.place /\ b.from = at /\ b.type \in Becomes(Kind(at)) /\ Words(b) = words
      /\ b.type \notin {"text", "break"} /\ Faithful(b)
      /\ b.type = "footnoteDefinition" => Kind(at) = "footnote"
      /\ Kind(at) = "footnote" => b.type = "footnoteDefinition"
  BY MadeIs
<1>4. /\ z \in Seq(Nodes) /\ Len(z) = here /\ z[Len(z)] = b /\ z[here] = b
  BY <1>1, <1>3, OneMore
<1>5. AllWords(z) = Told(Through(at)) /\ AllWords(z) \in Prose
  <2>1. AllWords(z) = Then(AllWords(q), Words(b))
    BY <1>1, <1>3, WordsMore
  <2>2. AllWords(z) \in Prose
    BY <1>3, <1>4, WordsMore
  <2> QED BY <1>3, <2>1, <2>2
<1>6. Body(at, calls, z)
  <2>1. at <= input[calls[Len(calls)].node].last /\ b.parent = calls[Len(calls)].place
    BY <1>3 DEF Top
  <2> QED BY <1>1, <1>3, <2>1, Grow
<1>7. /\ at \in Nat \ {0} /\ e \in Nat /\ at <= e /\ at \in 1..(e - 1)
  <2>1. CASE Kind(at) \in Walked
    BY <1>2, <2>1
  <2>2. CASE Kind(at) \notin Walked
    BY <1>2, <2>2
  <2> QED BY <2>1, <2>2
<1>8. Sourced(e, z)
  <2>1. Sourced(e, q)
    BY <1>1, <1>7, SourcedLater
  <2> QED BY <1>1, <1>3, <1>7, <2>1, SourcedMore
<1>9. Noted(input, e, z)
  <2>1. CASE Kind(at) = "footnote"
    <3>1. e = at + 1
      BY <2>1 DEF Walked
    <3>2. Noted(input, at + 1, z)
      BY <1>1, <1>3, <1>7, <2>1, NotedNew
    <3> QED BY <3>1, <3>2
  <2>2. CASE Kind(at) # "footnote"
    <3>1. \A g \in at..(e - 1) : input[g].kind # "footnote"
      <4>1. CASE Kind(at) \in Walked
        <5>1. \A g \in at..(e - 1) : g = at
          BY <1>2, <4>1
        <5> QED BY <2>2, <5>1 DEF Kind
      <4>2. CASE Kind(at) \notin Walked
        <5>1. e - 1 = input[at].last
          BY <1>2, <4>2
        <5>2. \A g \in at..input[at].last : Kind(g) # "footnote"
          BY <1>2, <4>2, NoneBelow
        <5> QED BY <5>1, <5>2 DEF Kind
      <4> QED BY <4>1, <4>2
    <3>2. Noted(input, e, q)
      BY <1>1, <1>7, <3>1, NotedJump
    <3> QED BY <1>1, <1>3, <1>7, <2>2, <3>2, NotedMore
  <2> QED BY <2>1, <2>2
<1>10. d \in Seq(CallRecs) /\ d # <<>> /\ Len(d) = Len(calls) /\ d[Len(d)].buf = <<>>
  <2>1. d \in Seq(CallRecs) /\ d # <<>> /\ Len(d) = Len(calls) /\ d[Len(calls)].buf = <<>>
    BY <1>1, HoldingIs
  <2> HIDE DEF d
  <2> QED BY <2>1
<1>11. here \in Nat /\ here = Len(z) /\ Top.place < here
  <2>1. here = Len(q) + 1
    OBVIOUS
  <2> HIDE DEF here, z
  <2> QED BY <1>1, <1>2, <1>4, <2>1
<1>12. Then(AllWords(z), <<>>) = AllWords(z)
  BY <1>5, ThenIs
<1> HIDE DEF d, z, here
<1>13. CASE Kind(at) \in Walked
  <2> DEFINE r == Call(at, here)
  <2>1. e = at + 1 /\ f = Append(d, r)
    BY <1>13 DEF d, here
  <2>2. r \in CallRecs /\ r.place = here /\ r.buf = <<>> /\ r.node = at
    BY <1>1, <1>7, <1>11 DEF Call, CallRecs
  <2> HIDE DEF r
  <2>3. f # <<>> /\ f[Len(f)] = r
    <3>1. f # <<>> /\ Len(f) = Len(d) + 1 /\ f[Len(d) + 1] = r
      BY <1>10, <2>1, <2>2, AppendProperties
    <3> QED BY <3>1
  <2>4. Body(e, f, z)
    <3>1. at <= input[calls[Len(calls)].node].last /\ calls[Len(calls)].place < here
      BY <1>11 DEF Top
    <3>2. z[here].type \in Becomes(Kind(at)) /\ z[here].from = at
      BY <1>3, <1>4
    <3>3. Body(at + 1, Append(Holding(calls, <<>>), Call(at, here)), z)
      BY <1>6, <1>11, <1>13, <3>1, <3>2, BodyDown
    <3> QED BY <2>1, <3>3 DEF d, r
  <2>5. Covered(input, e)
    BY <1>2, <1>13, <2>1, CoveredIn DEF Kind, Containers
  <2>6. Shut(input, e, f, z)
    BY <1>3, <1>4, <2>3 DEF Shut, Ended
  <2>7. Said(e, f, z)
    <3>1. e - 1 = at /\ Through(at) = at
      BY <1>2, <1>13, <2>1 DEF Through
    <3> QED BY <1>5, <1>12, <2>2, <2>3, <3>1 DEF Said
  <2>8. Shape(e, f, z)
    BY <1>8, <1>9, <2>4, <2>5, <2>6, <2>7 DEF Shape
  <2> QED BY <2>8 DEF z
<1>14. CASE Kind(at) \notin Walked
  <2>1. e = input[at].last + 1 /\ f = d
    BY <1>14 DEF d
  <2>2. Body(e, f, z)
    <3>1. at <= input[calls[Len(calls)].node].last
      BY DEF Top
    <3>2. Body(input[at].last + 1, Holding(calls, <<>>), z)
      BY <1>1, <1>6, <3>1, BodyPast
    <3> QED BY <2>1, <3>2 DEF d
  <2>3. Covered(input, e)
    BY <1>2, <2>1, CoveredPast
  <2>4. Shut(input, e, f, z)
    BY <1>3, <1>4, <1>10, <2>1 DEF Shut, Ended
  <2>5. Said(e, f, z)
    <3>1. e - 1 = input[at].last /\ Through(at) = input[at].last
      BY <1>2, <1>14, <2>1 DEF Through
    <3> QED BY <1>5, <1>10, <1>12, <2>1, <3>1 DEF Said
  <2>6. Shape(e, f, z)
    BY <1>8, <1>9, <2>2, <2>3, <2>4, <2>5 DEF Shape
  <2> QED BY <2>6 DEF z
<1> QED BY <1>13, <1>14

\* Where a step stands that the walk takes.
LEMMA WalkIs ==
    ASSUME Good(input), Shape(at, calls, out), calls # <<>>
    PROVE  /\ Part(at, calls, out) /\ Covered(input, at) /\ Shut(input, at, calls, out)
           /\ Standing(input, at, calls, out) /\ calls \in Seq(CallRecs)
           /\ out \in Seq(Nodes) /\ AllWords(out) \in Prose /\ Len(out) \in Nat
           /\ Top \in CallRecs /\ Top.buf \in Prose /\ Top.place \in 1..Len(out) /\ Top.place \in Nat
           /\ Kind(Top.node) \in Containers
           /\ Top.buf # <<>> => Kind(Top.node) \in Runs /\ ~Ended(Top, out)
           /\ Then(AllWords(out), Top.buf) = Told(at - 1) /\ Told(at - 1) \in Prose
           /\ at <= input[Top.node].last =>
                  /\ at \in 2..Len(input) /\ at \in 1..Len(input) /\ input[at].parent = Top.node
                  /\ input[at].last \in at..Len(input)
                  /\ Kind(at) \in Holds(Kind(Top.node))
<1>1. Part(at, calls, out) /\ Covered(input, at) /\ Shut(input, at, calls, out) /\ Said(at, calls, out)
  BY DEF Shape, Part
<1>2. /\ Standing(input, at, calls, out) /\ calls \in Seq(CallRecs) /\ AllWords(out) \in Prose
      /\ out \in Seq(Nodes) /\ Len(out) \in Nat
  BY <1>1, PartIs
<1>3. /\ Top \in CallRecs /\ Top.buf \in Prose /\ Top.place \in 1..Len(out)
      /\ Kind(Top.node) \in Containers
      /\ Top.buf # <<>> => Kind(Top.node) \in Runs
      /\ at \in 2..(Len(input) + 1) /\ Len(input) \in Nat
      /\ input[Top.node].last \in Top.node..Len(input) /\ Top.node \in 1..Len(input)
      /\ at <= input[Top.node].last =>
             /\ at \in 2..Len(input) /\ input[at].parent = Top.node
             /\ input[at].last \in at..input[Top.node].last
             /\ Kind(at) \in Holds(Kind(Top.node))
  BY <1>2, TopIs DEF Top, Kind
<1>4. Top.buf # <<>> => ~Ended(Top, out)
  BY <1>1 DEF Shut, Top
<1>5. Then(AllWords(out), Top.buf) = Told(at - 1)
  BY <1>1 DEF Said, Top
<1>6. Told(at - 1) \in Prose
  <2>1. at - 1 \in 0..Len(input)
    BY <1>3
  <2> QED BY <2>1, SayingsIs
<1>7. Top.place \in Nat
  BY <1>3, CallIs
<1>8. at <= input[Top.node].last => at \in 1..Len(input) /\ input[at].last \in at..Len(input)
  <2> HIDE DEF Top
  <2> QED BY <1>3
<1> QED BY <1>1, <1>2, <1>3, <1>4, <1>5, <1>6, <1>7, <1>8

\* Text waits in no call but one that holds inline nodes.
LEMMA NothingWaits ==
    ASSUME Good(input), Shape(at, calls, out), calls # <<>>, at <= input[Top.node].last,
           Kind(at) \notin InlineKinds
    PROVE  Top.buf = <<>> /\ Then(AllWords(out), <<>>) = AllWords(out) /\ AllWords(out) = Told(at - 1)
<1>1. /\ Top.buf # <<>> => Kind(Top.node) \in Runs
      /\ Kind(at) \in Holds(Kind(Top.node))
      /\ AllWords(out) \in Prose /\ Then(AllWords(out), Top.buf) = Told(at - 1)
  BY WalkIs
<1>2. Top.buf = <<>>
  BY <1>1, RunsHoldInline
<1>3. Then(AllWords(out), <<>>) = AllWords(out)
  BY <1>1, ThenIs
<1> QED BY <1>1, <1>2, <1>3

\* A checkbox has no words and makes no node.
LEMMA SkipKeeps ==
    ASSUME MInv, Skip
    PROVE  Shape(at', calls', out')
<1> DEFINE e == input[at].last + 1
           d == Holding(calls, Top.buf)
<1>1. /\ Good(input) /\ Shape(at, calls, out) /\ calls # <<>> /\ at <= input[Top.node].last
      /\ Kind(at) = "checkbox" /\ at' = at + 1 /\ calls' = calls /\ out' = out
  BY DEF MInv, Phase, Skip, Coming
<1>2. /\ Part(at, calls, out) /\ Covered(input, at) /\ Shut(input, at, calls, out)
      /\ Standing(input, at, calls, out) /\ calls \in Seq(CallRecs)
      /\ Top.buf \in Prose
      /\ Top.buf # <<>> => Kind(Top.node) \in Runs
      /\ Then(AllWords(out), Top.buf) = Told(at - 1) /\ Told(at - 1) \in Prose
      /\ at \in 2..Len(input) /\ at \in 1..Len(input)
  BY <1>1, WalkIs
<1>3. input[at].last = at
  <2>1. Kind(at) \notin Walked \cup {"codespan", "image"}
    BY <1>1 DEF Walked
  <2> QED BY <1>1, <1>2, <2>1, LeafIs
<1>4. e = at + 1 /\ e - 1 = at /\ d = calls
  <2>1. d = calls
    BY <1>1, <1>2, HoldingSame DEF Top
  <2> HIDE DEF d
  <2> QED BY <1>2, <1>3, <2>1
<1>5. Part(e, d, out)
  <2>1. \A f \in at..input[at].last : Kind(f) # "footnote"
    BY <1>1, <1>2, <1>3
  <2>2. at <= input[calls[Len(calls)].node].last
        /\ (Top.buf # <<>> => Kind(calls[Len(calls)].node) \in Runs)
    BY <1>1, <1>2 DEF Top
  <2>3. Good(input) /\ Part(at, calls, out) /\ calls # <<>> /\ Top.buf \in Prose
    BY <1>1, <1>2
  <2> QED BY <2>1, <2>2, <2>3, PartPast, Zenon
<1>6. Covered(input, e)
  BY <1>1, <1>2, CoveredPast
<1>7. Told(at) = Told(at - 1)
  <2>1. Through(at) = at
    BY <1>3 DEF Through
  <2>2. InlineWords(at) = <<>>
    BY <1>1 DEF InlineWords
  <2>3. Kind(at) \in InlineKinds \ {"text", "string"}
    BY <1>1 DEF InlineKinds
  <2>4. Told(Through(at)) = Then(Told(at - 1), InlineWords(at))
    BY <1>1, <1>2, <2>3, ToldInline
  <2>5. Then(Told(at - 1), <<>>) = Told(at - 1)
    BY <1>2, ThenIs
  <2> QED BY <2>1, <2>2, <2>4, <2>5
<1> HIDE DEF e, d
<1>8. Shut(input, e, d, out)
  <2>1. ~Ended(calls[Len(calls)], out)
    BY <1>1, <1>2, NotEnded DEF Top
  <2> QED BY <1>4, <2>1 DEF Shut
<1>9. Said(e, d, out)
  BY <1>1, <1>2, <1>4, <1>7 DEF Said, Top
<1>10. Shape(e, d, out)
  BY <1>5, <1>6, <1>8, <1>9 DEF Shape, Part
<1> QED BY <1>1, <1>4, <1>10

\* A block becomes one node, or none.
LEMMA PlaceBlockKeeps ==
    ASSUME MInv, PlaceBlock
    PROVE  Shape(at', calls', out')
<1> DEFINE e == input[at].last + 1
           d == Holding(calls, <<>>)
           b == Block(at, Top.place)
           p == IF Kind(at) = "footnotes" THEN Top.place ELSE Len(out) + 1
<1>1. /\ Good(input) /\ Shape(at, calls, out) /\ calls # <<>> /\ at <= input[Top.node].last
      /\ Kind(at) \notin InlineKinds /\ out' = out \o b
      /\ IF Kind(at) \in Walked THEN calls' = Append(d, Call(at, p)) /\ at' = at + 1
                                ELSE calls' = d /\ at' = e
  BY DEF MInv, Phase, PlaceBlock, Descend, Emptied, Holding
<1>2. /\ Part(at, calls, out) /\ Covered(input, at) /\ Shut(input, at, calls, out)
      /\ Standing(input, at, calls, out) /\ calls \in Seq(CallRecs)
      /\ out \in Seq(Nodes) /\ AllWords(out) \in Prose
      /\ Top.place \in Nat /\ Top.buf = <<>> /\ <<>> \in Prose
      /\ AllWords(out) = Told(at - 1) /\ Then(AllWords(out), <<>>) = AllWords(out)
      /\ at \in 2..Len(input) /\ at \in 1..Len(input) /\ Len(input) \in Nat
      /\ Kind(at) \in Holds(Kind(Top.node)) /\ Kind(Top.node) \in Containers
      /\ calls[Len(calls)] = Top
  BY <1>1, WalkIs, NothingWaits, TreeIs, EmptySeq DEF Prose, Top
<1>3. /\ Told(Through(at)) = Then(Told(at - 1), BlockWords(at))
      /\ Kind(at) \in Walked => BlockWords(at) = <<>>
  BY <1>1, <1>2, ToldBlock
<1>4. ~Ended(Top, out)
  <2>1. Kind(at) # "backlink"
    BY <1>1 DEF InlineKinds
  <2> QED BY <1>1, <1>2, <2>1, NotEnded
<1>5. /\ d \in Seq(CallRecs) /\ d # <<>> /\ Len(d) = Len(calls) /\ d[Len(d)].buf = <<>>
      /\ d[Len(d)].place = Top.place
  <2>1. /\ d \in Seq(CallRecs) /\ d # <<>> /\ Len(d) = Len(calls) /\ d[Len(calls)].buf = <<>>
        /\ \A k \in 1..Len(calls) : d[k].place = calls[k].place
    BY <1>1, <1>2, HoldingIs
  <2>2. Len(calls) \in 1..Len(calls)
    BY <1>1, <1>2, TopIs
  <2> HIDE DEF d
  <2> QED BY <1>2, <2>1, <2>2
<1>6. \/ Kind(at) \in {"other", "footnotes"} /\ b = <<>>
      \/ Kind(at) \notin {"other", "footnotes"} /\ \E x : b = <<x>> /\ Made(x, at, Top.place, BlockWords(at))
  BY <1>1, <1>2, BlockIs
<1> HIDE DEF b
<1>7. b = <<>> => out' = out
  BY <1>1, <1>2
<1>8. CASE Kind(at) = "other"
  <2>1. b = <<>> /\ Kind(at) \notin Walked
    BY <1>6, <1>8 DEF Walked
  <2>2. out' = out /\ calls' = d /\ at' = e
    BY <1>1, <1>7, <2>1
  <2>3. Part(e, d, out)
    <3>1. \A f \in at..input[at].last : Kind(f) # "footnote"
      BY <1>1, <1>2, <2>1, NoneBelow
    <3> QED BY <1>1, <1>2, <3>1, PartPast
  <2>4. Covered(input, e)
    BY <1>1, <1>2, CoveredPast
  <2>5. Shut(input, e, d, out)
    BY <1>4, <1>5 DEF Shut, Ended
  <2>6. Said(e, d, out)
    <3>1. e - 1 = input[at].last /\ Through(at) = input[at].last
      <4>1. input[at].last \in Nat
        BY <1>1, <1>2, TreeIs
      <4> QED BY <2>1, <4>1 DEF Through
    <3>2. BlockWords(at) = <<>>
      BY <1>8 DEF BlockWords
    <3> QED BY <1>2, <1>3, <1>5, <3>1, <3>2 DEF Said
  <2>7. Shape(e, d, out)
    BY <2>3, <2>4, <2>5, <2>6 DEF Shape, Part
  <2> QED BY <2>2, <2>7
<1>9. CASE Kind(at) = "footnotes"
  <2> DEFINE r == Call(at, Top.place)
             f == Append(d, r)
  <2>1. b = <<>> /\ Kind(at) \in Walked
    BY <1>6, <1>9 DEF Walked
  <2>2. out' = out /\ calls' = f /\ at' = at + 1
    BY <1>1, <1>7, <1>9, <2>1
  <2>3. r \in CallRecs /\ r.buf = <<>> /\ r.place = Top.place
    BY <1>2 DEF Call, CallRecs
  <2>4. Body(at + 1, f, out)
    BY <1>1, <1>2, <1>9, <2>1, BodyDown DEF Part
  <2> HIDE DEF r
  <2>5. f # <<>> /\ f[Len(f)] = r
    <3>1. f # <<>> /\ Len(f) = Len(d) + 1 /\ f[Len(d) + 1] = r
      BY <1>5, <2>3, AppendProperties
    <3> QED BY <3>1
  <2> HIDE DEF f
  <2>6. Sourced(at + 1, out) /\ Noted(input, at + 1, out)
    <3>1. at \in Nat /\ at + 1 \in Nat /\ at <= at + 1
      BY <1>2
    <3>2. \A g \in at..(at + 1 - 1) : input[g].kind # "footnote"
      BY <1>2, <1>9 DEF Kind
    <3>3. Sourced(at, out) /\ Noted(input, at, out)
      BY <1>2 DEF Part
    <3> QED BY <3>1, <3>2, <3>3, SourcedLater, NotedJump
  <2>7. Covered(input, at + 1)
    BY <1>1, <1>2, <2>1, CoveredIn DEF Kind, Containers
  <2>8. Shut(input, at + 1, f, out)
    BY <1>4, <2>3, <2>5 DEF Shut, Ended
  <2>9. Said(at + 1, f, out)
    <3>1. at + 1 - 1 = at /\ Through(at) = at
      BY <1>2, <2>1 DEF Through
    <3> QED BY <1>2, <1>3, <2>1, <2>3, <2>5, <3>1 DEF Said
  <2>10. Shape(at + 1, f, out)
    BY <2>4, <2>6, <2>7, <2>8, <2>9 DEF Shape
  <2> QED BY <2>2, <2>10
<1>10. CASE Kind(at) \notin {"other", "footnotes"}
  <2>1. PICK x : b = <<x>> /\ Made(x, at, Top.place, BlockWords(at))
    BY <1>6, <1>10
  <2>2. out' = Append(out, x)
    <3>1. x \in Nodes
      BY <2>1, MadeIs
    <3>2. out \o <<x>> = Append(out, x)
      BY <1>2, <3>1, OneMore
    <3> QED BY <1>1, <2>1, <3>2
  <2>3. IF Kind(at) \in Walked THEN at' = at + 1 /\ calls' = Append(Holding(calls, <<>>), Call(at, Len(out) + 1))
                               ELSE at' = input[at].last + 1 /\ calls' = Holding(calls, <<>>)
    BY <1>1, <1>10
  <2> QED BY <1>1, <1>2, <1>3, <1>10, <2>1, <2>2, <2>3, PutOne
<1> QED BY <1>8, <1>9, <1>10

\* The text of the call first.
LEMMA Flushed ==
    ASSUME Good(input), Shape(at, calls, out), calls # <<>>
    PROVE  LET q == Flush(Top) IN
           /\ Part(at, calls, q) /\ AllWords(q) = Told(at - 1) /\ AllWords(q) \in Prose
           /\ q \in Seq(Nodes) /\ q # <<>> /\ Len(q) \in Nat \ {0} /\ Top.place \in 1..Len(q)
           /\ \/ q = out /\ Top.buf = <<>>
              \/ Kind(Top.node) \in Runs /\ q[Len(q)].type = "text" /\ q[Len(q)].parent = Top.place
<1> DEFINE q == Flush(Top)
<1>1. /\ Part(at, calls, out) /\ Top \in CallRecs /\ Top.place \in 1..Len(out)
      /\ Len(out) \in Nat
      /\ Top.buf # <<>> => Kind(Top.node) \in Runs /\ ~Ended(Top, out)
      /\ Then(AllWords(out), Top.buf) = Told(at - 1)
  BY WalkIs
<1>2. /\ Part(at, calls, q) /\ AllWords(q) = Then(AllWords(out), Top.buf)
      /\ \/ Top.buf = <<>> /\ q = out
         \/ Top.buf # <<>> /\ Len(q) = Len(out) + 1 /\ q[Len(q)].type = "text" /\ q[Len(q)].parent = Top.place
  BY <1>1, FlushIs
<1> HIDE DEF q
<1>3. q \in Seq(Nodes) /\ q # <<>> /\ AllWords(q) \in Prose /\ Len(q) \in Nat \ {0}
  BY <1>2, PartIs
<1>4. Top.place \in 1..Len(q)
  BY <1>1, <1>2
<1> QED BY <1>1, <1>2, <1>3, <1>4 DEF q

\* An inline node comes after the text before it; after a backlink comes nothing but backlinks.
LEMMA PlaceKeeps ==
    ASSUME MInv, Place
    PROVE  Shape(at', calls', out')
<1> DEFINE e == input[at].last + 1
           d == Holding(calls, <<>>)
           q == Flush(Top)
           here == Len(q) + 1
           l == InlineNode(at, Top.place, here)
<1>1. /\ Good(input) /\ Shape(at, calls, out) /\ calls # <<>> /\ at <= input[Top.node].last
      /\ Kind(at) \in InlineKinds \ {"text", "string", "checkbox"} /\ out' = q \o l
      /\ IF Kind(at) \in Walked THEN calls' = Append(d, Call(at, here)) /\ at' = at + 1
                                ELSE calls' = d /\ at' = e
  BY DEF MInv, Phase, Place, Descend, Emptied, Holding, Coming
<1>2. /\ Part(at, calls, q) /\ AllWords(q) = Told(at - 1) /\ AllWords(q) \in Prose
      /\ q \in Seq(Nodes) /\ q # <<>> /\ Len(q) \in Nat \ {0} /\ Top.place \in 1..Len(q)
  BY <1>1, Flushed
<1>3. /\ Covered(input, at) /\ calls \in Seq(CallRecs)
      /\ Top.place \in Nat /\ <<>> \in Prose
      /\ at \in 2..Len(input) /\ at \in 1..Len(input) /\ Len(input) \in Nat
      /\ input[at].parent = Top.node /\ input[at].last \in at..Len(input)
      /\ calls[Len(calls)] = Top
  BY <1>1, WalkIs, TreeIs, EmptySeq DEF Prose, Top
<1>4. /\ Told(Through(at)) = Then(Told(at - 1), InlineWords(at))
      /\ Kind(at) \in Walked => InlineWords(at) = <<>>
  BY <1>1, <1>3, ToldInline
<1>5. /\ d \in Seq(CallRecs) /\ d # <<>> /\ Len(d) = Len(calls) /\ d[Len(d)].buf = <<>>
      /\ d[Len(d)].place = Top.place /\ d[Len(d)].node = Top.node
  <2>1. /\ d \in Seq(CallRecs) /\ d # <<>> /\ Len(d) = Len(calls) /\ d[Len(calls)].buf = <<>>
        /\ \A k \in 1..Len(calls) : d[k].place = calls[k].place /\ d[k].node = calls[k].node
    BY <1>1, <1>3, HoldingIs
  <2>2. Len(calls) \in Nat \ {0}
    BY <1>1, <1>3, EmptySeq
  <2>3. Len(calls) \in 1..Len(calls)
    BY <2>2
  <2> HIDE DEF d
  <2> QED BY <1>3, <2>1, <2>3
<1> HIDE DEF q
<1>6. here \in Nat /\ Top.place # here
  BY <1>2
<1>7. \/ Kind(at) = "backlink" /\ l = <<>>
      \/ /\ Kind(at) = "autolink"
         /\ \E a, b : /\ l = <<a>> \o <<b>> /\ Made(a, at, Top.place, <<>>)
                      /\ b \in Nodes /\ b.type = "text" /\ b.parent = here /\ b.from = at
                      /\ Words(b) = InlineWords(at)
      \/ /\ Kind(at) \notin {"backlink", "autolink"}
         /\ \E b : l = <<b>> /\ Made(b, at, Top.place, InlineWords(at))
  <2> HIDE DEF here
  <2> QED BY <1>1, <1>3, <1>6, InlineIs
<1> HIDE DEF l, d
<1>8. e \in Nat /\ at \in Nat /\ at <= e /\ at \in 1..(e - 1) /\ e - 1 = input[at].last
  BY <1>3
<1>9. Covered(input, e)
  BY <1>1, <1>3, CoveredPast
<1>10. ASSUME Kind(at) \in {"backlink", "autolink"}
       PROVE  /\ Kind(at) \notin Walked /\ calls' = d /\ at' = e
              /\ \A f \in at..input[at].last : Kind(f) # "footnote"
              /\ Through(at) = e - 1
  <2>1. Kind(at) \notin Walked
    BY <1>10 DEF Walked
  <2>2. \A f \in at..input[at].last : Kind(f) # "footnote"
    BY <1>1, <1>3, <2>1, NoneBelow
  <2>3. calls' = d /\ at' = e
    BY <1>1, <2>1
  <2>4. Through(at) = e - 1
    BY <1>8, <2>1 DEF Through
  <2> QED BY <2>1, <2>2, <2>3, <2>4
<1>11. CASE Kind(at) = "backlink"
  <2>1. out' = q /\ calls' = d /\ at' = e
    BY <1>1, <1>2, <1>7, <1>10, <1>11
  <2>2. Part(e, d, q)
    <3>1. Part(input[at].last + 1, Holding(calls, <<>>), q)
      BY <1>1, <1>2, <1>3, <1>10, <1>11, PartPast
    <3> QED BY <3>1 DEF d
  <2>3. Shut(input, e, d, q)
    <3>1. input[at].last < input[Top.node].last => input[e].kind = "backlink"
      BY <1>1, <1>3, <1>11 DEF Good, IsPage, Kind
    <3>2. e > input[Top.node].last \/ input[e].kind = "backlink"
      <4>1. input[Top.node].last \in Int /\ input[at].last \in Int
        <5>1. Top.node \in 1..Len(input)
          BY <1>1, <1>3, TreeIs
        <5> HIDE DEF Top
        <5> QED BY <1>1, <1>3, <5>1, TreeIs
      <4> HIDE DEF Top
      <4> QED BY <3>1, <4>1
    <3> HIDE DEF e
    <3> QED BY <1>5, <3>2 DEF Shut
  <2>4. Said(e, d, q)
    <3>1. InlineWords(at) = <<>>
      BY <1>11 DEF InlineWords
    <3>2. Then(AllWords(q), <<>>) = AllWords(q)
      BY <1>2, ThenIs
    <3>3. Told(e - 1) = AllWords(q)
      BY <1>2, <1>4, <1>10, <1>11, <3>1, <3>2
    <3> HIDE DEF e
    <3> QED BY <1>5, <3>2, <3>3 DEF Said
  <2>5. Shape(e, d, q)
    BY <1>9, <2>2, <2>3, <2>4 DEF Shape, Part
  <2> QED BY <2>1, <2>5
<1>12. CASE Kind(at) = "autolink"
  <2>1. PICK a, b : /\ l = <<a>> \o <<b>> /\ Made(a, at, Top.place, <<>>)
                    /\ b \in Nodes /\ b.type = "text" /\ b.parent = here /\ b.from = at
                    /\ Words(b) = InlineWords(at)
    BY <1>7, <1>12
  <2> DEFINE y == Append(q, a)
             z == Append(y, b)
  <2>2. /\ a \in Nodes /\ a.parent = Top.place /\ a.from = at /\ a.type = "link" /\ Words(a) = <<>>
        /\ a.type \in Becomes(Kind(at)) /\ Faithful(a)
    <3>1. /\ a \in Nodes /\ a.parent = Top.place /\ a.from = at /\ a.type \in Becomes(Kind(at)) /\ Words(a) = <<>>
          /\ Faithful(a)
      BY <2>1, MadeIs
    <3>2. Becomes("autolink") = {"link"}
      BY DEF Becomes
    <3> QED BY <1>12, <3>1, <3>2
  <2>3. y \in Seq(Nodes) /\ Len(y) = here /\ y[Len(y)] = a /\ q \o <<a>> = y
    BY <1>2, <2>2, OneMore
  <2>4. Body(at, calls, y)
    BY <1>1, <1>2, <1>3, <1>12, <2>2, Grow DEF Part
  <2>5. AllWords(y) = AllWords(q)
    <3>1. AllWords(y) = Then(AllWords(q), <<>>)
      BY <1>2, <2>2, WordsMore
    <3> QED BY <1>2, <3>1, ThenIs
  <2>6. Sourced(e, y) /\ Noted(input, e, y)
    <3>1. Sourced(at, q) /\ Noted(input, at, q)
      BY <1>2 DEF Part
    <3>2. \A f \in at..(e - 1) : input[f].kind # "footnote"
      BY <1>8, <1>10, <1>12 DEF Kind
    <3> HIDE DEF e
    <3>3. Sourced(e, q) /\ Noted(input, e, q)
      BY <1>8, <3>1, <3>2, SourcedLater, NotedJump
    <3>4. Sourced(e, y)
      BY <1>2, <1>8, <2>2, <3>3, SourcedMore
    <3>5. Noted(input, e, y)
      BY <1>2, <1>8, <2>2, <3>3, NotedMore
    <3> QED BY <3>4, <3>5
  <2> HIDE DEF y
  <2>7. /\ z \in Seq(Nodes) /\ z[Len(z)] = b /\ y \o <<b>> = z
    BY <2>1, <2>3, OneMore
  <2>8. out' = z
    <3>1. <<a>> \in Seq(Nodes) /\ <<b>> \in Seq(Nodes)
      BY <2>1, <2>2, OneIn
    <3>2. q \o (<<a>> \o <<b>>) = (q \o <<a>>) \o <<b>>
      BY <1>2, <3>1, ConcatAssociative
    <3> QED BY <1>1, <2>1, <2>3, <2>7, <3>2
  <2>9. Body(at, calls, z)
    BY <1>1, <1>12, <2>1, <2>2, <2>3, <2>4, GrowLink
  <2>10. Sourced(e, z) /\ Noted(input, e, z)
    <3> HIDE DEF e
    <3>1. Sourced(e, z)
      BY <1>8, <2>1, <2>3, <2>6, SourcedMore
    <3>2. Noted(input, e, z)
      BY <1>8, <2>1, <2>3, <2>6, NotedMore
    <3> QED BY <3>1, <3>2
  <2>11. AllWords(z) = Then(AllWords(q), InlineWords(at)) /\ AllWords(z) \in Prose
    <3>1. AllWords(z) = Then(AllWords(y), Words(b))
      BY <2>1, <2>3, WordsMore
    <3>2. AllWords(z) \in Prose
      BY <2>1, <2>7, WordsMore
    <3> QED BY <2>1, <2>5, <3>1, <3>2
  <2> HIDE DEF z
  <2>12. Body(e, d, z)
    <3>1. Body(input[at].last + 1, Holding(calls, <<>>), z)
      BY <1>1, <1>3, <2>9, BodyPast
    <3> QED BY <3>1 DEF d
  <2>13. Shut(input, e, d, z)
    <3>1. z[Len(z)].parent # Top.place
      BY <1>6, <2>1, <2>7
    <3> HIDE DEF e
    <3> QED BY <1>5, <3>1 DEF Shut, Ended
  <2>14. Said(e, d, z)
    <3>1. Then(AllWords(z), <<>>) = AllWords(z)
      BY <2>11, ThenIs
    <3>2. Told(e - 1) = AllWords(z)
      BY <1>2, <1>4, <1>10, <1>12, <2>11
    <3> HIDE DEF e
    <3> QED BY <1>5, <3>1, <3>2 DEF Said
  <2>15. Shape(e, d, z)
    BY <1>9, <2>10, <2>12, <2>13, <2>14 DEF Shape
  <2> QED BY <1>10, <1>12, <2>8, <2>15
<1>13. CASE Kind(at) \notin {"backlink", "autolink"}
  <2>1. PICK b : l = <<b>> /\ Made(b, at, Top.place, InlineWords(at))
    BY <1>7, <1>13
  <2>2. out' = Append(q, b)
    <3>1. b \in Nodes
      BY <2>1, MadeIs
    <3>2. q \o <<b>> = Append(q, b)
      BY <1>2, <3>1, OneMore
    <3> QED BY <1>1, <2>1, <3>2
  <2>3. IF Kind(at) \in Walked THEN at' = at + 1 /\ calls' = Append(Holding(calls, <<>>), Call(at, Len(q) + 1))
                               ELSE at' = input[at].last + 1 /\ calls' = Holding(calls, <<>>)
    BY <1>1 DEF d
  <2>4. Kind(at) # "footnotes"
    BY <1>1 DEF InlineKinds
  <2> HIDE DEF e, here
  <2> QED BY <1>1, <1>2, <1>3, <1>4, <2>1, <2>2, <2>3, <2>4, PutOne
<1> QED BY <1>7, <1>11, <1>12, <1>13

\* The call before the last.
LEMMA CallerIs ==
    ASSUME Good(input), NEW a, NEW o, Body(a, calls, o), calls # <<>>, Front(calls) # <<>>
    PROVE  LET d == Front(calls)
               up == d[Len(d)] IN
           /\ up.buf = <<>>
           /\ Kind(Top.node) # "footnotes" => up.place < Top.place
           /\ Kind(Top.node) = "footnotes" => o[up.place].type = "root"
<1> DEFINE n == Len(calls)
           m == n - 1
           d == Front(calls)
           up == calls[m]
<1>1. Standing(input, a, calls, o) /\ Nested(input, calls) /\ calls \in Seq(CallRecs)
  BY DEF Body, Standing
<1>2. n \in Nat \ {0} /\ Len(d) = n - 1 /\ (\A k \in 1..(n - 1) : d[k] = calls[k]) /\ n # 1
  BY <1>1, FrontIs
<1>3. m \in 1..(n - 1) /\ m \in 1..n /\ n \in 2..n /\ m = n - 1 /\ m = Len(d)
  BY <1>2
<1>4. d[Len(d)] = up
  BY <1>2, <1>3
<1>5. up.buf = <<>>
  BY <1>1, <1>3 DEF Nested
<1>6. /\ input[calls[n].node].parent = calls[n - 1].node
      /\ input[calls[n].node].kind # "footnotes" => calls[n - 1].place < calls[n].place
  BY <1>1, <1>3 DEF Nested
<1>7. Seated(input, a, up, o) /\ Seated(input, a, calls[n], o)
  BY <1>1, <1>3 DEF Standing
<1>8. ASSUME Kind(Top.node) = "footnotes" PROVE o[up.place].type = "root"
  <2>1. /\ calls[n].node \in 1..Len(input) /\ Len(input) \in Nat /\ input[up.node].kind \in Containers
        /\ o[up.place].type \in Becomes(input[up.node].kind)
    BY <1>1, <1>7, TopIs DEF Seated
  <2>2. calls[n].node \in 2..Len(input)
    <3>1. calls[n].node # 1
      BY <1>8, TreeIs DEF Top, Kind
    <3> DEFINE i == calls[n].node
    <3>2. i \in 1..Len(input) /\ i # 1
      BY <2>1, <3>1
    <3> HIDE DEF i
    <3>3. i \in 2..Len(input)
      BY <2>1, <3>2
    <3> QED BY <3>3 DEF i
  <2>3. input[calls[n].node].kind \in Holds(input[up.node].kind)
    BY <1>6, <2>2, TreeIs
  <2>4. input[up.node].kind = "document"
    BY <1>8, <2>1, <2>3, HoldsIs DEF Top, Kind
  <2>5. Becomes("document") = {"root"}
    BY DEF Becomes
  <2> QED BY <2>1, <2>4, <2>5
<1> QED BY <1>4, <1>5, <1>6, <1>8 DEF Top, Kind

\* The last text of a call is written, and the call before it goes on after it.
LEMMA ReturnKeeps ==
    ASSUME MInv, Return
    PROVE  Shape(at', calls', out')
<1> DEFINE q == Flush(Top)
           d == Front(calls)
           up == d[Len(d)]
<1>1. /\ Good(input) /\ Shape(at, calls, out) /\ calls # <<>> /\ at > input[Top.node].last
      /\ at' = at /\ calls' = d /\ out' = q
  BY DEF MInv, Phase, Return
<1>2. /\ Part(at, calls, q) /\ AllWords(q) = Told(at - 1) /\ AllWords(q) \in Prose
      /\ q \in Seq(Nodes) /\ Len(q) \in Nat \ {0} /\ Top.place \in 1..Len(q)
      /\ \/ q = out
         \/ Kind(Top.node) \in Runs /\ q[Len(q)].type = "text" /\ q[Len(q)].parent = Top.place
  BY <1>1, Flushed
<1>3. Body(at, calls, q) /\ Sourced(at, q) /\ Noted(input, at, q) /\ Hangs(input, q) /\ Standing(input, at, calls, q)
  BY <1>2 DEF Part, Body
<1>4. Low(calls, out) /\ Covered(input, at)
  BY <1>1 DEF Shape, Body
<1>5. Body(at, d, q)
  <2>1. at > input[calls[Len(calls)].node].last
    BY <1>1 DEF Top
  <2> QED BY <1>1, <1>3, <2>1, BodyUp
<1>6. ASSUME d # <<>>
      PROVE  /\ up.buf = <<>>
             /\ Kind(Top.node) # "footnotes" => up.place < Top.place
             /\ Kind(Top.node) = "footnotes" => q[up.place].type = "root"
  BY <1>1, <1>3, <1>6, CallerIs
<1>7. /\ q[Top.place].type \in Becomes(Kind(Top.node))
      /\ Len(calls) \in 1..Len(calls)
  BY <1>1, <1>3, TopIs DEF Top, Kind
<1> HIDE DEF q, d
<1>8. Shut(input, at, d, q)
  <2> SUFFICES ASSUME d # <<>>, Ended(up, q) PROVE FALSE
    BY DEF Shut
  <2>1. q[Len(q)].type = "text" /\ q[Len(q)].parent = up.place
    BY DEF Ended
  <2>2. q[1].type = "root" /\ Len(q) \in 2..Len(q)
    <3>1. q[1].type = "root"
      BY <1>3 DEF Hangs
    <3>2. Len(q) # 1
      BY <2>1, <3>1
    <3>3. Len(q) \in 2..Len(q)
      <4> DEFINE n == Len(q)
      <4>1. n \in Nat \ {0} /\ n # 1
        BY <1>2, <3>2
      <4> HIDE DEF n
      <4>2. n \in 2..n
        BY <4>1
      <4> QED BY <4>2 DEF n
    <3> QED BY <3>1, <3>3
  <2>3. q[Len(q)].parent \in 1..(Len(q) - 1) /\ q[Len(q)].type \in Content(q[q[Len(q)].parent].type)
    BY <1>3, <2>2 DEF Hangs, Hung
  <2>4. CASE Kind(Top.node) = "footnotes"
    BY <1>6, <2>1, <2>3, <2>4, RootHoldsNoText
  <2>5. CASE Kind(Top.node) # "footnotes"
    <3>1. up.place < Top.place /\ up.place \in Int /\ Top.place \in Int
      BY <1>2, <1>6, <2>1, <2>3, <2>5
    <3>2. q = out
      BY <1>2, <2>1, <3>1
    <3>3. Len(q) = Top.place \/ q[Len(q)].parent >= Top.place
      BY <1>4, <1>7, <3>2 DEF Low, Top
    <3>4. Len(q) # Top.place
      BY <1>7, <2>1, TextFits
    <3>5. up.place >= Top.place
      BY <2>1, <3>3, <3>4
    <3> HIDE DEF up
    <3> QED BY <3>1, <3>5
  <2> QED BY <2>4, <2>5
<1>9. Said(at, d, q)
  <2>1. Then(AllWords(q), <<>>) = AllWords(q)
    BY <1>2, ThenIs
  <2> QED BY <1>2, <1>6, <2>1 DEF Said
<1>10. Shape(at, d, q)
  BY <1>3, <1>4, <1>5, <1>8, <1>9 DEF Shape
<1> QED BY <1>1, <1>10

\* It holds at the start.
LEMMA InitMInv == Init => MInv
<1> SUFFICES ASSUME Init PROVE MInv
  OBVIOUS
<1> DEFINE r == Call(1, 1)
           x == Put(Typed("root"), 0, 1)
<1>1. /\ input \in Inputs /\ at = 2 /\ calls = <<r>> /\ out = <<x>> /\ pc = "walk" /\ DecodeInit
  BY DEF Init, DecodeInit
<1>2. Good(input)
  BY <1>1, InputsAssumption DEF Good
<1>3. /\ Len(input) \in Nat \ {0} /\ input[1].kind = "document" /\ input[1].last = Len(input)
      /\ 1 < input[1].last => input[2].parent = 1
  <2>1. /\ Len(input) \in Nat \ {0} /\ input[1].kind = "document" /\ input[1].last = Len(input)
        /\ \A i \in 1..Len(input) : i < input[i].last => input[i + 1].parent = i
    BY <1>2, TreeIs
  <2>2. 1 \in 1..Len(input) /\ 1 + 1 = 2
    BY <2>1
  <2> QED BY <2>1, <2>2
<1>4. /\ x \in Nodes /\ x.type = "root" /\ x.from = 1 /\ Words(x) = <<>>
  <2> DEFINE v == Typed("root")
  <2>1. v \in Nodes /\ v.type = "root" /\ v.value = <<>> /\ v.lang = <<>> /\ v.meta = <<>>
    BY TypedIs DEF Types
  <2>2. x \in Nodes /\ Same(x, v) /\ x.from = 1
    <3>1. 0 \in Nat /\ 1 \in Nat
      OBVIOUS
    <3> QED BY <2>1, <3>1, PutIs, Zenon
  <2> HIDE DEF v
  <2> HIDE DEF x
  <2>3. x.type = "root" /\ x.value = <<>> /\ x.lang = <<>> /\ x.meta = <<>>
    BY <2>1, <2>2 DEF Same
  <2>4. Words(x) = <<>>
    BY <2>2, <2>3, WordsIs
  <2> QED BY <2>2, <2>3, <2>4
<1>5. r \in CallRecs /\ r.node = 1 /\ r.place = 1 /\ r.buf = <<>> /\ <<>> \in Prose
  <2>1. <<>> \in Prose
    BY EmptySeq DEF Prose
  <2> QED BY <2>1 DEF Call, CallRecs
<1> HIDE DEF r, x
<1>6. out \in Seq(Nodes) /\ out # <<>> /\ Len(out) = 1 /\ out[1] = x
  BY <1>1, <1>4, OneIn
<1>7. calls \in Seq(CallRecs) /\ calls # <<>> /\ Len(calls) = 1 /\ calls[1] = r
  BY <1>1, <1>5, OneIn
<1>8. Hangs(input, out)
  <2>1. \A k \in 2..Len(out) : FALSE
    BY <1>6
  <2> QED BY <1>4, <1>6, <2>1 DEF Hangs
<1>9. Standing(input, at, calls, out)
  <2>1. at \in 2..(Len(input) + 1) /\ 1 \in 1..(at - 1) /\ 1 <= Len(input)
    BY <1>1, <1>3
  <2>2. Seated(input, at, calls[1], out)
    <3>1. "document" \in Containers /\ "root" \in Becomes("document")
      BY DEF Containers, Becomes
    <3>2. Seat(input, 1) = 1
      BY <1>3 DEF Seat
    <3>3. 1 \in 1..Len(out)
      BY <1>6
    <3> QED BY <1>3, <1>4, <1>5, <1>6, <1>7, <2>1, <3>1, <3>2, <3>3 DEF Seated
  <2>3. \A k \in 1..Len(calls) : Seated(input, at, calls[k], out)
    <3>1. \A k \in 1..Len(calls) : k = 1
      BY <1>7
    <3> QED BY <2>2, <3>1
  <2>4. Nested(input, calls)
    <3>1. calls[1].node = 1
      BY <1>5, <1>7
    <3>2. \A k \in 2..Len(calls) : FALSE
      BY <1>7
    <3>3. \A k \in 1..(Len(calls) - 1) : FALSE
      BY <1>7
    <3>4. \A k \in 1..Len(calls) : \A j \in 1..k : calls[j].place <= calls[k].place
      <4>1. \A k \in 1..Len(calls) : k = 1 /\ \A j \in 1..k : j = 1
        BY <1>7
      <4> QED BY <1>5, <1>7, <4>1
    <3> QED BY <3>1, <3>2, <3>3, <3>4 DEF Nested
  <2>5. Walking(input, at, calls)
    <3>1. calls[Len(calls)] = r
      BY <1>7
    <3>2. at <= input[1].last + 1
      BY <1>1, <1>3
    <3>3. at <= input[1].last => input[at].parent = 1
      BY <1>1, <1>3
    <3> QED BY <1>5, <1>7, <3>1, <3>2, <3>3 DEF Walking
  <2> QED BY <1>7, <2>1, <2>3, <2>4, <2>5 DEF Standing
<1>10. \A k \in 1..Len(out) : k = 1 /\ out[k] = x
  BY <1>6
<1>11. Apart(input, out)
  BY <1>4, <1>10 DEF Apart
<1>12. Low(calls, out)
  <2>1. \A k \in 1..Len(calls) : k = 1
    BY <1>7
  <2> QED BY <1>5, <1>6, <1>7, <2>1 DEF Low
<1>13. Covered(input, at)
  <2>1. \A m \in 1..(at - 1) : m = 1
    BY <1>1
  <2> QED BY <1>3, <2>1 DEF Covered, Containers
<1>14. Shut(input, at, calls, out)
  BY <1>4, <1>6 DEF Shut, Ended
<1>15. Sourced(at, out)
  <2>1. 1 \in 1..(at - 1)
    BY <1>1
  <2> QED BY <1>4, <1>10, <2>1 DEF Sourced
<1>16. Noted(input, at, out)
  <2>1. \A f \in 1..(at - 1) : f = 1
    BY <1>1
  <2> QED BY <1>3, <1>4, <1>10, <2>1 DEF Noted
<1>17. Said(at, calls, out)
  <2>1. AllWords(out) = <<>>
    <3> DEFINE u == [k \in 1..Len(out) |-> Words(out[k])]
    <3>1. Len(out) = 1 /\ Words(out[1]) = <<>>
      BY <1>4, <1>6
    <3>2. \A k \in 1..Len(out) : Words(out[k]) = <<>>
      BY <1>4, <1>10
    <3>3. u \in [1..Len(out) -> Prose] /\ \A k \in 1..Len(out) : u[k] = <<>>
      BY <1>5, <3>2
    <3>4. AllWords(out) = FlattenSeq(u)
      BY DEF AllWords
    <3> HIDE DEF u
    <3>5. u \in Seq(Prose) /\ Len(u) = Len(out)
      <4>1. Len(out) \in Nat
        BY <3>1
      <4> QED BY <3>3, <4>1
    <3> QED BY <3>3, <3>4, <3>5, FlattenBlank
  <2>2. Told(1) = <<>>
    <3>1. Free(1)
      BY DEF Free, Inside
    <3>2. SourceWords(1) = <<>>
      BY <1>3, <3>1, SourceForms DEF Kind
    <3> DEFINE u == Sayings(1)
    <3>3. u \in Seq(Prose) /\ Len(u) = 1 /\ (\A i \in 1..1 : u[i] = SourceWords(i)) /\ Told(1) = FlattenSeq(u)
      <4>1. 1 \in 0..Len(input)
        BY <1>3
      <4> QED BY <1>2, <4>1, SayingsIs
    <3> HIDE DEF u
    <3>4. \A i \in 1..Len(u) : u[i] = <<>>
      BY <3>2, <3>3
    <3> QED BY <3>3, <3>4, FlattenBlank
  <2>3. at - 1 = 1 /\ calls[Len(calls)].buf = <<>>
    BY <1>1, <1>5, <1>7
  <2>4. Then(<<>>, <<>>) = <<>>
    BY <1>5, ThenIs
  <2> QED BY <1>7, <2>1, <2>2, <2>3, <2>4 DEF Said
<1>18. Shape(at, calls, out)
  BY <1>8, <1>9, <1>11, <1>12, <1>13, <1>14, <1>15, <1>16, <1>17 DEF Shape, Body
<1>19. Phase(input, at, calls)
  BY <1>1, <1>7 DEF Phase
<1>20. DInv
  BY <1>1, InitDInv
<1> QED BY <1>2, <1>18, <1>19, <1>20 DEF MInv

\* The decoder keeps to its text.
LEMMA ByteIs ==
    ASSUME DInv, Byte
    PROVE  frame'.source = frame.source /\ pc = "decode" /\ pc' = pc /\ DInv'
<1>1. DInv'
  BY NextDInv DEF Byte, DecodeNext
<1>2. Ordered(frame)
  BY DEF DInv
<1>3. frame \in Frames
  BY <1>2 DEF Ordered
<1>4. pc = "decode" /\ pc' = pc
  BY DEF Byte, Escape, Refer, Pass
<1>5. frame'.source = frame.source
  <2>1. CASE Escape
    <3>1. frame' = [frame EXCEPT !.out = @ \o Plain(Slice(frame.source, frame.n, frame.i - 1)),
                                 !.n = frame.i, !.i = @ + 1, !.escaped = FALSE]
      BY <2>1 DEF Escape
    <3> QED BY <1>3, <3>1 DEF Frames
  <2>2. CASE Refer
    <3>1. PICK k : frame' = [frame EXCEPT !.out = @ \o Plain(Slice(frame.source, frame.n, frame.i))
                                                     \o <<Slice(frame.source, frame.i, k + 1)>>,
                                          !.n = k + 1, !.i = k + 1]
      BY <2>2 DEF Refer
    <3> QED BY <1>3, <3>1 DEF Frames
  <2>3. CASE Pass
    <3>1. frame' = [frame EXCEPT !.i = @ + 1, !.escaped = Char = "\\"]
      BY <2>3 DEF Pass
    <3> QED BY <1>3, <3>1 DEF Frames
  <2> QED BY <2>1, <2>2, <2>3 DEF Byte
<1> QED BY <1>1, <1>4, <1>5

\* Every step keeps it.
LEMMA NextMInv == MInv /\ [Next]_vars => MInv'
<1> SUFFICES ASSUME MInv, [Next]_vars PROVE MInv'
  OBVIOUS
<1>1. Good(input) /\ Shape(at, calls, out) /\ Phase(input, at, calls) /\ DInv
  BY DEF MInv
<1>2. input' = input
  BY DEF Next, vars, Segment, Byte, Join, Skip, Place, PlaceBlock, Return
<1>3. Good(input)'
  BY <1>1, <1>2 DEF Good
<1>4. ASSUME Shape(at', calls', out'), Phase(input, at, calls)', DInv' PROVE MInv'
  <2>1. Shape(at, calls, out)'
    BY <1>2, <1>4, ShapeStays
  <2> QED BY <1>3, <1>4, <2>1 DEF MInv
<1>5. CASE UNCHANGED vars
  <2>1. at' = at /\ calls' = calls /\ out' = out /\ pc' = pc /\ frame' = frame
    BY <1>5 DEF vars
  <2>2. Shape(at', calls', out')
    BY <1>1, <2>1
  <2>3. Phase(input, at, calls)'
    BY <1>1, <1>2, <2>1 DEF Phase
  <2>4. DInv'
    BY <1>1, <2>1, NextDInv
  <2> QED BY <1>4, <2>2, <2>3, <2>4
<1>6. CASE Segment
  <2>1. /\ at' = at /\ calls' = calls /\ out' = out /\ pc = "walk" /\ pc' = "decode"
        /\ at <= input[Top.node].last /\ Kind(at) \in {"text", "string"}
        /\ Begin(input[at].seg) /\ frame' = [NoFrame EXCEPT !.source = input[at].seg]
    BY <1>6 DEF Segment, Coming, Begin
  <2>2. calls # <<>>
    BY <1>1, <2>1 DEF Phase
  <2>3. input[at].seg \in Seq(STRING)
    <3>1. at \in 1..Len(input)
      BY <1>1, <2>1, <2>2, WalkIs
    <3>2. input[at] \in SourceNodes
      BY <1>1, <3>1, TreeIs
    <3> QED BY <3>2 DEF SourceNodes
  <2>4. frame'.source = input[at].seg
    BY <2>1 DEF NoFrame
  <2>5. Shape(at', calls', out')
    BY <1>1, <2>1
  <2>6. Phase(input, at, calls)'
    BY <1>2, <2>1, <2>2, <2>4 DEF Phase, Top, Kind
  <2>7. DInv'
    BY <1>1, <2>1, <2>3, NextDInv DEF DecodeNext
  <2> QED BY <1>4, <2>5, <2>6, <2>7
<1>7. CASE Byte
  <2>1. at' = at /\ calls' = calls /\ out' = out
    BY <1>7 DEF Byte
  <2>2. frame'.source = frame.source /\ pc = "decode" /\ pc' = pc /\ DInv'
    BY <1>1, <1>7, ByteIs
  <2>3. Shape(at', calls', out')
    BY <1>1, <2>1
  <2>4. Phase(input, at, calls)'
    BY <1>1, <1>2, <2>1, <2>2 DEF Phase
  <2> QED BY <1>4, <2>2, <2>3, <2>4
<1>8. CASE Join
  <2>1. Shape(at', calls', out')
    BY <1>8, JoinKeeps
  <2>2. pc = "decode" /\ pc' = "walk" /\ End
    BY <1>8 DEF Join, End
  <2>3. calls' # <<>>
    <3>1. calls # <<>> /\ calls \in Seq(CallRecs)
      <4>1. calls # <<>>
        BY <1>1, <2>2 DEF Phase
      <4> QED BY <1>1, <4>1, WalkIs
    <3>2. PICK b : calls' = [calls EXCEPT ![Len(calls)].buf = b]
      BY <1>8 DEF Join
    <3>3. DOMAIN calls' = DOMAIN calls
      BY <3>2
    <3>4. DOMAIN calls = 1..Len(calls) /\ Len(calls) \in Nat \ {0}
      BY <3>1, EmptySeq
    <3>5. Len(calls) \in DOMAIN calls'
      BY <3>3, <3>4
    <3> QED BY <3>5
  <2>4. Phase(input, at, calls)'
    BY <2>2, <2>3 DEF Phase
  <2>5. DInv'
    BY <1>1, <2>2, NextDInv DEF DecodeNext
  <2> QED BY <1>4, <2>1, <2>4, <2>5
<1>9. CASE Skip \/ Place \/ PlaceBlock
  <2>1. Shape(at', calls', out')
    BY <1>9, SkipKeeps, PlaceKeeps, PlaceBlockKeeps
  <2>2. pc = "walk" /\ pc' = pc /\ frame' = frame
    BY <1>9 DEF Skip, Place, PlaceBlock, Coming
  <2>3. calls' # <<>>
    <3>1. calls # <<>> /\ calls \in Seq(CallRecs)
      <4>1. calls # <<>>
        BY <1>1, <2>2 DEF Phase
      <4> QED BY <1>1, <4>1, WalkIs
    <3> DEFINE d == Holding(calls, <<>>)
    <3>2. d \in Seq(CallRecs) /\ d # <<>>
      <4>1. <<>> \in Prose
        BY EmptySeq DEF Prose
      <4> QED BY <3>1, <4>1, HoldingIs
    <3>3. \/ calls' = calls \/ calls' = d \/ \E i, p : calls' = Append(d, Call(i, p))
      BY <1>9 DEF Skip, Place, PlaceBlock, Descend, Emptied, Holding
    <3> HIDE DEF d
    <3>4. \A x : Append(d, x) # <<>>
      BY <3>2
    <3> QED BY <3>1, <3>2, <3>3, <3>4
  <2>4. Phase(input, at, calls)'
    BY <2>2, <2>3 DEF Phase
  <2>5. DInv'
    BY <1>1, <2>2, NextDInv
  <2> QED BY <1>4, <2>1, <2>4, <2>5
<1>10. CASE Return
  <2>1. Shape(at', calls', out')
    BY <1>10, ReturnKeeps
  <2>2. /\ pc = "walk" /\ pc' = (IF Len(calls) = 1 THEN "done" ELSE "walk")
        /\ frame' = frame /\ calls' = Front(calls)
    BY <1>10 DEF Return
  <2>3. calls' = <<>> <=> Len(calls) = 1
    <3>1. calls # <<>>
      BY <1>1, <2>2 DEF Phase
    <3>2. calls \in Seq(CallRecs)
      BY <1>1, <3>1, WalkIs
    <3> QED BY <2>2, <3>1, <3>2, FrontIs
  <2>4. Phase(input, at, calls)'
    BY <2>2, <2>3 DEF Phase
  <2>5. DInv'
    BY <1>1, <2>2, NextDInv DEF DecodeNext, Elsewhere
  <2> QED BY <1>4, <2>1, <2>4, <2>5
<1> QED BY <1>5, <1>6, <1>7, <1>8, <1>9, <1>10 DEF Next

\* So it always holds.
LEMMA SpecMInv == Spec => []MInv
BY InitMInv, NextMInv, PTL DEF Spec

-----------------------------------------------------------------------------
(* What follows of the invariant.                                          *)

\* The tree is one mdast allows.
LEMMA MInvWellFormed == MInv => WellFormed
<1> SUFFICES ASSUME MInv PROVE WellFormed
  OBVIOUS
<1>1. /\ Good(input) /\ Hangs(input, out) /\ Standing(input, at, calls, out) /\ Apart(input, out) /\ DInv
  BY DEF MInv, Shape, Body
<1>2. out \in Seq(Nodes) /\ DOMAIN out = 1..Len(out)
  BY <1>1 DEF Hangs
<1>3. CursorsOK
  BY <1>1, DInvCursors
<1>4. at \in 2..(Len(input) + 1)
  BY <1>1 DEF Standing
<1>5. \A k \in 2..Len(out) :
          /\ out[k].parent \in 1..(k - 1) /\ out[k].type \in Content(out[out[k].parent].type)
          /\ out[out[k].parent].from =
                 IF out[k].type \in {"text", "break"} THEN out[k].from ELSE Above(out[k].from)
  BY <1>1 DEF Hangs, Hung, Seat, Above, Kind
<1>6. \A k \in DOMAIN out : out[k].type = "text" =>
          /\ out[k].value # <<>> \/ Kind(out[k].from) = "autolink"
          /\ k < Len(out) => ~(out[k + 1].type = "text" /\ out[k + 1].parent = out[k].parent)
  BY <1>1, <1>2 DEF Apart, Kind
<1>7. TypeOK
  BY <1>3, <1>4, <1>5 DEF TypeOK
<1> QED BY <1>5, <1>6, <1>7 DEF WellFormed

\* The words are those of the source.
LEMMA MInvNothingLost == MInv => NothingLost
<1> SUFFICES ASSUME MInv PROVE NothingLost
  OBVIOUS
<1>1. Hangs(input, out) /\ Said(at, calls, out)
  BY DEF MInv, Shape, Body
<1>2. DOMAIN out = 1..Len(out)
  BY <1>1 DEF Hangs
<1>3. AllWords(out) = FlattenSeq([k \in DOMAIN out |-> Words(out[k])])
  BY <1>2 DEF AllWords
<1>4. Then(AllWords(out), IF calls = <<>> THEN <<>> ELSE Top.buf) = Told(at - 1)
  BY <1>1 DEF Said, Top
<1> QED BY <1>3, <1>4 DEF NothingLost, Then, Told

\* Every footnote has one definition, and its references lead there.
LEMMA MInvFootnotesResolve == MInv => FootnotesResolve
<1> DEFINE Definitions == {k \in DOMAIN out : out[k].type = "footnoteDefinition"}
<1> SUFFICES ASSUME MInv, pc = "done",
                    \A f, g \in Footnotes : f # g => Identifier(input[f].label) # Identifier(input[g].label)
             PROVE  /\ \A f \in Footnotes : \E d \in Definitions : {k \in Definitions : out[k].from = f} = {d}
                    /\ \A k \in DOMAIN out : out[k].type = "footnoteReference" => \E d \in Definitions :
                           /\ {e \in Definitions : out[e].identifier = out[k].identifier} = {d}
                           /\ input[out[d].from].index = input[out[k].from].index
  BY DEF FootnotesResolve
<1>1. /\ Good(input) /\ Hangs(input, out) /\ Standing(input, at, calls, out) /\ Sourced(at, out)
      /\ Noted(input, at, out) /\ calls = <<>>
  BY DEF MInv, Shape, Body, Phase
<1>2. DOMAIN out = 1..Len(out) /\ DOMAIN input = 1..Len(input) /\ Len(input) \in Nat /\ at - 1 = Len(input)
  <2>1. at = Len(input) + 1
    BY <1>1 DEF Standing, Walking
  <2>2. DOMAIN out = 1..Len(out) /\ DOMAIN input = 1..Len(input) /\ Len(input) \in Nat
    BY <1>1, TreeIs DEF Hangs
  <2> QED BY <2>1, <2>2
<1>3. \A f : f \in Footnotes <=> f \in 1..Len(input) /\ Kind(f) = "footnote"
  BY <1>2 DEF Footnotes
<1>4. \A k \in Definitions :
          /\ out[k].from \in Footnotes
          /\ out[k].identifier = Identifier(input[out[k].from].label)
  <2> SUFFICES ASSUME NEW k \in Definitions
               PROVE  /\ out[k].from \in Footnotes
                      /\ out[k].identifier = Identifier(input[out[k].from].label)
    OBVIOUS
  <2>1. out[k].from \in 1..Len(input) /\ Faithful(out[k]) /\ out[k].type = "footnoteDefinition"
    BY <1>1, <1>2 DEF Sourced
  <2>2. Kind(out[k].from) = "footnote"
    BY <2>1, TextFits DEF Faithful
  <2> QED BY <1>3, <2>1, <2>2 DEF Faithful
<1>5. \A j, k \in Definitions : out[j].from = out[k].from => j = k
  BY <1>1, <1>2 DEF Noted
<1>6. \A f \in Footnotes : \E d \in Definitions : out[d].from = f
  BY <1>1, <1>2, <1>3 DEF Noted, Kind
<1> HIDE DEF Definitions
<1>7. ASSUME NEW f \in Footnotes PROVE \E d \in Definitions : {k \in Definitions : out[k].from = f} = {d}
  <2>1. PICK d \in Definitions : out[d].from = f
    BY <1>6
  <2>2. {k \in Definitions : out[k].from = f} = {d}
    BY <1>5, <2>1
  <2> QED BY <2>2
<1>8. ASSUME NEW k \in DOMAIN out, out[k].type = "footnoteReference"
      PROVE  \E d \in Definitions :
                 /\ {e \in Definitions : out[e].identifier = out[k].identifier} = {d}
                 /\ input[out[d].from].index = input[out[k].from].index
  <2> DEFINE index == input[out[k].from].index
             fs == {f \in Footnotes : input[f].index = index}
             g == CHOOSE f \in fs : TRUE
  <2>1. out[k].from \in 1..Len(input) /\ Faithful(out[k])
    BY <1>1, <1>2, <1>8 DEF Sourced
  <2>2. Kind(out[k].from) = "footnotelink" /\ out[k].identifier = Identifier(FootnoteLabel(index))
    BY <1>8, <2>1, TextFits DEF Faithful
  <2>3. fs # {}
    <3>1. \E j \in DOMAIN input : input[j].kind = "footnote" /\ input[j].index = index
      BY <1>1, <1>2, <2>1, <2>2 DEF Good, IsPage, Kind
    <3> QED BY <1>2, <1>3, <3>1 DEF Kind
  <2>4. FootnoteLabel(index) = input[g].label
    BY <2>3 DEF FootnoteLabel
  <2>5. g \in Footnotes /\ input[g].index = index
    BY <2>3
  <2> HIDE DEF g, fs, index
  <2>6. PICK d \in Definitions : out[d].from = g
    BY <1>6, <2>5
  <2>7. out[d].identifier = out[k].identifier
    BY <1>4, <2>2, <2>4, <2>6
  <2>8. ASSUME NEW e \in Definitions, out[e].identifier = out[k].identifier PROVE e = d
    <3>1. out[e].from \in Footnotes /\ Identifier(input[out[e].from].label) = Identifier(input[g].label)
      BY <1>4, <2>2, <2>4, <2>8
    <3>2. out[e].from = g
      BY <2>5, <3>1
    <3> QED BY <1>5, <2>6, <3>2
  <2>9. {e \in Definitions : out[e].identifier = out[k].identifier} = {d}
    BY <2>7, <2>8
  <2> QED BY <2>5, <2>6, <2>9 DEF index
<1> QED BY <1>7, <1>8 DEF Definitions

\* The tree is at every step one that mdast allows: every node is held by one that may
\* hold it and hangs where the source says, and text that stands together is one node.
\* What parse returns marshals to what the site expects of mdast.
THEOREM WellFormedInvariance == Spec => []WellFormed
BY MInvWellFormed, SpecMInv, PTL

\* At every step the words of the tree and of the text at hand are those of the nodes of
\* the page that were passed, in their order: block, inline, inlineNode and what gathers
\* text lose, repeat and move nothing, for any page, but the newline that block drops of
\* an HTML block.
THEOREM NothingLostInvariance == Spec => []NothingLost
BY MInvNothingLost, SpecMInv, PTL

\* When a page is converted, every footnote has one definition and every reference to it
\* the identifier of that definition alone, unless two labels differ in case only.
THEOREM FootnotesInvariance == Spec => []FootnotesResolve
BY MInvFootnotesResolve, SpecMInv, PTL

\* The decoder starts as in DecodeText.
LEMMA InitDecodes == Init => DecodeInit
BY DEF Init

\* Every step of the walk is one of the decoder's, or one that leaves it alone.
LEMMA NextDecodes == MInv /\ [Next]_vars => [DecodeNext]_<<frame, pc>>
<1> SUFFICES ASSUME MInv, [Next]_vars PROVE [DecodeNext]_<<frame, pc>>
  OBVIOUS
<1>1. CASE UNCHANGED vars
  BY <1>1 DEF vars
<1>2. CASE Segment
  <2>1. /\ pc = "walk" /\ at <= input[Top.node].last /\ Begin(input[at].seg)
    BY <1>2 DEF Segment, Coming
  <2>2. Good(input) /\ Shape(at, calls, out) /\ calls # <<>>
    BY <2>1 DEF MInv, Phase
  <2>3. at \in 1..Len(input)
    BY <2>1, <2>2, WalkIs
  <2>4. input[at] \in SourceNodes
    BY <2>2, <2>3, TreeIs
  <2>5. input[at].seg \in Seq(STRING)
    BY <2>4 DEF SourceNodes
  <2> QED BY <2>1, <2>5 DEF DecodeNext
<1>3. CASE Byte
  BY <1>3 DEF Byte, DecodeNext
<1>4. CASE Join
  BY <1>4 DEF Join, DecodeNext
<1>5. CASE Skip \/ Place \/ PlaceBlock
  BY <1>5 DEF Skip, Place, PlaceBlock
<1>6. CASE Return
  <2>1. pc = "walk" /\ pc' \in {"walk", "done"} /\ UNCHANGED frame
    BY <1>6 DEF Return
  <2> QED BY <2>1 DEF Elsewhere, DecodeNext
<1> QED BY <1>1, <1>2, <1>3, <1>4, <1>5, <1>6 DEF Next

\* The walk with its text implements the decoder: it begins, reads on and ends segments
\* as DecodeText says, and does not touch the decoder elsewhere.
THEOREM MarkdownDecodes == Spec => DecodeSpec
<1>1. Spec => []MInv
  BY SpecMInv
<1> QED BY <1>1, InitDecodes, NextDecodes, PTL DEF Spec, DecodeSpec

\* At every byte of every segment of a page, the decoder has not lost or repeated any.
THEOREM SegmentsInvariance == Spec => []DecodedSoFar
<1>1. MInv => DecodedSoFar
  BY DInvSoFar DEF MInv
<1> QED BY <1>1, SpecMInv, PTL

-----------------------------------------------------------------------------
(* Steps lead to the end.                                                  *)

\* A step passes a node of the page, or it ends a call, or it begins a segment or
\* reads on in it, and none goes past the end.
Forward ==
    \/ at < at' /\ at' <= Len(input) + 1 /\ input' = input
    \/ at' = at /\ Len(calls') < Len(calls)
    \/ at' = at /\ calls' = calls /\ pc = "walk" /\ pc' = "decode"
    \/ /\ at' = at /\ calls' = calls /\ pc = "decode" /\ pc' = "decode"
       /\ frame'.source = frame.source /\ frame.i < frame'.i /\ frame'.i <= Limit

\* A step of the decoder moves its cursor on, and not past the end.
LEMMA ByteForward ==
    ASSUME DInv, Byte
    PROVE  frame'.source = frame.source /\ frame.i < frame'.i /\ frame'.i <= Limit
<1>1. frame'.source = frame.source /\ DInv' /\ pc = "decode"
  BY ByteIs
<1>2. frame \in Frames /\ frame.i <= Limit /\ Ordered(frame)'
  BY <1>1 DEF DInv, Ordered, Limit
<1>3. frame.i \in Nat /\ frame.source \in Text /\ Len(frame.source) \in Nat
  BY <1>2, FrameIs
<1>4. frame'.i <= Limit
  BY <1>1, <1>2 DEF Ordered, Limit
<1>5. frame.i < frame'.i
  <2>1. CASE Escape
    <3>1. frame' = [frame EXCEPT !.out = @ \o Plain(Slice(frame.source, frame.n, frame.i - 1)),
                                 !.n = frame.i, !.i = @ + 1, !.escaped = FALSE]
      BY <2>1 DEF Escape
    <3>2. frame'.i = frame.i + 1
      BY <1>2, <3>1 DEF Frames
    <3> QED BY <1>3, <3>2
  <2>2. CASE Refer
    <3>1. PICK k \in Reference(frame.source, frame.i) :
              frame' = [frame EXCEPT !.out = @ \o Plain(Slice(frame.source, frame.n, frame.i))
                                               \o <<Slice(frame.source, frame.i, k + 1)>>,
                                     !.n = k + 1, !.i = k + 1]
      BY <2>2 DEF Refer
    <3>2. frame'.i = k + 1
      BY <1>2, <3>1 DEF Frames
    <3>3. k \in frame.i..(Len(frame.source) - 1)
      <4>1. At(frame.source, frame.i) = "&" /\ frame.i \in 0..(Len(frame.source) - 1)
        BY <1>3, <2>2 DEF Refer, Char, Limit
      <4> QED BY <1>3, <3>1, <4>1, AfterIs
    <3> QED BY <1>3, <3>2, <3>3
  <2>3. CASE Pass
    <3>1. frame' = [frame EXCEPT !.i = @ + 1, !.escaped = Char = "\\"]
      BY <2>3 DEF Pass
    <3>2. frame'.i = frame.i + 1
      BY <1>2, <3>1 DEF Frames
    <3> QED BY <1>3, <3>2
  <2> QED BY <2>1, <2>2, <2>3 DEF Byte
<1> QED BY <1>1, <1>4, <1>5

\* Every step moves on.
LEMMA NextForward == MInv /\ MInv' /\ [Next]_vars => [Forward]_vars
<1> SUFFICES ASSUME MInv, MInv', Next PROVE Forward
  OBVIOUS
<1>1. /\ Good(input) /\ Shape(at, calls, out) /\ Phase(input, at, calls) /\ DInv
      /\ at \in Int /\ Len(input) \in Nat
  <2>1. Good(input) /\ Shape(at, calls, out) /\ Phase(input, at, calls) /\ DInv
    BY DEF MInv
  <2>2. Len(input) \in Nat
    BY <2>1, TreeIs
  <2>3. at \in 2..(Len(input) + 1)
    BY <2>1 DEF Shape, Body, Standing
  <2> QED BY <2>1, <2>2, <2>3
<1>2. input' = input
  BY DEF Next, Segment, Byte, Join, Skip, Place, PlaceBlock, Return
<1>3. at' <= Len(input) + 1
  <2>1. (at \in 2..(Len(input) + 1))'
    BY DEF MInv, Shape, Body, Standing
  <2> QED BY <1>1, <1>2, <2>1
<1>4. CASE Segment
  BY <1>4 DEF Segment, Begin, Forward
<1>5. CASE Byte
  <2>1. pc = "decode" /\ pc' = "decode"
    BY <1>1, <1>5, ByteIs
  <2> QED BY <1>1, <1>5, <2>1, ByteForward DEF Byte, Forward
<1>6. CASE Join \/ Skip
  <2>1. at' = at + 1
    BY <1>6 DEF Join, Skip
  <2> QED BY <1>1, <1>2, <1>3, <2>1 DEF Forward
<1>7. CASE Place \/ PlaceBlock
  <2>1. pc = "walk" /\ at <= input[Top.node].last
    BY <1>7 DEF Place, PlaceBlock, Coming
  <2>2. calls # <<>>
    BY <1>1, <2>1 DEF Phase
  <2>3. input[at].last \in at..Len(input)
    BY <1>1, <2>1, <2>2, WalkIs
  <2>4. at' = at + 1 \/ at' = input[at].last + 1
    BY <1>7 DEF Place, PlaceBlock, Descend
  <2>5. at < at'
    BY <1>1, <2>3, <2>4
  <2> QED BY <1>2, <1>3, <2>5 DEF Forward
<1>8. CASE Return
  <2>1. at' = at /\ calls' = Front(calls) /\ pc = "walk"
    BY <1>8 DEF Return
  <2>2. calls # <<>>
    BY <1>1, <2>1 DEF Phase
  <2>3. calls \in Seq(CallRecs)
    BY <1>1, <2>2, WalkIs
  <2>4. Len(calls) \in Nat \ {0} /\ Len(Front(calls)) = Len(calls) - 1
    BY <2>2, <2>3, FrontIs
  <2>5. Len(calls') < Len(calls)
    BY <2>1, <2>4
  <2> QED BY <2>1, <2>5 DEF Forward
<1> QED BY <1>4, <1>5, <1>6, <1>7, <1>8 DEF Next

\* Every step goes forward (Forward): the order of the four cases, one inside the other,
\* is well-founded, so no conversion runs for ever.
THEOREM StepsGoForward == Spec => [][Forward]_vars
BY SpecMInv, NextForward, PTL DEF Spec

=============================================================================
