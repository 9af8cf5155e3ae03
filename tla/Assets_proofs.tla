---------------------------- MODULE Assets_proofs ----------------------------
(***************************************************************************)
(* Proofs about Assets, for any finite set of keys and any folders,        *)
(* contents, requests and days: the rows of folders, kinds and days are the*)
(* sums over the bucket, unless it is noted why they may not be; walking   *)
(* down the names of the levels meets the keys whose folders have names; a *)
(* folder that was made on purpose stays, with the folders above it,       *)
(* whatever is booked, pruned, rebuilt or lost meanwhile; and a deleted    *)
(* app has no rows.                                                        *)
(***************************************************************************)
EXTENDS Assets, FiniteSetTheorems, WellFoundedInduction, TLAPS

-----------------------------------------------------------------------------
(* Sums over finite sets.  The library folds with a function defined by    *)
(* its own recursion; that there is one, and that the order of the         *)
(* summands does not matter, is shown by looking at a smallest set for     *)
(* which it fails.                                                         *)

\* The member that a sum takes next.
Pick(s) == CHOOSE x \in s : TRUE

\* g is the sum of f over every subset of S.
Adds(f, S, g) ==
    g = [s \in SUBSET S |-> IF s = {} THEN 0 ELSE f[Pick(s)] + g[s \ {Pick(s)}]]

Sum(f, S) == (CHOOSE g : Adds(f, S, g))[S]

LEMMA SumIsFold ==
    ASSUME NEW f, NEW S
    PROVE  SumFunctionOnSet(f, S) = Sum(f, S)
BY DEF SumFunctionOnSet, FoldFunctionOnSet, MapThenFoldSet, Sum, Adds, Pick

LEMMA SmallestIn ==
    ASSUME NEW S, IsFiniteSet(S), NEW D, D \subseteq SUBSET S, D # {}
    PROVE  \E B \in D : \A C \in D : ~(C \subseteq B /\ C # B)
<1>1. FiniteSubsetsOf(S) = SUBSET S
  BY FS_FiniteSubsetsOfFinite
<1>2. IsWellFoundedOn(StrictSubsetOrdering(S), SUBSET S)
  BY <1>1, FS_StrictSubsetOrderingWellFounded
<1>3. PICK B \in D : \A C \in D : ~(<<C, B>> \in StrictSubsetOrdering(S))
  BY <1>2, WFMin
<1>4. ASSUME NEW C \in D, C \subseteq B, C # B PROVE FALSE
  <2>1. <<C, B>> \in StrictSubsetOrdering(S)
    BY <1>4 DEF StrictSubsetOrdering
  <2> QED BY <1>3, <2>1
<1> QED BY <1>4

LEMMA PickIn ==
    ASSUME NEW s, s # {}
    PROVE  Pick(s) \in s /\ s \ {Pick(s)} \subseteq s /\ s \ {Pick(s)} # s
<1>1. Pick(s) \in s
  BY DEF Pick
<1> QED BY <1>1

LEMMA AddsAgree ==
    ASSUME NEW S, IsFiniteSet(S), NEW T, NEW U, S \subseteq T, S \subseteq U,
           NEW f, NEW g, NEW h, Adds(f, T, g), Adds(f, U, h)
    PROVE  g[S] = h[S]
<1> DEFINE D == {s \in SUBSET S : g[s] # h[s]}
<1> SUFFICES ASSUME D # {} PROVE FALSE
  OBVIOUS
<1>1. PICK s \in D : \A t \in D : ~(t \subseteq s /\ t # s)
  <2>1. D \subseteq SUBSET S
    OBVIOUS
  <2> HIDE DEF D
  <2> QED BY <2>1, SmallestIn
<1>2. s \in SUBSET T /\ s \in SUBSET U
  OBVIOUS
<1>3. /\ g[s] = IF s = {} THEN 0 ELSE f[Pick(s)] + g[s \ {Pick(s)}]
      /\ h[s] = IF s = {} THEN 0 ELSE f[Pick(s)] + h[s \ {Pick(s)}]
  BY <1>2 DEF Adds
<1>4. s # {}
  BY <1>3
<1>5. g[s \ {Pick(s)}] = h[s \ {Pick(s)}]
  BY <1>1, <1>4, PickIn
<1> QED BY <1>3, <1>4, <1>5

LEMMA AddsExists ==
    ASSUME NEW S, IsFiniteSet(S), NEW f
    PROVE  \E g : Adds(f, S, g)
<1> DEFINE D == {s \in SUBSET S : ~ \E g : Adds(f, s, g)}
<1> SUFFICES ASSUME D # {} PROVE FALSE
  OBVIOUS
<1>1. PICK B \in D : \A t \in D : ~(t \subseteq B /\ t # B)
  <2>1. D \subseteq SUBSET S
    OBVIOUS
  <2> HIDE DEF D
  <2> QED BY <2>1, SmallestIn
<1> DEFINE H(t) == CHOOSE g : Adds(f, t, g)
           W(t) == IF t = {} THEN 0 ELSE H(t)[t]
           g == [s \in SUBSET B |-> IF s = {} THEN 0 ELSE f[Pick(s)] + W(s \ {Pick(s)})]
<1>2. ASSUME NEW t, t \subseteq B, t # B
      PROVE  Adds(f, t, H(t))
  BY <1>1, <1>2
<1>3. ASSUME NEW t, t \subseteq B, t # B
      PROVE  W(t) = g[t]
  <2>1. CASE t = {}
    BY <2>1
  <2>2. CASE t # {}
    <3> DEFINE u == t \ {Pick(t)}
    <3>1. u \subseteq t /\ u \subseteq B /\ u # B
      BY <1>3, <2>2, PickIn
    <3>2. Adds(f, t, H(t)) /\ Adds(f, u, H(u))
      BY <1>2, <1>3, <3>1
    <3> HIDE DEF H
    <3>3. H(t)[t] = f[Pick(t)] + H(t)[u]
      BY <2>2, <3>2 DEF Adds
    <3>4. IsFiniteSet(u)
      BY <3>1, FS_Subset
    <3>5. H(t)[u] = H(u)[u]
      BY <3>1, <3>2, <3>4, AddsAgree
    <3>6. u = {} => H(u)[u] = 0
      BY <3>2 DEF Adds
    <3>7. W(u) = H(u)[u]
      BY <3>6
    <3>8. g[t] = f[Pick(t)] + W(u)
      BY <1>3, <2>2
    <3> QED BY <2>2, <3>3, <3>5, <3>7, <3>8
  <2> QED BY <2>1, <2>2
<1> HIDE DEF W
<1>4. ASSUME NEW s \in SUBSET B, s # {}
      PROVE  W(s \ {Pick(s)}) = g[s \ {Pick(s)}]
  <2>1. s \ {Pick(s)} \subseteq B /\ s \ {Pick(s)} # B
    BY <1>4, PickIn
  <2> HIDE DEF g
  <2> QED BY <1>3, <2>1
<1>5. g = [s \in SUBSET B |-> IF s = {} THEN 0 ELSE f[Pick(s)] + g[s \ {Pick(s)}]]
  BY <1>4
<1>6. Adds(f, B, g)
  BY <1>5 DEF Adds
<1> QED BY <1>6

LEMMA SumSteps ==
    ASSUME NEW S, IsFiniteSet(S), NEW f
    PROVE  /\ S = {} => Sum(f, S) = 0
           /\ S # {} => Sum(f, S) = f[Pick(S)] + Sum(f, S \ {Pick(S)})
<1> DEFINE H(t) == CHOOSE g : Adds(f, t, g)
           u == S \ {Pick(S)}
<1>1. IsFiniteSet(u)
  BY FS_Subset
<1>2. Adds(f, S, H(S)) /\ Adds(f, u, H(u))
  BY <1>1, AddsExists
<1>3. Sum(f, S) = H(S)[S] /\ Sum(f, u) = H(u)[u]
  BY DEF Sum
<1> HIDE DEF H
<1>4. H(S)[S] = IF S = {} THEN 0 ELSE f[Pick(S)] + H(S)[u]
  BY <1>2 DEF Adds
<1>5. H(S)[u] = H(u)[u]
  BY <1>1, <1>2, AddsAgree
<1> QED BY <1>3, <1>4, <1>5

LEMMA SumInt ==
    ASSUME NEW S, IsFiniteSet(S), NEW f, \A x \in S : f[x] \in Int
    PROVE  Sum(f, S) \in Int
<1> DEFINE D == {s \in SUBSET S : Sum(f, s) \notin Int}
<1> SUFFICES ASSUME D # {} PROVE FALSE
  OBVIOUS
<1>1. PICK s \in D : \A t \in D : ~(t \subseteq s /\ t # s)
  <2>1. D \subseteq SUBSET S
    OBVIOUS
  <2> HIDE DEF D
  <2> QED BY <2>1, SmallestIn
<1>2. IsFiniteSet(s)
  BY FS_Subset
<1>3. s # {}
  <2>1. Sum(f, s) \notin Int
    OBVIOUS
  <2>2. s = {} => Sum(f, s) = 0
    BY <1>2, SumSteps
  <2> QED BY <2>1, <2>2
<1>4. s \ {Pick(s)} \notin D /\ Pick(s) \in s
  BY <1>1, <1>3, PickIn
<1>5. Sum(f, s \ {Pick(s)}) \in Int /\ f[Pick(s)] \in Int
  BY <1>4
<1>6. Sum(f, s) = f[Pick(s)] + Sum(f, s \ {Pick(s)})
  BY <1>2, <1>3, SumSteps
<1> QED BY <1>5, <1>6

LEMMA SumSame ==
    ASSUME NEW S, IsFiniteSet(S), NEW f, NEW h, \A x \in S : f[x] = h[x]
    PROVE  Sum(f, S) = Sum(h, S)
<1> DEFINE D == {s \in SUBSET S : Sum(f, s) # Sum(h, s)}
<1> SUFFICES ASSUME D # {} PROVE FALSE
  OBVIOUS
<1>1. PICK s \in D : \A t \in D : ~(t \subseteq s /\ t # s)
  <2>1. D \subseteq SUBSET S
    OBVIOUS
  <2> HIDE DEF D
  <2> QED BY <2>1, SmallestIn
<1>2. IsFiniteSet(s)
  BY FS_Subset
<1>3. s # {}
  BY <1>2, SumSteps
<1>4. s \ {Pick(s)} \notin D /\ Pick(s) \in s
  BY <1>1, <1>3, PickIn
<1>5. Sum(f, s \ {Pick(s)}) = Sum(h, s \ {Pick(s)}) /\ f[Pick(s)] = h[Pick(s)]
  BY <1>4
<1> QED BY <1>2, <1>3, <1>5, SumSteps

\* The order of the summands does not matter.
LEMMA SumWithout ==
    ASSUME NEW S, IsFiniteSet(S), NEW f, \A x \in S : f[x] \in Int, NEW x \in S
    PROVE  Sum(f, S) = f[x] + Sum(f, S \ {x})
<1> DEFINE D == {s \in SUBSET S : \E y \in s : Sum(f, s) # f[y] + Sum(f, s \ {y})}
<1> SUFFICES ASSUME D # {} PROVE FALSE
  OBVIOUS
<1>1. PICK s \in D : \A t \in D : ~(t \subseteq s /\ t # s)
  <2>1. D \subseteq SUBSET S
    OBVIOUS
  <2> HIDE DEF D
  <2> QED BY <2>1, SmallestIn
<1>2. PICK y \in s : Sum(f, s) # f[y] + Sum(f, s \ {y})
  OBVIOUS
<1> DEFINE c == Pick(s)
           r == s \ {c}
           q == s \ {y}
           p == (s \ {c}) \ {y}
<1>3. IsFiniteSet(s) /\ IsFiniteSet(r) /\ IsFiniteSet(q) /\ IsFiniteSet(p)
  BY FS_Subset
<1>4. c \in s /\ Sum(f, s) = f[c] + Sum(f, r)
  BY <1>3, PickIn, SumSteps
<1> HIDE DEF c
<1>5. c # y
  BY <1>2, <1>4
<1>6. r \notin D /\ y \in r /\ r \in SUBSET S
  BY <1>1, <1>4, <1>5
<1>7. Sum(f, r) = f[y] + Sum(f, p)
  BY <1>6
<1>8. q \notin D /\ c \in q /\ q \in SUBSET S
  BY <1>1, <1>4, <1>5
<1>9. Sum(f, q) = f[c] + Sum(f, p)
  <2>1. q \ {c} = p
    OBVIOUS
  <2> QED BY <1>8, <2>1
<1>10. f[c] \in Int /\ f[y] \in Int /\ Sum(f, p) \in Int
  BY <1>3, <1>4, SumInt
<1> HIDE DEF D
<1> QED BY <1>2, <1>4, <1>7, <1>9, <1>10

-----------------------------------------------------------------------------
(* Counting the objects of a set of keys.                                  *)

LEMMA BytesIsSum ==
    ASSUME NEW S, IsFiniteSet(S), NEW f, NEW b, \A k \in S : f[k] = b[k].size
    PROVE  Bytes(b, S) = Sum(f, S)
<1> DEFINE g == [k \in S |-> b[k].size]
<1>1. \A k \in S : g[k] = f[k]
  OBVIOUS
<1>2. Bytes(b, S) = Sum(g, S)
  BY SumIsFold DEF Bytes
<1> HIDE DEF g
<1> QED BY <1>1, <1>2, SumSame

\* Two sets of keys and two buckets that may differ at one key.
LEMMA CountChange ==
    ASSUME NEW S, IsFiniteSet(S), NEW T, IsFiniteSet(T), NEW x, S \ {x} = T \ {x}
    PROVE  /\ Cardinality(S) \in Nat /\ Cardinality(T) \in Nat
           /\ Cardinality(T) = Cardinality(S) - (IF x \in S THEN 1 ELSE 0)
                                              + (IF x \in T THEN 1 ELSE 0)
<1> DEFINE r == S \ {x}
           m == Cardinality(S)
           n == Cardinality(T)
           l == Cardinality(r)
<1>1. m \in Nat /\ n \in Nat
  BY FS_CardinalityType
<1>2. l = IF x \in S THEN m - 1 ELSE m
  BY FS_RemoveElement
<1>3. Cardinality(T \ {x}) = IF x \in T THEN n - 1 ELSE n
  BY FS_RemoveElement
<1>4. l = IF x \in T THEN n - 1 ELSE n
  BY <1>3
<1> HIDE DEF l, m, n
<1>5. n = m - (IF x \in S THEN 1 ELSE 0) + (IF x \in T THEN 1 ELSE 0)
  BY <1>1, <1>2, <1>4
<1> QED BY <1>1, <1>5 DEF m, n

LEMMA BytesWithout ==
    ASSUME NEW S, IsFiniteSet(S), NEW b, \A k \in S : b[k].size \in Int, NEW x
    PROVE  /\ Bytes(b, S) \in Int /\ Bytes(b, S \ {x}) \in Int
           /\ x \in S => Bytes(b, S) = Bytes(b, S \ {x}) + b[x].size
           /\ x \notin S => Bytes(b, S) = Bytes(b, S \ {x})
<1> DEFINE f == [k \in S |-> b[k].size]
<1>1. IsFiniteSet(S \ {x})
  BY FS_Subset
<1>2. /\ \A k \in S : f[k] = b[k].size /\ f[k] \in Int
      /\ \A k \in S \ {x} : f[k] = b[k].size /\ f[k] \in Int
  OBVIOUS
<1> HIDE DEF f
<1>3. Bytes(b, S) = Sum(f, S) /\ Bytes(b, S \ {x}) = Sum(f, S \ {x})
  BY <1>1, <1>2, BytesIsSum
<1>4. Sum(f, S) \in Int /\ Sum(f, S \ {x}) \in Int
  BY <1>1, <1>2, SumInt
<1>5. ASSUME x \in S
      PROVE  Bytes(b, S) = Bytes(b, S \ {x}) + b[x].size
  <2>1. Sum(f, S) = f[x] + Sum(f, S \ {x})
    BY <1>2, <1>5, SumWithout
  <2>2. f[x] = b[x].size /\ f[x] \in Int
    BY <1>2, <1>5
  <2> QED BY <1>3, <1>4, <2>1, <2>2
<1>6. ASSUME x \notin S
      PROVE  Bytes(b, S) = Bytes(b, S \ {x})
  <2>1. S \ {x} = S
    BY <1>6
  <2> QED BY <2>1
<1>7. Bytes(b, S) \in Int /\ Bytes(b, S \ {x}) \in Int
  BY <1>3, <1>4
<1> QED BY <1>5, <1>6, <1>7

LEMMA BytesChange ==
    ASSUME NEW S, IsFiniteSet(S), NEW T, IsFiniteSet(T), NEW x, S \ {x} = T \ {x},
           NEW b, \A k \in S : b[k].size \in Int,
           NEW c, \A k \in T : c[k].size \in Int,
           \A k \in S \ {x} : b[k] = c[k]
    PROVE  /\ Bytes(b, S) \in Int /\ Bytes(c, T) \in Int
           /\ Bytes(c, T) = Bytes(b, S) - (IF x \in S THEN b[x].size ELSE 0)
                                        + (IF x \in T THEN c[x].size ELSE 0)
<1> DEFINE r == S \ {x}
           f == [k \in r |-> b[k].size]
<1>1. IsFiniteSet(r)
  BY FS_Subset
<1>2. (\A k \in r : f[k] = b[k].size) /\ (\A k \in r : f[k] = c[k].size)
  OBVIOUS
<1> HIDE DEF f
<1>3. Bytes(b, r) = Sum(f, r) /\ Bytes(c, r) = Sum(f, r)
  BY <1>1, <1>2, BytesIsSum
<1>4. /\ Bytes(b, S) \in Int /\ Bytes(b, r) \in Int
      /\ x \in S => Bytes(b, S) = Bytes(b, r) + b[x].size
      /\ x \notin S => Bytes(b, S) = Bytes(b, r)
  BY BytesWithout
<1>5. /\ Bytes(c, T) \in Int /\ Bytes(c, T \ {x}) \in Int
      /\ x \in T => Bytes(c, T) = Bytes(c, T \ {x}) + c[x].size
      /\ x \notin T => Bytes(c, T) = Bytes(c, T \ {x})
  BY BytesWithout
<1>6. Bytes(c, T \ {x}) = Bytes(b, r)
  BY <1>3
<1>7. (x \in S => b[x].size \in Int) /\ (x \in T => c[x].size \in Int)
  OBVIOUS
<1> HIDE DEF r
<1> QED BY <1>4, <1>5, <1>6, <1>7

-----------------------------------------------------------------------------
(* The folds of a bucket, and how they change when one key does.           *)

Buckets == [Keys -> Object \cup {None}]

FolderKeys(b, p) == {k \in Stored(b) : p \in AncestorPaths(k)}

\* Those that the root counts again.
AgainKeys(b, p) == {k \in Stored(b) : p \in ListedAgain(k)}

DayKeys(b, x) == {k \in OfKind(b, x[1]) : b[k].day = x[2]}

\* Any of the objects of a bucket can be counted.
LEMMA Countable ==
    ASSUME NEW b \in Buckets, NEW S \in SUBSET Stored(b)
    PROVE  /\ IsFiniteSet(S) /\ Cardinality(S) \in Nat /\ Bytes(b, S) \in Int
           /\ \A k \in S : b[k] \in Object /\ b[k].size \in Int
           /\ Cardinality(S) > 0 <=> S # {}
           /\ S = {} => Cardinality(S) = 0 /\ Bytes(b, S) = 0
<1>1. S \subseteq Keys
  BY DEF Stored
<1>2. IsFiniteSet(S)
  BY <1>1, KeysAssumption, FS_Subset
<1>3. ASSUME NEW k \in S
      PROVE  b[k] \in Object /\ b[k].size \in Int
  <2>1. b[k] \in Object
    BY DEF Buckets, Stored
  <2>2. b[k].size \in Nat
    BY <2>1 DEF Object
  <2> QED BY <2>1, <2>2
<1>4. Bytes(b, S) \in Int
  <2>1. \A k \in S : b[k].size \in Int
    BY <1>3
  <2> QED BY <1>2, <2>1, BytesWithout
<1>5. Cardinality(S) \in Nat
  BY <1>2, FS_CardinalityType
<1>6. Cardinality(S) = 0 <=> S = {}
  BY <1>2, FS_EmptySet
<1>7. ASSUME S = {}
      PROVE  Bytes(b, S) = 0
  <2> DEFINE f == [k \in S |-> b[k].size]
  <2>1. Bytes(b, S) = Sum(f, S)
    BY SumIsFold DEF Bytes
  <2> HIDE DEF f
  <2> QED BY <1>2, <1>7, <2>1, SumSteps
<1>8. Cardinality(S) > 0 <=> S # {}
  BY <1>5, <1>6
<1> QED BY <1>2, <1>3, <1>4, <1>5, <1>6, <1>7, <1>8

LEMMA TallyRow ==
    ASSUME NEW b \in Buckets, NEW S \in SUBSET Stored(b)
    PROVE  /\ Tally(b, S) \in Row
           /\ Tally(b, S).there = (S # {}) /\ Tally(b, S).explicit = FALSE
           /\ Tally(b, S).count = Cardinality(S) /\ Tally(b, S).bytes = Bytes(b, S)
<1> DEFINE n == Cardinality(S)
           m == Bytes(b, S)
           e == S # {}
<1>1. n \in Int /\ m \in Int
  BY Countable
<1>2. e \in BOOLEAN
  OBVIOUS
<1>3. Tally(b, S) = [there |-> e, explicit |-> FALSE, count |-> n, bytes |-> m]
  BY DEF Tally, Bytes
<1> HIDE DEF n, m, e
<1>4. [there |-> e, explicit |-> FALSE, count |-> n, bytes |-> m] \in Row
  BY <1>1, <1>2 DEF Row
<1>5. /\ Tally(b, S).there = e /\ Tally(b, S).explicit = FALSE
      /\ Tally(b, S).count = n /\ Tally(b, S).bytes = m
  BY <1>3
<1> QED BY <1>3, <1>4, <1>5 DEF n, m, e

\* A row of a fold that may be there without an object.
LEMMA RowThere ==
    ASSUME NEW r \in Row, NEW x \in BOOLEAN
    PROVE  LET u == [r EXCEPT !.there = @ \/ x]
           IN  /\ u \in Row /\ u.there = (r.there \/ x)
               /\ u.explicit = r.explicit /\ u.count = r.count /\ u.bytes = r.bytes
BY Zenon DEF Row

-----------------------------------------------------------------------------
(* Segments.  What has no name and the lone slash stay opaque: a prover    *)
(* that does arithmetic knows no empty string.                             *)

NoName == ""
Dot == "."
Slash == <<"">>
Names == STRING \cup {Dot}

LEMMA AncestorsAre ==
    ASSUME NEW key
    PROVE  AncestorPaths(key) = {SubSeq(key, 1, i) : i \in 0..(Len(key) - 1)} \ {Slash}
BY Zenon DEF AncestorPaths, Slash

LEMMA MadeAre ==
    ASSUME NEW folder
    PROVE  MadeWith(folder) = {SubSeq(folder, 1, i) : i \in 1..Len(folder)} \ {Slash}
BY Zenon DEF MadeWith, Slash

LEMMA NamedAre ==
    ASSUME NEW path
    PROVE  Named(path) = {i \in DOMAIN path : path[i] # NoName}
BY Zenon DEF Named, NoName

LEMMA ChildrenAre ==
    ASSUME NEW folder
    PROVE  Children(folder) = {p \in Paths : /\ folders[p].there
                                             /\ Beneath(p, folder)
                                             /\ Len(p) = Len(folder) + 1
                                             /\ p[Len(p)] # NoName}
BY Zenon DEF Children, NoName

LEMMA SeqMonotone ==
    ASSUME NEW S, NEW T, S \subseteq T, NEW s \in Seq(S)
    PROVE  s \in Seq(T)
OBVIOUS

LEMMA LoneSegment ==
    ASSUME NEW x
    PROVE  Len(<<x>>) = 1 /\ <<x>>[1] = x /\ <<x>> # <<>>
OBVIOUS

LEMMA SlashIs == Len(Slash) = 1 /\ Slash[1] = NoName /\ Slash # <<>>
BY LoneSegment, Zenon DEF Slash, NoName

\* Every key is under the root,
LEMMA RootOfAll ==
    ASSUME NEW key \in Keys
    PROVE  <<>> \in AncestorPaths(key)
<1>1. key \in Seq(STRING) /\ key # <<>>
  BY KeysAssumption
<1>2. 0 \in 0..(Len(key) - 1) /\ SubSeq(key, 1, 0) = <<>>
  BY <1>1
<1> QED BY <1>2, SlashIs, AncestorsAre

\* and only the root is listed again.
LEMMA AgainIsRoot ==
    ASSUME NEW key \in Keys
    PROVE  ListedAgain(key) \subseteq {<<>>} /\ ListedAgain(key) \subseteq AncestorPaths(key)
<1>1. ListedAgain(key) \subseteq {<<>>}
  BY DEF ListedAgain
<1> QED BY <1>1, RootOfAll

LEMMA NotListedAgain ==
    ASSUME NEW b, NEW p, p # <<>>
    PROVE  AgainKeys(b, p) = {}
BY DEF AgainKeys, ListedAgain

LEMMA FolderRow ==
    ASSUME NEW b \in Buckets, NEW p \in Paths
    PROVE  /\ FoldFolders(b)[p] \in Row
           /\ FoldFolders(b)[p].there = (FolderKeys(b, p) # {} \/ p = <<>>)
           /\ FoldFolders(b)[p].explicit = FALSE
           /\ FoldFolders(b)[p].count = Cardinality(FolderKeys(b, p)) + Cardinality(AgainKeys(b, p))
           /\ FoldFolders(b)[p].bytes = Bytes(b, FolderKeys(b, p)) + Bytes(b, AgainKeys(b, p))
<1> DEFINE S == FolderKeys(b, p)
           A == AgainKeys(b, p)
           t == Tally(b, S)
           root == p = <<>>
           n == t.count + Cardinality(A)
           m == t.bytes + Bytes(b, A)
           row == [t EXCEPT !.there = @ \/ root, !.count = n, !.bytes = m]
<1>1. FoldFolders(b)[p] = row
  BY DEF FoldFolders, FolderKeys, AgainKeys
<1>2. S \in SUBSET Stored(b) /\ A \in SUBSET Stored(b)
  BY DEF FolderKeys, AgainKeys
<1>3. root \in BOOLEAN
  OBVIOUS
<1> HIDE DEF S, A, root
<1>4. /\ t \in Row /\ t.there = (S # {}) /\ t.explicit = FALSE
      /\ t.count = Cardinality(S) /\ t.bytes = Bytes(b, S)
  BY <1>2, TallyRow
<1> HIDE DEF t
<1>5. n = Cardinality(S) + Cardinality(A) /\ m = Bytes(b, S) + Bytes(b, A)
  BY <1>4
<1>6. n \in Int /\ m \in Int
  <2>1. /\ Cardinality(S) \in Nat /\ Cardinality(A) \in Nat
        /\ Bytes(b, S) \in Int /\ Bytes(b, A) \in Int
    BY <1>2, Countable
  <2> QED BY <1>5, <2>1
<1> HIDE DEF n, m
<1>7. /\ row \in Row /\ row.there = (t.there \/ root)
      /\ row.explicit = t.explicit /\ row.count = n /\ row.bytes = m
  <2>1. t \in Row /\ n \in Int /\ m \in Int /\ root \in BOOLEAN
    BY <1>3, <1>4, <1>6
  <2> HIDE DEF t, n, m, root
  <2> QED BY <2>1, Zenon DEF Row
<1> HIDE DEF row
<1>8. row.there = (S # {} \/ root)
  BY <1>4, <1>7, Zenon
<1> QED BY <1>1, <1>4, <1>5, <1>7, <1>8 DEF S, A, root

LEMMA KindRow ==
    ASSUME NEW b \in Buckets, NEW x \in KindRows
    PROVE  /\ FoldKinds(b)[x] \in Row
           /\ FoldKinds(b)[x].count = Cardinality(OfKind(b, x))
           /\ FoldKinds(b)[x].bytes = Bytes(b, OfKind(b, x))
<1> DEFINE S == OfKind(b, x)
           t == Tally(b, S)
           root == x = All
           row == [t EXCEPT !.there = @ \/ root]
<1>1. FoldKinds(b)[x] = row
  BY DEF FoldKinds
<1>2. S \in SUBSET Stored(b)
  BY DEF OfKind
<1>3. root \in BOOLEAN
  OBVIOUS
<1> HIDE DEF S, root
<1>4. t \in Row /\ t.count = Cardinality(S) /\ t.bytes = Bytes(b, S)
  BY <1>2, TallyRow
<1> HIDE DEF t
<1>5. row \in Row /\ row.count = t.count /\ row.bytes = t.bytes
  BY <1>3, <1>4, RowThere, Zenon
<1> HIDE DEF row
<1> QED BY <1>1, <1>4, <1>5 DEF S

\* Before the first day there are no rows.
LEMMA DayRow ==
    ASSUME NEW b \in Buckets, NEW from, NEW x \in DayRows
    PROVE  /\ FoldDays(b, from)[x] \in Row /\ FoldDays(b, from)[x].explicit = FALSE
           /\ x[2] < from => FoldDays(b, from)[x].count = 0 /\ FoldDays(b, from)[x].bytes = 0
           /\ ~(x[2] < from) =>
                 /\ FoldDays(b, from)[x].count = Cardinality(DayKeys(b, x))
                 /\ FoldDays(b, from)[x].bytes = Bytes(b, DayKeys(b, x))
<1> DEFINE S == DayKeys(b, x)
           t == Tally(b, S)
<1>1. FoldDays(b, from)[x] = IF x[2] < from THEN NoRow ELSE t
  BY DEF FoldDays, DayKeys
<1>2. S \in SUBSET Stored(b)
  BY DEF DayKeys, OfKind
<1> HIDE DEF S
<1>3. t \in Row /\ t.explicit = FALSE /\ t.count = Cardinality(S) /\ t.bytes = Bytes(b, S)
  BY <1>2, TallyRow
<1> HIDE DEF t
<1>4. NoRow \in Row /\ NoRow.explicit = FALSE /\ NoRow.count = 0 /\ NoRow.bytes = 0
  BY DEF NoRow, Row
<1> QED BY <1>1, <1>3, <1>4 DEF S

\* The buckets are the same but for one key.
SameBut(b, d, key) == \A k \in Keys \ {key} : b[k] = d[k]

LEMMA KeysChange ==
    ASSUME NEW b \in Buckets, NEW d \in Buckets, NEW key, SameBut(b, d, key),
           NEW S \in SUBSET Stored(b), NEW T \in SUBSET Stored(d), S \ {key} = T \ {key}
    PROVE  /\ Cardinality(T) = Cardinality(S) - (IF key \in S THEN 1 ELSE 0)
                                              + (IF key \in T THEN 1 ELSE 0)
           /\ Bytes(d, T) = Bytes(b, S) - (IF key \in S THEN b[key].size ELSE 0)
                                        + (IF key \in T THEN d[key].size ELSE 0)
<1>1. IsFiniteSet(S) /\ IsFiniteSet(T)
  BY Countable
<1>2. \A k \in S : b[k].size \in Int
  BY Countable
<1>3. \A k \in T : d[k].size \in Int
  BY Countable
<1>4. \A k \in S \ {key} : b[k] = d[k]
  BY DEF SameBut, Stored
<1>5. Cardinality(T) = Cardinality(S) - (IF key \in S THEN 1 ELSE 0)
                                      + (IF key \in T THEN 1 ELSE 0)
  BY <1>1, CountChange
<1>6. Bytes(d, T) = Bytes(b, S) - (IF key \in S THEN b[key].size ELSE 0)
                                + (IF key \in T THEN d[key].size ELSE 0)
  BY <1>1, <1>2, <1>3, <1>4, BytesChange
<1> QED BY <1>5, <1>6

\* The rows that count an object o under a key.
FoldersOf(key, o) == IF o = None THEN {} ELSE AncestorPaths(key)

AgainOf(key, o) == IF o = None THEN {} ELSE ListedAgain(key)

KindsOf(o) == IF o = None THEN {} ELSE {o.kind, All}

DaysOf(o) == IF o = None THEN {} ELSE {o.kind, All} \X {o.day}

LEMMA FolderChange ==
    ASSUME NEW b \in Buckets, NEW d \in Buckets, NEW key \in Keys, SameBut(b, d, key), NEW p \in Paths
    PROVE  /\ FoldFolders(d)[p].count = FoldFolders(b)[p].count
                  - (IF p \in FoldersOf(key, b[key]) THEN 1 ELSE 0)
                  + (IF p \in FoldersOf(key, d[key]) THEN 1 ELSE 0)
                  - (IF p \in AgainOf(key, b[key]) THEN 1 ELSE 0)
                  + (IF p \in AgainOf(key, d[key]) THEN 1 ELSE 0)
           /\ FoldFolders(d)[p].bytes = FoldFolders(b)[p].bytes
                  - (IF p \in FoldersOf(key, b[key]) THEN b[key].size ELSE 0)
                  + (IF p \in FoldersOf(key, d[key]) THEN d[key].size ELSE 0)
                  - (IF p \in AgainOf(key, b[key]) THEN b[key].size ELSE 0)
                  + (IF p \in AgainOf(key, d[key]) THEN d[key].size ELSE 0)
<1> DEFINE S == FolderKeys(b, p)
           T == FolderKeys(d, p)
           A == AgainKeys(b, p)
           B == AgainKeys(d, p)
<1>1. S \in SUBSET Stored(b) /\ T \in SUBSET Stored(d) /\ A \in SUBSET Stored(b) /\ B \in SUBSET Stored(d)
  BY DEF FolderKeys, AgainKeys
<1>2. S \ {key} = T \ {key} /\ A \ {key} = B \ {key}
  BY DEF FolderKeys, AgainKeys, Stored, SameBut
<1>3. /\ key \in S <=> p \in FoldersOf(key, b[key])
      /\ key \in T <=> p \in FoldersOf(key, d[key])
      /\ key \in A <=> p \in AgainOf(key, b[key])
      /\ key \in B <=> p \in AgainOf(key, d[key])
  BY DEF FolderKeys, AgainKeys, Stored, FoldersOf, AgainOf
<1>4. /\ FoldFolders(b)[p].count = Cardinality(S) + Cardinality(A)
      /\ FoldFolders(b)[p].bytes = Bytes(b, S) + Bytes(b, A)
      /\ FoldFolders(d)[p].count = Cardinality(T) + Cardinality(B)
      /\ FoldFolders(d)[p].bytes = Bytes(d, T) + Bytes(d, B)
  BY FolderRow
<1> HIDE DEF S, T, A, B
<1>5. /\ Cardinality(T) = Cardinality(S) - (IF key \in S THEN 1 ELSE 0)
                                         + (IF key \in T THEN 1 ELSE 0)
      /\ Bytes(d, T) = Bytes(b, S) - (IF key \in S THEN b[key].size ELSE 0)
                                   + (IF key \in T THEN d[key].size ELSE 0)
  BY <1>1, <1>2, KeysChange
<1>6. /\ Cardinality(B) = Cardinality(A) - (IF key \in A THEN 1 ELSE 0)
                                         + (IF key \in B THEN 1 ELSE 0)
      /\ Bytes(d, B) = Bytes(b, A) - (IF key \in A THEN b[key].size ELSE 0)
                                   + (IF key \in B THEN d[key].size ELSE 0)
  BY <1>1, <1>2, KeysChange
<1>7. /\ Cardinality(S) \in Int /\ Cardinality(T) \in Int /\ Bytes(b, S) \in Int /\ Bytes(d, T) \in Int
      /\ Cardinality(A) \in Int /\ Cardinality(B) \in Int /\ Bytes(b, A) \in Int /\ Bytes(d, B) \in Int
  BY <1>1, Countable
<1>8. /\ key \in S \cup A => b[key].size \in Int
      /\ key \in T \cup B => d[key].size \in Int
  BY <1>1, Countable
<1> QED BY <1>3, <1>4, <1>5, <1>6, <1>7, <1>8

LEMMA KindChange ==
    ASSUME NEW b \in Buckets, NEW d \in Buckets, NEW key \in Keys, SameBut(b, d, key), NEW x \in KindRows
    PROVE  /\ FoldKinds(d)[x].count = FoldKinds(b)[x].count
                  - (IF x \in KindsOf(b[key]) THEN 1 ELSE 0)
                  + (IF x \in KindsOf(d[key]) THEN 1 ELSE 0)
           /\ FoldKinds(d)[x].bytes = FoldKinds(b)[x].bytes
                  - (IF x \in KindsOf(b[key]) THEN b[key].size ELSE 0)
                  + (IF x \in KindsOf(d[key]) THEN d[key].size ELSE 0)
<1> DEFINE S == OfKind(b, x)
           T == OfKind(d, x)
<1>1. S \in SUBSET Stored(b) /\ T \in SUBSET Stored(d)
  BY DEF OfKind
<1>2. S \ {key} = T \ {key}
  BY DEF OfKind, Stored, SameBut
<1>3. (key \in S <=> x \in KindsOf(b[key])) /\ (key \in T <=> x \in KindsOf(d[key]))
  BY DEF OfKind, Stored, KindsOf
<1>4. /\ FoldKinds(b)[x].count = Cardinality(S) /\ FoldKinds(b)[x].bytes = Bytes(b, S)
      /\ FoldKinds(d)[x].count = Cardinality(T) /\ FoldKinds(d)[x].bytes = Bytes(d, T)
  BY KindRow
<1> HIDE DEF S, T
<1>5. /\ Cardinality(T) = Cardinality(S) - (IF key \in S THEN 1 ELSE 0)
                                         + (IF key \in T THEN 1 ELSE 0)
      /\ Bytes(d, T) = Bytes(b, S) - (IF key \in S THEN b[key].size ELSE 0)
                                   + (IF key \in T THEN d[key].size ELSE 0)
  BY <1>1, <1>2, KeysChange
<1> QED BY <1>3, <1>4, <1>5

LEMMA DayChange ==
    ASSUME NEW b \in Buckets, NEW d \in Buckets, NEW key \in Keys, SameBut(b, d, key),
           NEW from, NEW x \in DayRows, ~(x[2] < from)
    PROVE  /\ FoldDays(d, from)[x].count = FoldDays(b, from)[x].count
                  - (IF x \in DaysOf(b[key]) THEN 1 ELSE 0)
                  + (IF x \in DaysOf(d[key]) THEN 1 ELSE 0)
           /\ FoldDays(d, from)[x].bytes = FoldDays(b, from)[x].bytes
                  - (IF x \in DaysOf(b[key]) THEN b[key].size ELSE 0)
                  + (IF x \in DaysOf(d[key]) THEN d[key].size ELSE 0)
<1> DEFINE S == DayKeys(b, x)
           T == DayKeys(d, x)
<1>1. S \in SUBSET Stored(b) /\ T \in SUBSET Stored(d)
  BY DEF DayKeys, OfKind
<1>2. S \ {key} = T \ {key}
  BY DEF DayKeys, OfKind, Stored, SameBut
<1>3. (key \in S <=> x \in DaysOf(b[key])) /\ (key \in T <=> x \in DaysOf(d[key]))
  BY DEF DayKeys, OfKind, Stored, DaysOf, DayRows
<1>4. /\ FoldDays(b, from)[x].count = Cardinality(S) /\ FoldDays(b, from)[x].bytes = Bytes(b, S)
      /\ FoldDays(d, from)[x].count = Cardinality(T) /\ FoldDays(d, from)[x].bytes = Bytes(d, T)
  BY DayRow
<1> HIDE DEF S, T
<1>5. /\ Cardinality(T) = Cardinality(S) - (IF key \in S THEN 1 ELSE 0)
                                         + (IF key \in T THEN 1 ELSE 0)
      /\ Bytes(d, T) = Bytes(b, S) - (IF key \in S THEN b[key].size ELSE 0)
                                   + (IF key \in T THEN d[key].size ELSE 0)
  BY <1>1, <1>2, KeysChange
<1> QED BY <1>3, <1>4, <1>5

-----------------------------------------------------------------------------
(* What a change does to tables of rows.                                   *)

LEMMA NoRowIs ==
    NoRow \in Row /\ NoRow.there = FALSE /\ NoRow.explicit = FALSE /\ NoRow.count = 0 /\ NoRow.bytes = 0
BY DEF NoRow, Row

LEMMA RowFields ==
    ASSUME NEW r \in Row
    PROVE  r.there \in BOOLEAN /\ r.explicit \in BOOLEAN /\ r.count \in Int /\ r.bytes \in Int
BY DEF Row

\* u is t with the rows of a set made or changed.
Adjusted(X, t, u, rows, count, bytes) ==
    /\ u \in [X -> Row]
    /\ \A x \in X :
          /\ u[x].explicit = t[x].explicit
          /\ x \in rows => /\ u[x].there
                           /\ u[x].count = t[x].count + count
                           /\ u[x].bytes = t[x].bytes + bytes
          /\ x \notin rows => u[x] = t[x]

LEMMA AdjustRows ==
    ASSUME NEW X, NEW t \in [X -> Row], NEW rows, NEW count \in Int, NEW bytes \in Int
    PROVE  Adjusted(X, t, Adjust(t, rows, count, bytes), rows, count, bytes)
<1> DEFINE n(x) == t[x].count + count
           m(x) == t[x].bytes + bytes
           new(x) == [t[x] EXCEPT !.there = TRUE, !.count = n(x), !.bytes = m(x)]
           u == Adjust(t, rows, count, bytes)
<1>1. u = [x \in X |-> IF x \in rows THEN new(x) ELSE t[x]]
  BY DEF Adjust
<1>2. ASSUME NEW x \in X
      PROVE  n(x) \in Int /\ m(x) \in Int
  BY RowFields
<1> HIDE DEF n, m
<1>3. ASSUME NEW x \in X
      PROVE  /\ new(x) \in Row /\ new(x).there = TRUE /\ new(x).explicit = t[x].explicit
             /\ new(x).count = n(x) /\ new(x).bytes = m(x)
  <2>1. t[x] \in Row
    OBVIOUS
  <2> QED BY <1>2, <2>1, Zenon DEF Row
<1> HIDE DEF new, u
<1>4. \A x \in X : u[x] = IF x \in rows THEN new(x) ELSE t[x]
  BY <1>1
<1>5. u \in [X -> Row]
  BY <1>1, <1>3
<1>6. \A x \in X : u[x].explicit = t[x].explicit
  BY <1>3, <1>4
<1>7. \A x \in X \cap rows : u[x].there /\ u[x].count = n(x) /\ u[x].bytes = m(x)
  BY <1>3, <1>4
<1>8. \A x \in X \ rows : u[x] = t[x]
  BY <1>4
<1> QED BY <1>5, <1>6, <1>7, <1>8 DEF n, m, u, Adjusted

LEMMA PruneRows ==
    ASSUME NEW X, NEW t \in [X -> Row]
    PROVE  /\ Prune(t) \in [X -> Row]
           /\ \A x \in X :
                 /\ t[x].count <= 0 /\ ~t[x].explicit => Prune(t)[x] = NoRow
                 /\ t[x].count > 0 \/ t[x].explicit => Prune(t)[x] = t[x]
<1> DEFINE drop(x) == t[x].count <= 0 /\ ~t[x].explicit
           u == Prune(t)
<1>1. u = [x \in X |-> IF drop(x) THEN NoRow ELSE t[x]]
  BY DEF Prune
<1>2. ASSUME NEW x \in X
      PROVE  t[x].count > 0 \/ t[x].explicit => ~drop(x)
  <2>1. t[x].count \in Int
    BY RowFields
  <2> QED BY <2>1
<1>3. \A x \in X : t[x].count <= 0 /\ ~t[x].explicit => drop(x)
  OBVIOUS
<1> HIDE DEF drop, u
<1>4. \A x \in X : u[x] = IF drop(x) THEN NoRow ELSE t[x]
  BY <1>1
<1>5. u \in [X -> Row]
  BY <1>1, NoRowIs
<1> QED BY <1>2, <1>3, <1>4, <1>5 DEF u

\* What a change of either kind carries.
Change(c) ==
    /\ c.count \in Int /\ c.bytes \in Int /\ c.size \in Int
    /\ c.prev \in Object \cup {None} /\ c.written \in BOOLEAN

LEMMA ChangeTypes ==
    ASSUME NEW c, Change(c), NEW now,
           NEW f \in [Paths -> Row], NEW k \in [KindRows -> Row], NEW d \in [DayRows -> Row]
    PROVE  /\ ApplyFolders(f, c) \in [Paths -> Row]
           /\ ApplyKinds(k, c) \in [KindRows -> Row]
           /\ ApplyDays(d, c, now) \in [DayRows -> Row]
<1>1. c.count \in Int /\ c.bytes \in Int /\ c.size \in Int
  BY DEF Change
<1>2. ApplyFolders(f, c) \in [Paths -> Row]
  <2> DEFINE once == Adjust(f, AncestorPaths(c.key), c.count, c.bytes)
             a == Adjust(once, ListedAgain(c.key), c.count, c.bytes)
  <2>1. ApplyFolders(f, c) = IF c.count < 0 THEN Prune(a) ELSE a
    BY DEF ApplyFolders
  <2>2. once \in [Paths -> Row]
    BY <1>1, AdjustRows DEF Adjusted
  <2> HIDE DEF once
  <2>3. a \in [Paths -> Row]
    BY <1>1, <2>2, AdjustRows DEF Adjusted
  <2> HIDE DEF a
  <2> QED BY <2>1, <2>3, PruneRows
<1>3. ApplyKinds(k, c) \in [KindRows -> Row]
  BY <1>1, AdjustRows DEF ApplyKinds, Adjusted
<1>4. ApplyDays(d, c, now) \in [DayRows -> Row]
  <2> DEFINE here == {c.kind, All} \X {now}
             gone == {c.kind, All} \X {c.prev.day}
             size == c.size
             less == -c.prev.size
             a == Adjust(d, here, 1, size)
             w == IF c.written THEN a ELSE d
             v == Adjust(w, gone, -1, less)
  <2>1. ApplyDays(d, c, now) = IF c.prev = None THEN w ELSE Prune(v)
    BY DEF ApplyDays
  <2>2. size \in Int /\ 1 \in Int /\ -1 \in Int
    BY <1>1
  <2>3. ASSUME c.prev # None PROVE less \in Int
    <3>1. c.prev \in Object
      BY <2>3 DEF Change
    <3>2. c.prev.size \in Nat
      BY <3>1 DEF Object
    <3> QED BY <3>2
  <2> HIDE DEF here, gone, size, less
  <2>4. a \in [DayRows -> Row]
    BY <2>2, AdjustRows DEF Adjusted
  <2> HIDE DEF a
  <2>5. w \in [DayRows -> Row]
    BY <2>4
  <2> HIDE DEF w
  <2>6. ASSUME c.prev # None PROVE v \in [DayRows -> Row]
    BY <2>2, <2>3, <2>5, <2>6, AdjustRows DEF Adjusted
  <2> HIDE DEF v
  <2> QED BY <2>1, <2>5, <2>6, PruneRows
<1> QED BY <1>2, <1>3, <1>4

-----------------------------------------------------------------------------
(* A change of one key of the bucket, booked, keeps the tables true to it. *)

FoldersTrue(t, b) ==
    /\ Agree(t, FoldFolders(b))
    /\ \A p \in Paths \ {<<>>} : t[p].there <=> t[p].explicit \/ t[p].count > 0

KindsTrue(t, b) == Agree(t, FoldKinds(b))

DaysTrue(t, b, from) == Agree(t, FoldDays(b, from))

SizeOf(o) == IF o = None THEN 0 ELSE o.size

\* c says what became of the object under its key when b became d.
Tells(c, b, d) ==
    /\ c.key \in Keys /\ SameBut(b, d, c.key)
    /\ b[c.key] # None \/ d[c.key] # None
    /\ c.prev = b[c.key] /\ c.written = (d[c.key] # None)
    /\ c.count = (IF d[c.key] = None THEN 0 ELSE 1) - (IF b[c.key] = None THEN 0 ELSE 1)
    /\ c.bytes = SizeOf(d[c.key]) - SizeOf(b[c.key])
    /\ c.size = SizeOf(d[c.key])

LEMMA SizeIsInt ==
    ASSUME NEW b \in Buckets, NEW k \in Keys
    PROVE  SizeOf(b[k]) \in Int /\ (b[k] # None => b[k] \in Object /\ SizeOf(b[k]) = b[k].size)
<1>1. b[k] # None => b[k] \in Object
  BY DEF Buckets
<1>2. b[k] # None => b[k].size \in Nat
  BY <1>1 DEF Object
<1> QED BY <1>1, <1>2 DEF SizeOf

LEMMA TellsChange ==
    ASSUME NEW b \in Buckets, NEW d \in Buckets, NEW c, Tells(c, b, d)
    PROVE  Change(c)
<1>1. SizeOf(b[c.key]) \in Int /\ SizeOf(d[c.key]) \in Int
  BY SizeIsInt DEF Tells
<1>2. c.count \in Int /\ c.bytes \in Int /\ c.size \in Int
  BY <1>1 DEF Tells
<1>3. c.prev \in Object \cup {None}
  BY DEF Tells, Buckets
<1>4. c.written \in BOOLEAN
  BY DEF Tells
<1> QED BY <1>2, <1>3, <1>4 DEF Change

LEMMA AgreeOver ==
    ASSUME NEW X, NEW t, NEW fold, DOMAIN fold = X
    PROVE  Agree(t, fold) <=> \A x \in X : t[x].count = fold[x].count /\ t[x].bytes = fold[x].bytes
BY DEF Agree

LEMMA FoldDomains ==
    ASSUME NEW b, NEW from
    PROVE  /\ DOMAIN FoldFolders(b) = Paths /\ DOMAIN FoldKinds(b) = KindRows
           /\ DOMAIN FoldDays(b, from) = DayRows
BY DEF FoldFolders, FoldKinds, FoldDays

LEMMA FoldersApply ==
    ASSUME NEW b \in Buckets, NEW d \in Buckets, NEW c, Tells(c, b, d),
           NEW t \in [Paths -> Row], FoldersTrue(t, b)
    PROVE  FoldersTrue(ApplyFolders(t, c), d)
<1> DEFINE key == c.key
           up == AncestorPaths(key)
           again == ListedAgain(key)
           n == c.count
           m == c.bytes
           once == Adjust(t, up, n, m)
           a == Adjust(once, again, n, m)
           u == ApplyFolders(t, c)
           F == FoldFolders(b)
           G == FoldFolders(d)
<1>1. u = IF n < 0 THEN Prune(a) ELSE a
  BY DEF ApplyFolders
<1>2. key \in Keys /\ SameBut(b, d, key)
  BY DEF Tells
<1>3. n \in Int /\ m \in Int
  BY TellsChange DEF Change
<1>13. again \subseteq up
  BY <1>2, AgainIsRoot
<1> HIDE DEF n, m, up, again
<1>4. /\ a \in [Paths -> Row]
      /\ \A p \in Paths :
            /\ a[p].explicit = t[p].explicit
            /\ p \in up => a[p].there
            /\ p \in up \ again => /\ a[p].count = t[p].count + n
                                   /\ a[p].bytes = t[p].bytes + m
            /\ p \in again => /\ a[p].count = t[p].count + n + n
                              /\ a[p].bytes = t[p].bytes + m + m
            /\ p \notin up => a[p] = t[p]
  <2>1. Adjusted(Paths, t, once, up, n, m)
    BY <1>3, AdjustRows
  <2> HIDE DEF once
  <2>2. Adjusted(Paths, once, a, again, n, m)
    BY <1>3, <2>1, AdjustRows DEF Adjusted
  <2> HIDE DEF a
  <2> QED BY <1>13, <2>1, <2>2 DEF Adjusted
<1>5. /\ SizeOf(b[key]) \in Int /\ SizeOf(d[key]) \in Int
      /\ b[key] # None => SizeOf(b[key]) = b[key].size
      /\ d[key] # None => SizeOf(d[key]) = d[key].size
      /\ b[key] = None => SizeOf(b[key]) = 0
      /\ d[key] = None => SizeOf(d[key]) = 0
  BY <1>2, SizeIsInt DEF SizeOf
<1>6. ASSUME NEW p \in Paths
      PROVE  /\ F[p].count \in Int /\ F[p].bytes \in Int /\ G[p].count \in Nat /\ G[p].bytes \in Int
             /\ G[p].count = 0 => G[p].bytes = 0
             /\ d[key] # None /\ p \in up => G[p].count > 0
  <2> DEFINE S == FolderKeys(d, p)
             T == FolderKeys(b, p)
             A == AgainKeys(d, p)
             B == AgainKeys(b, p)
  <2>1. S \in SUBSET Stored(d) /\ T \in SUBSET Stored(b) /\ A \in SUBSET Stored(d) /\ B \in SUBSET Stored(b)
    BY DEF FolderKeys, AgainKeys
  <2>2. d[key] # None /\ p \in up => key \in S
    BY <1>2 DEF FolderKeys, Stored, up
  <2>3. /\ G[p].count = Cardinality(S) + Cardinality(A) /\ G[p].bytes = Bytes(d, S) + Bytes(d, A)
        /\ F[p].count = Cardinality(T) + Cardinality(B) /\ F[p].bytes = Bytes(b, T) + Bytes(b, B)
    BY FolderRow
  <2> HIDE DEF S, T, A, B, F, G, up, key
  <2>4. /\ Cardinality(S) \in Nat /\ Bytes(d, S) \in Int /\ (Cardinality(S) > 0 <=> S # {})
        /\ S = {} => Cardinality(S) = 0 /\ Bytes(d, S) = 0
        /\ Cardinality(T) \in Nat /\ Bytes(b, T) \in Int
    BY <2>1, Countable
  <2>5. /\ Cardinality(A) \in Nat /\ Bytes(d, A) \in Int /\ (Cardinality(A) > 0 <=> A # {})
        /\ A = {} => Cardinality(A) = 0 /\ Bytes(d, A) = 0
        /\ Cardinality(B) \in Nat /\ Bytes(b, B) \in Int
    BY <2>1, Countable
  <2> QED BY <2>2, <2>3, <2>4, <2>5
<1>7. ASSUME NEW p \in Paths
      PROVE  a[p].count = G[p].count /\ a[p].bytes = G[p].bytes
  <2>1. t[p].count = F[p].count /\ t[p].bytes = F[p].bytes
    BY AgreeOver, FoldDomains DEF FoldersTrue
  <2>2. /\ G[p].count = F[p].count - (IF p \in FoldersOf(key, b[key]) THEN 1 ELSE 0)
                                   + (IF p \in FoldersOf(key, d[key]) THEN 1 ELSE 0)
                                   - (IF p \in AgainOf(key, b[key]) THEN 1 ELSE 0)
                                   + (IF p \in AgainOf(key, d[key]) THEN 1 ELSE 0)
        /\ G[p].bytes = F[p].bytes - (IF p \in FoldersOf(key, b[key]) THEN b[key].size ELSE 0)
                                   + (IF p \in FoldersOf(key, d[key]) THEN d[key].size ELSE 0)
                                   - (IF p \in AgainOf(key, b[key]) THEN b[key].size ELSE 0)
                                   + (IF p \in AgainOf(key, d[key]) THEN d[key].size ELSE 0)
    BY <1>2, FolderChange
  <2>3. /\ n = (IF d[key] = None THEN 0 ELSE 1) - (IF b[key] = None THEN 0 ELSE 1)
        /\ m = SizeOf(d[key]) - SizeOf(b[key])
    BY DEF Tells, n, m
  <2>4. /\ F[p].count \in Int /\ F[p].bytes \in Int
    BY <1>6
  <2>5. /\ p \in FoldersOf(key, b[key]) <=> b[key] # None /\ p \in up
        /\ p \in FoldersOf(key, d[key]) <=> d[key] # None /\ p \in up
        /\ p \in AgainOf(key, b[key]) <=> b[key] # None /\ p \in again
        /\ p \in AgainOf(key, d[key]) <=> d[key] # None /\ p \in again
    BY DEF FoldersOf, AgainOf, up, again
  <2>6. /\ p \in up \ again => a[p].count = t[p].count + n /\ a[p].bytes = t[p].bytes + m
        /\ p \in again => a[p].count = t[p].count + n + n /\ a[p].bytes = t[p].bytes + m + m
        /\ p \notin up => a[p] = t[p]
    BY <1>4
  <2>9. \/ b[key] # None /\ d[key] # None /\ n = 0 /\ m = d[key].size - b[key].size
           /\ d[key].size \in Int /\ b[key].size \in Int
        \/ b[key] = None /\ d[key] # None /\ n = 1 /\ m = d[key].size /\ d[key].size \in Int
        \/ b[key] # None /\ d[key] = None /\ n = -1 /\ m = 0 - b[key].size /\ b[key].size \in Int
    <3>1. b[key] # None \/ d[key] # None
      BY DEF Tells
    <3> HIDE DEF key
    <3>2. CASE b[key] # None /\ d[key] # None
      BY <1>5, <2>3, <3>2
    <3>3. CASE b[key] = None /\ d[key] # None
      BY <1>5, <2>3, <3>3
    <3>4. CASE b[key] # None /\ d[key] = None
      BY <1>5, <2>3, <3>4
    <3> QED BY <3>1, <3>2, <3>3, <3>4
  <2> HIDE DEF a, F, G, up, again, key
  <2>7. CASE p \in up \ again
    <3>1. a[p].count = F[p].count + n /\ a[p].bytes = F[p].bytes + m
      BY <2>1, <2>6, <2>7
    <3>2. /\ G[p].count = F[p].count - (IF b[key] # None THEN 1 ELSE 0)
                                     + (IF d[key] # None THEN 1 ELSE 0)
          /\ G[p].bytes = F[p].bytes - (IF b[key] # None THEN b[key].size ELSE 0)
                                     + (IF d[key] # None THEN d[key].size ELSE 0)
      <4>1. p \in up /\ p \notin again
        BY <2>7
      <4>2. /\ (IF b[key] # None THEN b[key].size ELSE 0) \in Int
            /\ (IF d[key] # None THEN d[key].size ELSE 0) \in Int
        BY <2>9
      <4> QED BY <2>2, <2>4, <2>5, <4>1, <4>2
    <3> QED BY <2>4, <2>9, <3>1, <3>2
  <2>10. CASE p \in again
    <3>1. a[p].count = F[p].count + n + n /\ a[p].bytes = F[p].bytes + m + m
      BY <2>1, <2>6, <2>10
    <3>2. /\ G[p].count = F[p].count - (IF b[key] # None THEN 1 ELSE 0)
                                     + (IF d[key] # None THEN 1 ELSE 0)
                                     - (IF b[key] # None THEN 1 ELSE 0)
                                     + (IF d[key] # None THEN 1 ELSE 0)
          /\ G[p].bytes = F[p].bytes - (IF b[key] # None THEN b[key].size ELSE 0)
                                     + (IF d[key] # None THEN d[key].size ELSE 0)
                                     - (IF b[key] # None THEN b[key].size ELSE 0)
                                     + (IF d[key] # None THEN d[key].size ELSE 0)
      <4>1. p \in up
        BY <1>13, <2>10
      <4> QED BY <2>2, <2>5, <2>10, <4>1
    <3> QED BY <2>4, <2>9, <3>1, <3>2
  <2>8. CASE p \notin up
    <3>1. p \notin again
      BY <1>13, <2>8
    <3> QED BY <2>1, <2>2, <2>4, <2>5, <2>6, <2>8, <3>1
  <2> QED BY <2>7, <2>8, <2>10
<1>8. ASSUME NEW p \in Paths \ {<<>>}, p \notin up
      PROVE  a[p].there <=> a[p].explicit \/ a[p].count > 0
  BY <1>4, <1>8 DEF FoldersTrue
<1>9. ASSUME NEW p \in Paths
      PROVE  a[p].count \in Int /\ a[p].explicit \in BOOLEAN
  BY <1>4, RowFields
<1> HIDE DEF a, F, G
<1>10. CASE n < 0
  <2>1. u = Prune(a)
    BY <1>1, <1>10
  <2>2. \A p \in Paths :
            /\ a[p].count <= 0 /\ ~a[p].explicit => u[p] = NoRow
            /\ a[p].count > 0 \/ a[p].explicit => u[p] = a[p]
    BY <1>4, <2>1, PruneRows
  <2> HIDE DEF u, up
  <2>3. ASSUME NEW p \in Paths
        PROVE  u[p].count = G[p].count /\ u[p].bytes = G[p].bytes
    BY <1>6, <1>7, <1>9, <2>2, NoRowIs
  <2>4. ASSUME NEW p \in Paths \ {<<>>}
        PROVE  u[p].there <=> u[p].explicit \/ u[p].count > 0
    <3>1. CASE a[p].count <= 0 /\ ~a[p].explicit
      <4>1. u[p] = NoRow
        BY <2>2, <3>1
      <4> QED BY <4>1, NoRowIs
    <3>2. CASE a[p].count > 0 \/ a[p].explicit
      <4>1. u[p] = a[p]
        BY <2>2, <3>2
      <4>2. a[p].there
        BY <1>4, <1>8, <3>2
      <4> QED BY <3>2, <4>1, <4>2
    <3> QED BY <1>9, <3>1, <3>2
  <2>5. Agree(u, FoldFolders(d))
    BY <2>3, AgreeOver, FoldDomains DEF G
  <2> QED BY <2>4, <2>5 DEF FoldersTrue, u
<1>11. CASE ~(n < 0)
  <2>1. u = a
    BY <1>1, <1>11
  <2>2. d[key] # None
    BY <1>11 DEF Tells, n
  <2> HIDE DEF u
  <2>3. ASSUME NEW p \in Paths \ {<<>>}
        PROVE  u[p].there <=> u[p].explicit \/ u[p].count > 0
    <3>1. CASE p \in up
      BY <1>4, <1>6, <1>7, <2>1, <2>2, <3>1
    <3>2. CASE p \notin up
      BY <1>8, <2>1, <3>2
    <3> QED BY <3>1, <3>2
  <2>4. \A p \in Paths : u[p].count = G[p].count /\ u[p].bytes = G[p].bytes
    BY <1>7, <2>1
  <2>5. Agree(u, FoldFolders(d))
    BY <2>4, AgreeOver, FoldDomains DEF G
  <2> QED BY <2>3, <2>5 DEF FoldersTrue, u
<1> QED BY <1>3, <1>10, <1>11

\* What the fields of a change say, in numbers.
LEMMA TellsNumbers ==
    ASSUME NEW b \in Buckets, NEW d \in Buckets, NEW c, Tells(c, b, d)
    PROVE  /\ c.key \in Keys /\ c.count \in Int /\ c.bytes \in Int /\ c.size \in Int
           /\ b[c.key] # None /\ d[c.key] # None =>
                 /\ c.count = 0 /\ c.bytes = d[c.key].size - b[c.key].size
                 /\ b[c.key].size \in Int /\ d[c.key].size \in Int /\ c.size = d[c.key].size
           /\ b[c.key] = None => /\ d[c.key] # None /\ c.count = 1 /\ c.bytes = d[c.key].size
                                 /\ d[c.key].size \in Int /\ c.size = d[c.key].size
           /\ d[c.key] = None => /\ b[c.key] # None /\ c.count = -1 /\ c.bytes = -b[c.key].size
                                 /\ b[c.key].size \in Int
<1> DEFINE o == b[c.key]
           p == d[c.key]
           n == c.count
           m == c.bytes
           l == c.size
<1>1. /\ SizeOf(o) \in Int /\ (o # None => SizeOf(o) = o.size) /\ (o = None => SizeOf(o) = 0)
      /\ SizeOf(p) \in Int /\ (p # None => SizeOf(p) = p.size) /\ (p = None => SizeOf(p) = 0)
  BY SizeIsInt DEF Tells, SizeOf
<1>2. /\ n = (IF p = None THEN 0 ELSE 1) - (IF o = None THEN 0 ELSE 1)
      /\ m = SizeOf(p) - SizeOf(o) /\ l = SizeOf(p)
      /\ o # None \/ p # None
  BY DEF Tells
<1>3. c.key \in Keys
  BY DEF Tells
<1>4. n \in Int /\ m \in Int /\ l \in Int
  BY TellsChange DEF Change
<1> HIDE DEF o, p, n, m, l
<1>5. o # None /\ p # None => n = 0 /\ m = p.size - o.size /\ o.size \in Int /\ p.size \in Int /\ l = p.size
  BY <1>1, <1>2
<1>6. o = None => p # None /\ n = 1 /\ m = p.size /\ p.size \in Int /\ l = p.size
  BY <1>1, <1>2
<1>7. p = None => o # None /\ n = -1 /\ m = -o.size /\ o.size \in Int
  BY <1>1, <1>2
<1> QED BY <1>3, <1>4, <1>5, <1>6, <1>7 DEF o, p, n, m, l

LEMMA KindsApply ==
    ASSUME NEW b \in Buckets, NEW d \in Buckets, NEW c, Tells(c, b, d),
           b[c.key] # None => b[c.key].kind = c.kind,
           d[c.key] # None => d[c.key].kind = c.kind,
           NEW t \in [KindRows -> Row], KindsTrue(t, b)
    PROVE  KindsTrue(ApplyKinds(t, c), d)
<1> DEFINE o == b[c.key]
           p == d[c.key]
           n == c.count
           m == c.bytes
           rows == {c.kind, All}
           a == Adjust(t, rows, n, m)
           F == FoldKinds(b)
           G == FoldKinds(d)
<1>1. n \in Int /\ m \in Int
  BY TellsNumbers
<1>2. /\ o # None /\ p # None => n = 0 /\ m = p.size - o.size /\ o.size \in Int /\ p.size \in Int
      /\ o = None => p # None /\ n = 1 /\ m = p.size /\ p.size \in Int
      /\ p = None => o # None /\ n = -1 /\ m = -o.size /\ o.size \in Int
  BY TellsNumbers
<1>3. /\ KindsOf(o) = IF o = None THEN {} ELSE rows
      /\ KindsOf(p) = IF p = None THEN {} ELSE rows
  BY DEF KindsOf
<1>4. \A x \in KindRows : t[x].count = F[x].count /\ t[x].bytes = F[x].bytes
  <2> HIDE DEF F
  <2> QED BY AgreeOver, FoldDomains DEF KindsTrue, F
<1>5. ASSUME NEW x \in KindRows
      PROVE  /\ G[x].count = F[x].count - (IF x \in KindsOf(o) THEN 1 ELSE 0)
                                        + (IF x \in KindsOf(p) THEN 1 ELSE 0)
             /\ G[x].bytes = F[x].bytes - (IF x \in KindsOf(o) THEN o.size ELSE 0)
                                        + (IF x \in KindsOf(p) THEN p.size ELSE 0)
  BY KindChange DEF Tells
<1> HIDE DEF o, p, n, m, rows, F, G
<1>6. Adjusted(KindRows, t, a, rows, n, m)
  BY <1>1, AdjustRows
<1>7. ApplyKinds(t, c) = a
  BY DEF ApplyKinds, rows, n, m
<1> HIDE DEF a
<1>8. ASSUME NEW x \in KindRows
      PROVE  a[x].count = G[x].count /\ a[x].bytes = G[x].bytes
  <2>1. t[x].count \in Int /\ t[x].bytes \in Int
    BY RowFields
  <2>2. t[x].count = F[x].count /\ t[x].bytes = F[x].bytes
    BY <1>4
  <2>3. /\ x \in rows => a[x].count = t[x].count + n /\ a[x].bytes = t[x].bytes + m
        /\ x \notin rows => a[x] = t[x]
    BY <1>6 DEF Adjusted
  <2>4. CASE x \notin rows
    <3>1. G[x].count = F[x].count - 0 + 0 /\ G[x].bytes = F[x].bytes - 0 + 0
      BY <1>3, <1>5, <2>4
    <3> QED BY <2>1, <2>2, <2>3, <2>4, <3>1
  <2>5. CASE x \in rows /\ o # None /\ p # None
    <3>1. G[x].count = F[x].count - 1 + 1 /\ G[x].bytes = F[x].bytes - o.size + p.size
      BY <1>3, <1>5, <2>5
    <3> QED BY <1>2, <2>1, <2>2, <2>3, <2>5, <3>1
  <2>6. CASE x \in rows /\ o = None
    <3>1. G[x].count = F[x].count - 0 + 1 /\ G[x].bytes = F[x].bytes - 0 + p.size
      BY <1>2, <1>3, <1>5, <2>6
    <3> QED BY <1>2, <2>1, <2>2, <2>3, <2>6, <3>1
  <2>7. CASE x \in rows /\ p = None
    <3>1. G[x].count = F[x].count - 1 + 0 /\ G[x].bytes = F[x].bytes - o.size + 0
      BY <1>2, <1>3, <1>5, <2>7
    <3> QED BY <1>2, <2>1, <2>2, <2>3, <2>7, <3>1
  <2> QED BY <2>4, <2>5, <2>6, <2>7
<1> QED BY <1>7, <1>8, AgreeOver, FoldDomains DEF KindsTrue, G

\* No row is explicit.
Plain(t) == \A x \in DayRows : ~t[x].explicit

LEMMA DaysPlain ==
    ASSUME NEW c, Change(c), NEW now, NEW t \in [DayRows -> Row], Plain(t)
    PROVE  Plain(ApplyDays(t, c, now))
<1> DEFINE here == {c.kind, All} \X {now}
           gone == {c.kind, All} \X {c.prev.day}
           size == c.size
           less == -c.prev.size
           a == Adjust(t, here, 1, size)
           w == IF c.written THEN a ELSE t
           v == Adjust(w, gone, -1, less)
<1>1. ApplyDays(t, c, now) = IF c.prev = None THEN w ELSE Prune(v)
  BY DEF ApplyDays
<1>2. size \in Int /\ 1 \in Int /\ -1 \in Int
  BY DEF Change
<1>3. ASSUME c.prev # None PROVE less \in Int
  <2>1. c.prev \in Object
    BY <1>3 DEF Change
  <2>2. c.prev.size \in Nat
    BY <2>1 DEF Object
  <2> QED BY <2>2
<1> HIDE DEF here, gone, size, less
<1>4. Adjusted(DayRows, t, a, here, 1, size)
  BY <1>2, AdjustRows
<1> HIDE DEF a
<1>5. w \in [DayRows -> Row] /\ Plain(w)
  BY <1>4 DEF Adjusted, Plain
<1> HIDE DEF w
<1>6. ASSUME c.prev # None
      PROVE  Plain(Prune(v))
  <2>1. Adjusted(DayRows, w, v, gone, -1, less)
    BY <1>2, <1>3, <1>5, <1>6, AdjustRows
  <2> HIDE DEF v
  <2>2. v \in [DayRows -> Row] /\ Plain(v)
    BY <1>5, <2>1 DEF Adjusted, Plain
  <2>3. \A x \in DayRows : v[x].count <= 0 \/ v[x].count > 0
    BY <2>2, RowFields
  <2> QED BY <2>2, <2>3, PruneRows, NoRowIs DEF Plain
<1> QED BY <1>1, <1>5, <1>6

\* The rows of a day before the first one are emptied again.
LEMMA DaysApply ==
    ASSUME NEW b \in Buckets, NEW d \in Buckets, NEW c, Tells(c, b, d),
           b[c.key] # None => b[c.key].kind = c.kind,
           d[c.key] # None => d[c.key].kind = c.kind,
           NEW now \in Days, d[c.key] # None => d[c.key].day = now,
           NEW from \in Int, from <= now,
           NEW t \in [DayRows -> Row], Plain(t), DaysTrue(t, b, from)
    PROVE  DaysTrue(ApplyDays(t, c, now), d, from)
<1> DEFINE o == b[c.key]
           p == d[c.key]
           here == {c.kind, All} \X {now}
           gone == {c.kind, All} \X {o.day}
           size == c.size
           less == -o.size
           a == Adjust(t, here, 1, size)
           w == IF c.written THEN a ELSE t
           v == Adjust(w, gone, -1, less)
           u == ApplyDays(t, c, now)
           F == FoldDays(b, from)
           G == FoldDays(d, from)
<1>1. u = IF o = None THEN w ELSE Prune(v)
  BY DEF ApplyDays, Tells
<1>2. size \in Int /\ 1 \in Int /\ -1 \in Int
  BY TellsNumbers
<1>3. /\ o # None /\ p # None => size = p.size /\ o.size \in Int /\ p.size \in Int
      /\ o = None => p # None /\ size = p.size /\ p.size \in Int
      /\ p = None => o # None /\ o.size \in Int
  BY TellsNumbers
<1>4. /\ DaysOf(o) = IF o = None THEN {} ELSE gone
      /\ DaysOf(p) = IF p = None THEN {} ELSE here
  BY DEF DaysOf
<1>5. c.written <=> p # None
  BY DEF Tells
<1>6. \A x \in DayRows : t[x].count = F[x].count /\ t[x].bytes = F[x].bytes
  <2> HIDE DEF F
  <2> QED BY AgreeOver, FoldDomains DEF DaysTrue, F
<1>7. ASSUME NEW x \in DayRows, ~(x[2] < from)
      PROVE  /\ G[x].count = F[x].count - (IF x \in DaysOf(o) THEN 1 ELSE 0)
                                        + (IF x \in DaysOf(p) THEN 1 ELSE 0)
             /\ G[x].bytes = F[x].bytes - (IF x \in DaysOf(o) THEN o.size ELSE 0)
                                        + (IF x \in DaysOf(p) THEN p.size ELSE 0)
  BY <1>7, DayChange DEF Tells
<1>8. ASSUME NEW x \in DayRows
      PROVE  /\ x[2] < from => /\ F[x].count = 0 /\ F[x].bytes = 0
                               /\ G[x].count = 0 /\ G[x].bytes = 0
             /\ G[x].count = 0 => G[x].bytes = 0
             /\ G[x].count >= 0 /\ G[x].count \in Int
  <2> DEFINE S == DayKeys(d, x)
  <2>1. S \in SUBSET Stored(d)
    BY DEF DayKeys, OfKind
  <2>2. /\ x[2] < from => F[x].count = 0 /\ F[x].bytes = 0
        /\ x[2] < from => G[x].count = 0 /\ G[x].bytes = 0
        /\ ~(x[2] < from) => G[x].count = Cardinality(S) /\ G[x].bytes = Bytes(d, S)
    BY DayRow
  <2> HIDE DEF S, F, G
  <2>3. /\ Cardinality(S) \in Nat /\ (Cardinality(S) > 0 <=> S # {})
        /\ S = {} => Bytes(d, S) = 0
    BY <2>1, Countable
  <2> QED BY <2>2, <2>3
<1>9. ASSUME NEW x \in DayRows, x[2] < from
      PROVE  x \notin here
  BY <1>9 DEF DayRows, Days
<1>10. less \in Int \/ o = None
  <2> HIDE DEF o
  <2>1. o # None => o.size \in Int
    BY <1>3
  <2> QED BY <2>1
<1> HIDE DEF o, p, here, gone, size, F, G
<1>11. Adjusted(DayRows, t, a, here, 1, size)
  BY <1>2, AdjustRows
<1> HIDE DEF a
<1>12. w \in [DayRows -> Row] /\ Plain(w)
  BY <1>11 DEF Adjusted, Plain
<1>13. ASSUME NEW x \in DayRows
       PROVE  /\ w[x].count = t[x].count + (IF p # None /\ x \in here THEN 1 ELSE 0)
              /\ w[x].bytes = t[x].bytes + (IF p # None /\ x \in here THEN p.size ELSE 0)
              /\ w[x].count \in Int /\ w[x].bytes \in Int
  <2>1. t[x].count \in Int /\ t[x].bytes \in Int
    BY RowFields
  <2>2. w[x].count \in Int /\ w[x].bytes \in Int
    BY <1>12, RowFields
  <2>3. /\ x \in here => a[x].count = t[x].count + 1 /\ a[x].bytes = t[x].bytes + size
        /\ x \notin here => a[x] = t[x]
    BY <1>11 DEF Adjusted
  <2>4. CASE p # None /\ x \in here
    <3>1. w[x].count = t[x].count + 1 /\ w[x].bytes = t[x].bytes + p.size
      BY <1>3, <1>5, <2>3, <2>4
    <3> QED BY <2>2, <2>4, <3>1
  <2>5. CASE ~(p # None /\ x \in here)
    <3>1. w[x] = t[x]
      BY <1>5, <2>3, <2>5
    <3> QED BY <2>1, <2>2, <2>5, <3>1
  <2> QED BY <2>4, <2>5
<1> HIDE DEF w
<1>14. CASE o = None
  <2>1. u = w
    BY <1>1, <1>14
  <2>2. ASSUME NEW x \in DayRows
        PROVE  u[x].count = G[x].count /\ u[x].bytes = G[x].bytes
    <3>1. t[x].count = F[x].count /\ t[x].bytes = F[x].bytes /\ t[x].count \in Int /\ t[x].bytes \in Int
      BY <1>6, RowFields
    <3>2. CASE x[2] < from
      BY <1>8, <1>9, <1>13, <2>1, <3>1, <3>2
    <3>3. CASE ~(x[2] < from) /\ x \in here
      <4>1. G[x].count = F[x].count - 0 + 1 /\ G[x].bytes = F[x].bytes - 0 + p.size
        BY <1>3, <1>4, <1>7, <1>14, <3>3
      <4>2. w[x].count = t[x].count + 1 /\ w[x].bytes = t[x].bytes + p.size
        BY <1>3, <1>13, <1>14, <3>3
      <4> QED BY <1>3, <1>14, <2>1, <3>1, <4>1, <4>2
    <3>4. CASE ~(x[2] < from) /\ x \notin here
      <4>1. G[x].count = F[x].count - 0 + 0 /\ G[x].bytes = F[x].bytes - 0 + 0
        BY <1>3, <1>4, <1>7, <1>14, <3>4
      <4>2. w[x].count = t[x].count + 0 /\ w[x].bytes = t[x].bytes + 0
        BY <1>13, <3>4
      <4> QED BY <2>1, <3>1, <4>1, <4>2
    <3> QED BY <3>2, <3>3, <3>4
  <2> QED BY <2>2, AgreeOver, FoldDomains DEF DaysTrue, G, u
<1>15. CASE o # None
  <2>1. u = Prune(v)
    BY <1>1, <1>15
  <2>2. less \in Int
    BY <1>10, <1>15
  <2>3. less = -o.size /\ o.size \in Int
    BY <1>3, <1>15
  <2> HIDE DEF less
  <2>4. Adjusted(DayRows, w, v, gone, -1, less)
    BY <1>2, <1>12, <2>2, AdjustRows
  <2> HIDE DEF v, u
  <2>5. v \in [DayRows -> Row]
    BY <2>4 DEF Adjusted
  <2>6. ASSUME NEW x \in DayRows
        PROVE  /\ v[x].count <= 0 => u[x].count = 0 /\ u[x].bytes = 0
               /\ v[x].count > 0 => u[x] = v[x]
               /\ v[x].count \in Int /\ v[x].bytes \in Int
    <3>1. ~v[x].explicit
      BY <1>12, <2>4 DEF Adjusted, Plain
    <3>2. v[x].count \in Int /\ v[x].bytes \in Int
      BY <2>5, RowFields
    <3>3. v[x].count <= 0 => u[x] = NoRow
      BY <2>1, <2>5, <3>1, PruneRows
    <3>4. v[x].count > 0 => u[x] = v[x]
      BY <2>1, <2>5, PruneRows
    <3> QED BY <3>2, <3>3, <3>4, NoRowIs
  <2>7. ASSUME NEW x \in DayRows
        PROVE  u[x].count = G[x].count /\ u[x].bytes = G[x].bytes
    <3>1. t[x].count = F[x].count /\ t[x].bytes = F[x].bytes /\ t[x].count \in Int /\ t[x].bytes \in Int
      BY <1>6, RowFields
    <3>2. /\ x \in gone => v[x].count = w[x].count + (-1) /\ v[x].bytes = w[x].bytes + less
          /\ x \notin gone => v[x] = w[x]
      BY <2>4 DEF Adjusted
    <3>3. CASE x[2] < from
      <4>1. w[x].count = 0 + 0 /\ w[x].bytes = 0 + 0
        BY <1>8, <1>9, <1>13, <3>1, <3>3
      <4>2. v[x].count <= 0
        BY <3>2, <4>1
      <4> QED BY <1>8, <2>6, <3>3, <4>2
    <3>4. CASE ~(x[2] < from)
      <4>1. v[x].count = w[x].count - (IF x \in gone THEN 1 ELSE 0)
        BY <1>13, <3>2
      <4>2. v[x].bytes = w[x].bytes - (IF x \in gone THEN o.size ELSE 0)
        BY <1>13, <2>3, <3>2
      <4>3. /\ G[x].count = F[x].count - (IF x \in gone THEN 1 ELSE 0)
                                      + (IF p # None /\ x \in here THEN 1 ELSE 0)
            /\ G[x].bytes = F[x].bytes - (IF x \in gone THEN o.size ELSE 0)
                                      + (IF p # None /\ x \in here THEN p.size ELSE 0)
        <5>1. (x \in DaysOf(o) <=> x \in gone) /\ (x \in DaysOf(p) <=> p # None /\ x \in here)
          BY <1>4, <1>15
        <5> QED BY <1>7, <3>4, <5>1
      <4>4. p # None => p.size \in Int
        BY <1>3, <1>15
      <4>5. v[x].count = G[x].count
        BY <1>13, <3>1, <4>1, <4>3
      <4>6. v[x].bytes = G[x].bytes
        BY <1>13, <2>3, <3>1, <4>2, <4>3, <4>4
      <4> QED BY <1>8, <2>6, <4>5, <4>6
    <3> QED BY <3>3, <3>4
  <2> QED BY <2>7, AgreeOver, FoldDomains DEF DaysTrue, G, u
<1> QED BY <1>14, <1>15

-----------------------------------------------------------------------------
(* Folders made on purpose.                                                *)

\* A row, whatever its numbers.
Fields(r) ==
    {"there", "explicit"} \subseteq DOMAIN r /\ r.there \in BOOLEAN /\ r.explicit \in BOOLEAN

\* A table of folders.
Table(t) == t = [p \in Paths |-> t[p]] /\ \A p \in Paths : Fields(t[p])

\* Folders made on purpose hang on such folders.
Reachable(t) ==
    \A p \in Paths : t[p].explicit => t[p].there /\ \A q \in MadeWith(p) : t[q].explicit

\* Every folder made on purpose in t is one in u.
Keeps(t, u) == \A p \in Paths : t[p].explicit => u[p].explicit /\ u[p].there

\* The folders made on purpose are the same ones, and have their rows.
Same(t, u) ==
    /\ \A p \in Paths : u[p].explicit = t[p].explicit
    /\ \A p \in Paths : t[p].explicit /\ t[p].there => u[p].there

-----------------------------------------------------------------------------
(* Prefixes.                                                               *)

LEMMA PrefixOfPrefix ==
    ASSUME NEW s \in Seq(STRING), NEW i \in 0..Len(s), NEW j \in 0..i
    PROVE  /\ SubSeq(s, 1, i) \in Seq(STRING) /\ Len(SubSeq(s, 1, i)) = i
           /\ SubSeq(SubSeq(s, 1, i), 1, j) = SubSeq(s, 1, j)
<1>1. SubSeq(s, 1, i) \in Seq(STRING) /\ Len(SubSeq(s, 1, i)) = i
  OBVIOUS
<1>2. SubSeq(SubSeq(s, 1, i), 1, j) = SubSeq(s, 1, j)
  OBVIOUS
<1> QED BY <1>1, <1>2

\* The folders above a folder of the table are in the table.
LEMMA PathsClosed ==
    ASSUME NEW p \in Paths
    PROVE  MadeWith(p) \subseteq Paths
<1>1. CASE p = <<>>
  BY <1>1, MadeAre
<1>2. ASSUME NEW k \in Keys, p \in AncestorPaths(k)
      PROVE  MadeWith(p) \subseteq Paths
  <2>1. PICK i \in 0..(Len(k) - 1) : p = SubSeq(k, 1, i)
    BY <1>2, AncestorsAre
  <2>2. k \in Seq(STRING)
    BY KeysAssumption
  <2> SUFFICES ASSUME NEW j \in 1..Len(p), SubSeq(p, 1, j) # Slash PROVE SubSeq(p, 1, j) \in Paths
    BY MadeAre
  <2>3. i \in 0..Len(k) /\ Len(p) = i
    BY <2>1, <2>2
  <2>4. SubSeq(p, 1, j) = SubSeq(k, 1, j)
    BY <2>1, <2>2, <2>3, PrefixOfPrefix
  <2>5. j \in 0..(Len(k) - 1)
    BY <2>1, <2>2, <2>3
  <2>6. SubSeq(k, 1, j) \in AncestorPaths(k)
    BY <2>4, <2>5, AncestorsAre
  <2> QED BY <2>4, <2>6, Zenon DEF Paths
<1>3. ASSUME NEW f \in NewFolders, p \in MadeWith(f)
      PROVE  MadeWith(p) \subseteq Paths
  <2>1. PICK i \in 1..Len(f) : p = SubSeq(f, 1, i)
    BY <1>3, MadeAre
  <2>2. f \in Seq(STRING)
    BY KeysAssumption
  <2> SUFFICES ASSUME NEW j \in 1..Len(p), SubSeq(p, 1, j) # Slash PROVE SubSeq(p, 1, j) \in Paths
    BY MadeAre
  <2>3. i \in 0..Len(f) /\ Len(p) = i
    BY <2>1, <2>2
  <2>4. SubSeq(p, 1, j) = SubSeq(f, 1, j)
    BY <2>1, <2>2, <2>3, PrefixOfPrefix
  <2>5. j \in 1..Len(f)
    BY <2>1, <2>2, <2>3
  <2>6. SubSeq(f, 1, j) \in MadeWith(f)
    BY <2>4, <2>5, MadeAre
  <2> QED BY <2>4, <2>6, Zenon DEF Paths
<1> QED BY <1>1, <1>2, <1>3 DEF Paths

\* Folders above one that is made on the way to f are made on the way to f.
LEMMA MadeWithTransitive ==
    ASSUME NEW f \in NewFolders, NEW p \in MadeWith(f)
    PROVE  MadeWith(p) \subseteq MadeWith(f)
<1>1. PICK i \in 1..Len(f) : p = SubSeq(f, 1, i)
  BY MadeAre
<1>2. f \in Seq(STRING)
  BY KeysAssumption
<1> SUFFICES ASSUME NEW j \in 1..Len(p), SubSeq(p, 1, j) # Slash
             PROVE  SubSeq(p, 1, j) \in MadeWith(f)
  BY MadeAre
<1>3. i \in 0..Len(f) /\ Len(p) = i
  BY <1>1, <1>2
<1>4. SubSeq(p, 1, j) = SubSeq(f, 1, j) /\ j \in 1..Len(f)
  BY <1>1, <1>2, <1>3, PrefixOfPrefix
<1> QED BY <1>4, MadeAre

-----------------------------------------------------------------------------
(* What the operations on the table keep.                                  *)

LEMMA SameReachable ==
    ASSUME NEW t, NEW u, Reachable(t), Same(t, u)
    PROVE  Reachable(u) /\ Keeps(t, u)
<1>1. \A p \in Paths : \A q \in MadeWith(p) : q \in Paths
  BY PathsClosed
<1>2. Reachable(u)
  BY <1>1 DEF Reachable, Same
<1> QED BY <1>2 DEF Reachable, Same, Keeps

\* A row of a fold that takes over whether its folder was made on purpose.
LEMMA RowTakenOver ==
    ASSUME NEW r, Fields(r), NEW x \in BOOLEAN
    PROVE  LET row == [r EXCEPT !.explicit = x, !.there = @ \/ x]
           IN  Fields(row) /\ row.explicit = x /\ (x => row.there)
BY DEF Fields

LEMMA AdjustSame ==
    ASSUME NEW t, Table(t), NEW rows, NEW count, NEW bytes
    PROVE  Table(Adjust(t, rows, count, bytes)) /\ Same(t, Adjust(t, rows, count, bytes))
<1> DEFINE new(x) == [t[x] EXCEPT !.there = TRUE, !.count = @ + count, !.bytes = @ + bytes]
           u == Adjust(t, rows, count, bytes)
<1>1. DOMAIN t = Paths
  BY DEF Table
<1>2. ASSUME NEW x \in Paths
      PROVE  Fields(new(x)) /\ new(x).there = TRUE /\ new(x).explicit = t[x].explicit
  <2>1. Fields(t[x])
    BY DEF Table
  <2> QED BY <2>1 DEF Fields
<1>3. u = [x \in Paths |-> IF x \in rows THEN new(x) ELSE t[x]]
  BY <1>1 DEF Adjust
<1> HIDE DEF u, new
<1>4. \A x \in Paths : u[x] = IF x \in rows THEN new(x) ELSE t[x]
  BY <1>3
<1>5. Table(u)
  <2>1. u = [x \in Paths |-> u[x]]
    BY <1>3
  <2>2. \A x \in Paths : Fields(u[x])
    BY <1>2, <1>4 DEF Table
  <2> QED BY <2>1, <2>2 DEF Table
<1>6. Same(t, u)
  BY <1>2, <1>4 DEF Same
<1> QED BY <1>5, <1>6 DEF u

LEMMA PruneSame ==
    ASSUME NEW t, Table(t)
    PROVE  Table(Prune(t)) /\ Same(t, Prune(t))
<1> DEFINE u == Prune(t)
           drop(x) == t[x].count <= 0 /\ ~t[x].explicit
<1>1. DOMAIN t = Paths
  BY DEF Table
<1>2. u = [x \in Paths |-> IF drop(x) THEN NoRow ELSE t[x]]
  BY <1>1 DEF Prune
<1>3. Fields(NoRow) /\ NoRow.explicit = FALSE
  BY DEF Fields, NoRow
<1>4. \A x \in Paths : drop(x) => t[x].explicit = FALSE
  BY DEF Table, Fields
<1> HIDE DEF u, drop
<1>5. \A x \in Paths : u[x] = IF drop(x) THEN NoRow ELSE t[x]
  BY <1>2
<1>6. Table(u)
  <2>1. u = [x \in Paths |-> u[x]]
    BY <1>2
  <2>2. \A x \in Paths : Fields(u[x])
    BY <1>3, <1>5 DEF Table
  <2> QED BY <2>1, <2>2 DEF Table
<1>7. Same(t, u)
  BY <1>3, <1>4, <1>5 DEF Same
<1> QED BY <1>6, <1>7 DEF u

LEMMA SameTwice ==
    ASSUME NEW t, NEW u, NEW v, Same(t, u), Same(u, v)
    PROVE  Same(t, v)
BY DEF Same

LEMMA ApplySame ==
    ASSUME NEW t, Table(t), NEW c
    PROVE  Table(ApplyFolders(t, c)) /\ Same(t, ApplyFolders(t, c))
<1> DEFINE once == Adjust(t, AncestorPaths(c.key), c.count, c.bytes)
           a == Adjust(once, ListedAgain(c.key), c.count, c.bytes)
<1>1. Table(a) /\ Same(t, a)
  <2>1. Table(once) /\ Same(t, once)
    BY AdjustSame
  <2> HIDE DEF once
  <2>2. Table(a) /\ Same(once, a)
    BY <2>1, AdjustSame
  <2> HIDE DEF a
  <2> QED BY <2>1, <2>2, SameTwice
<1>2. ApplyFolders(t, c) = IF c.count < 0 THEN Prune(a) ELSE a
  BY DEF ApplyFolders
<1> HIDE DEF a
<1>3. Table(Prune(a)) /\ Same(t, Prune(a))
  BY <1>1, PruneSame, SameTwice
<1> QED BY <1>1, <1>2, <1>3

-----------------------------------------------------------------------------
FInv == Table(folders) /\ Reachable(folders)

\* A fold makes rows of its own, none of them explicit.
LEMMA FoldTable ==
    ASSUME NEW b
    PROVE  Table(FoldFolders(b)) /\ \A p \in Paths : FoldFolders(b)[p].explicit = FALSE
<1> DEFINE t == FoldFolders(b)
           tally(p) == Tally(b, {k \in Stored(b) : p \in AncestorPaths(k)})
           again(p) == {k \in Stored(b) : p \in ListedAgain(k)}
           root(p) == p = <<>>
           row(p) == [tally(p) EXCEPT !.there = @ \/ root(p), !.count = @ + Cardinality(again(p)),
                                      !.bytes = @ + Bytes(b, again(p))]
<1>1. t = [p \in Paths |-> row(p)]
  BY DEF FoldFolders
<1>2. ASSUME NEW p \in Paths
      PROVE  Fields(row(p)) /\ row(p).explicit = FALSE
  <2>1. Fields(tally(p)) /\ tally(p).explicit = FALSE
    BY DEF Tally, Fields
  <2>2. root(p) \in BOOLEAN
    OBVIOUS
  <2> HIDE DEF tally, root, again
  <2> QED BY <2>1, <2>2 DEF Fields
<1> HIDE DEF t, row
<1>3. \A p \in Paths : t[p] = row(p)
  BY <1>1
<1>4. t = [p \in Paths |-> t[p]]
  BY <1>1
<1> QED BY <1>2, <1>3, <1>4 DEF Table, t

LEMMA InitFInv == Init => FInv
<1> SUFFICES ASSUME Init PROVE FInv
  OBVIOUS
<1>1. folders = FoldFolders(bucket)
  BY DEF Init
<1> QED BY <1>1, FoldTable DEF FInv, Reachable

LEMMA BookKeeps ==
    ASSUME FInv, NEW w \in Requests, Book(w)
    PROVE  FInv' /\ Keeps(folders, folders')
<1> DEFINE c == Changes(work[w])
           one == ApplyFolders(folders, c[1])
           two == ApplyFolders(one, c[2])
<1>1. folders' = IF Len(c) = 1 THEN one ELSE two
  BY DEF Book
<1>2. Table(one) /\ Same(folders, one)
  BY ApplySame DEF FInv
<1>3. Table(two) /\ Same(folders, two)
  <2> HIDE DEF one
  <2> QED BY <1>2, ApplySame, SameTwice
<1> HIDE DEF one, two, c
<1>4. Table(folders') /\ Same(folders, folders')
  BY <1>1, <1>2, <1>3
<1> QED BY <1>4, SameReachable DEF FInv

LEMMA ReplaceKeeps ==
    ASSUME FInv, NEW w \in Requests, Replace(w)
    PROVE  FInv' /\ Keeps(folders, folders')
<1> DEFINE fold == FoldFolders(work[w].seen)
           row(p) == [fold[p] EXCEPT !.explicit = folders[p].explicit,
                                     !.there = @ \/ folders[p].explicit]
<1>1. folders' = [p \in Paths |-> row(p)]
  BY DEF Replace, ReplaceFolders
<1>2. Table(fold)
  BY FoldTable
<1> HIDE DEF fold
<1>3. ASSUME NEW p \in Paths
      PROVE  /\ Fields(row(p)) /\ row(p).explicit = folders[p].explicit
             /\ folders[p].explicit => row(p).there
  <2>1. Fields(fold[p]) /\ folders[p].explicit \in BOOLEAN
    BY <1>2 DEF Table, FInv, Fields
  <2> QED BY <2>1, RowTakenOver, Zenon
<1> HIDE DEF row
<1>4. \A p \in Paths : folders'[p] = row(p)
  BY <1>1
<1>5. folders' = [p \in Paths |-> folders'[p]]
  BY <1>1
<1>6. Table(folders') /\ Same(folders, folders')
  BY <1>3, <1>4, <1>5 DEF Table, Same
<1> QED BY <1>6, SameReachable DEF FInv

LEMMA CreateFolderKeeps ==
    ASSUME FInv, NEW f \in NewFolders, CreateFolder(f)
    PROVE  FInv' /\ Keeps(folders, folders')
<1> DEFINE row(p) == [folders[p] EXCEPT !.there = TRUE, !.explicit = TRUE]
<1>1. folders' = [p \in Paths |-> IF p \in MadeWith(f) THEN row(p) ELSE folders[p]]
  BY DEF CreateFolder
<1>2. ASSUME NEW p \in Paths
      PROVE  Fields(row(p)) /\ row(p).there = TRUE /\ row(p).explicit = TRUE
  <2>1. Fields(folders[p])
    BY DEF FInv, Table
  <2> QED BY <2>1 DEF Fields
<1> HIDE DEF row
<1>3. \A p \in Paths : folders'[p] = IF p \in MadeWith(f) THEN row(p) ELSE folders[p]
  BY <1>1
<1>4. folders' = [p \in Paths |-> folders'[p]]
  BY <1>1
<1>5. Table(folders')
  BY <1>2, <1>3, <1>4 DEF FInv, Table
<1>6. \A p \in Paths : \A q \in MadeWith(p) : q \in Paths
  BY PathsClosed
<1>7. \A p \in MadeWith(f) : \A q \in MadeWith(p) : q \in MadeWith(f)
  BY MadeWithTransitive
<1>8. Reachable(folders')
  BY <1>2, <1>3, <1>6, <1>7 DEF FInv, Reachable
<1>9. Keeps(folders, folders')
  BY <1>2, <1>3 DEF FInv, Reachable, Keeps
<1> QED BY <1>5, <1>8, <1>9 DEF FInv

LEMMA DeleteAppKeeps ==
    ASSUME DeleteApp
    PROVE  FInv' /\ ~app'
<1>1. folders' = [p \in Paths |-> NoRow] /\ ~app'
  BY DEF DeleteApp
<1>2. Fields(NoRow) /\ NoRow.explicit = FALSE
  BY DEF Fields, NoRow
<1>3. \A p \in Paths : folders'[p] = NoRow
  BY <1>1
<1>4. folders' = [p \in Paths |-> folders'[p]]
  BY <1>1
<1> QED BY <1>1, <1>2, <1>3, <1>4 DEF FInv, Table, Reachable

\* The other steps of a request leave the folders alone.
LEMMA OthersKeep ==
    ASSUME NEW w \in Requests,
           \/ \E k \in Keys, x \in Contents : Put(w, k, x)
           \/ \E k \in Keys : Delete(w, k)
           \/ \E k, to \in Keys : Move(w, k, to)
           \/ Rebuild(w) \/ CheckTaken(w) \/ ReadSource(w) \/ Store(w) \/ Remove(w)
           \/ List(w) \/ Fail(w)
    PROVE  UNCHANGED <<app, folders, kinds, days>>
BY DEF Put, Delete, Move, Rebuild, Arrive, CheckTaken, ReadSource, Store, Remove, List, Fail, Goes

LEMMA NextFInv ==
    ASSUME FInv, [Next]_vars
    PROVE  FInv' /\ (app' => Keeps(folders, folders'))
<1>0. Keeps(folders, folders)
  BY DEF FInv, Reachable, Keeps
<1>1. ASSUME UNCHANGED folders
      PROVE  FInv' /\ (app' => Keeps(folders, folders'))
  BY <1>0, <1>1 DEF FInv
<1>2. CASE UNCHANGED vars
  BY <1>1, <1>2 DEF vars
<1>3. ASSUME NEW w \in Requests, Book(w) \/ Replace(w)
      PROVE  FInv' /\ Keeps(folders, folders')
  BY <1>3, BookKeeps, ReplaceKeeps
<1>4. ASSUME NEW f \in NewFolders, CreateFolder(f)
      PROVE  FInv' /\ Keeps(folders, folders')
  BY <1>4, CreateFolderKeeps
<1>5. CASE DeleteApp
  BY <1>5, DeleteAppKeeps
<1>6. CASE Midnight
  BY <1>1, <1>6 DEF Midnight
<1> QED BY <1>1, <1>2, <1>3, <1>4, <1>5, <1>6, OthersKeep DEF Next

\* Every folder made on purpose hangs on folders made on purpose up to the root, for
\* any paths and any interleaving of writes, deletes, rebuilds, failures and crashes.
THEOREM FoldersHang == Spec => []ExplicitReachable
<1>1. Init => FInv
  BY InitFInv
<1>2. FInv /\ [Next]_vars => FInv'
  BY NextFInv
<1>3. FInv => ExplicitReachable
  BY DEF FInv, Reachable, ExplicitReachable
<1> QED BY <1>1, <1>2, <1>3, PTL DEF Spec

\* No pruning and no rebuild takes such a folder away: only the deletion of the app.
THEOREM FoldersStay == Spec => ExplicitStays
<1> DEFINE Stay == \A p \in Paths : folders[p].explicit /\ app' => folders'[p].explicit
<1>1. Init => FInv
  BY InitFInv
<1>2. FInv /\ [Next]_vars => FInv'
  BY NextFInv
<1>3. FInv /\ [Next]_vars => [Stay]_vars
  BY NextFInv DEF Keeps
<1> QED BY <1>1, <1>2, <1>3, PTL DEF Spec, ExplicitStays

\* A request that was under way when its app was deleted leaves no row behind.
THEOREM NothingLeft == Spec => []NoRowsWithoutApp
<1>1. Init => NoRowsWithoutApp
  BY DEF Init, NoRowsWithoutApp
<1>2. NoRowsWithoutApp /\ [Next]_vars => NoRowsWithoutApp'
  <2> SUFFICES ASSUME NoRowsWithoutApp, [Next]_vars PROVE NoRowsWithoutApp'
    OBVIOUS
  <2>1. ASSUME UNCHANGED <<app, folders, kinds, days>>
        PROVE  NoRowsWithoutApp'
    BY <2>1 DEF NoRowsWithoutApp
  <2>2. ASSUME NEW w \in Requests, Book(w) \/ Replace(w)
        PROVE  app'
    BY <2>2 DEF Book, Replace
  <2>3. ASSUME NEW f \in NewFolders, CreateFolder(f)
        PROVE  app'
    BY <2>3 DEF CreateFolder
  <2>4. CASE DeleteApp
    <3>1. /\ folders' = [p \in Paths |-> NoRow]
          /\ kinds' = [x \in KindRows |-> NoRow]
          /\ days' = [x \in DayRows |-> NoRow]
      BY <2>4 DEF DeleteApp
    <3> QED BY <3>1 DEF NoRowsWithoutApp, NoRow
  <2>5. CASE Midnight \/ UNCHANGED vars
    BY <2>1, <2>5 DEF Midnight, vars
  <2>6. app' => NoRowsWithoutApp'
    BY DEF NoRowsWithoutApp
  <2> QED BY <2>1, <2>2, <2>3, <2>4, <2>5, <2>6, OthersKeep DEF Next
<1> QED BY <1>1, <1>2, PTL DEF Spec

-----------------------------------------------------------------------------
(* The types, with what a request under way holds.                         *)

Sound(r) ==
    /\ r.op = "" => r.pc \in {"new", "over"}
    /\ r.op = "put" => r.pc \in {"store", "book"} /\ r.obj \in Object
    /\ r.op = "delete" => r.pc \in {"remove", "book"} /\ r.prev \in Object
    /\ r.op = "move" => /\ r.pc \in {"taken", "copy", "store", "remove", "book"}
                        /\ r.prev \in Object /\ r.key # r.to
                        /\ r.pc \in {"store", "remove", "book"} => r.obj \in Object
    /\ r.op = "rebuild" => r.pc \in {"list", "replace"}

TInv == TypeOK /\ \A w \in Requests : Sound(work[w])

LEMMA RequestFields ==
    ASSUME NEW r \in Request
    PROVE  /\ r.op \in {"", "put", "move", "delete", "rebuild"} /\ r.key \in Keys /\ r.to \in Keys
           /\ r.prev \in Object \cup {None} /\ r.obj \in Object \cup {None} /\ r.seen \in Buckets
BY Zenon DEF Request, Buckets

LEMMA NewIs ==
    /\ New \in Request /\ New.op = "" /\ New.pc = "new"
    /\ Over \in Request /\ Over.op = "" /\ Over.pc = "over"
<1> DEFINE k == AnyKey
           s == [l \in Keys |-> None]
<1>1. k \in Keys
  BY KeysAssumption DEF AnyKey
<1>2. s \in [Keys -> Object \cup {None}]
  OBVIOUS
<1>3. New = [pc |-> "new", op |-> "", key |-> k, to |-> k, prev |-> None, obj |-> None, seen |-> s]
  BY DEF New
<1> HIDE DEF k, s
<1>4. New \in Request /\ New.op = "" /\ New.pc = "new"
  BY <1>1, <1>2, <1>3 DEF Request
<1>5. Over \in Request /\ Over.op = "" /\ Over.pc = "over"
  BY <1>4, Zenon DEF Over, Request
<1> QED BY <1>4, <1>5

LEMMA IdleSound == Sound(New) /\ Sound(Over)
BY NewIs, Zenon DEF Sound

LEMMA PutIs ==
    ASSUME TInv, NEW w \in Requests, NEW key \in Keys, NEW x \in Contents, Put(w, key, x)
    PROVE  \E r \in Request :
              /\ Arrive(w, r)
              /\ r.op = "put" /\ r.pc = "store" /\ r.key = key /\ r.to = key
              /\ r.prev = bucket[key] /\ r.obj \in Object
<1> DEFINE o == [kind |-> x[1], size |-> x[2], day |-> today]
           p == bucket[key]
           r == [New EXCEPT !.op = "put", !.pc = "store", !.key = key, !.to = key,
                            !.prev = p, !.obj = o]
<1>1. o \in Object
  BY KindsAssumption DEF Object, TInv, TypeOK
<1>2. p \in Object \cup {None}
  BY DEF TInv, TypeOK
<1>3. Arrive(w, r)
  BY DEF Put
<1> HIDE DEF o, p
<1>4. /\ r \in Request
      /\ r.op = "put" /\ r.pc = "store" /\ r.key = key /\ r.to = key
      /\ r.prev = p /\ r.obj = o
  BY <1>1, <1>2, NewIs, Zenon DEF Request
<1> HIDE DEF r
<1> QED BY <1>1, <1>3, <1>4, Zenon DEF p

LEMMA DeleteIs ==
    ASSUME TInv, NEW w \in Requests, NEW key \in Keys, Delete(w, key)
    PROVE  \E r \in Request :
              /\ Arrive(w, r)
              /\ r.op = "delete" /\ r.pc = "remove" /\ r.key = key
              /\ r.prev = bucket[key] /\ r.prev \in Object
<1> DEFINE p == bucket[key]
           r == [New EXCEPT !.op = "delete", !.pc = "remove", !.key = key, !.prev = p]
<1>1. p \in Object
  BY DEF TInv, TypeOK, Delete
<1>2. Arrive(w, r)
  BY DEF Delete
<1> HIDE DEF p
<1>3. /\ r \in Request
      /\ r.op = "delete" /\ r.pc = "remove" /\ r.key = key /\ r.prev = p
  BY <1>1, NewIs, Zenon DEF Request
<1> HIDE DEF r
<1> QED BY <1>1, <1>2, <1>3, Zenon DEF p

LEMMA MoveIs ==
    ASSUME TInv, NEW w \in Requests, NEW key \in Keys, NEW to \in Keys, Move(w, key, to)
    PROVE  \E r \in Request :
              /\ Arrive(w, r)
              /\ r.op = "move" /\ r.pc = "taken" /\ r.key = key /\ r.to = to /\ r.key # r.to
              /\ r.prev = bucket[key] /\ r.prev \in Object
<1> DEFINE p == bucket[key]
           r == [New EXCEPT !.op = "move", !.pc = "taken", !.key = key, !.to = to, !.prev = p]
<1>1. p \in Object
  BY DEF TInv, TypeOK, Move
<1>2. Arrive(w, r) /\ key # to
  BY DEF Move
<1> HIDE DEF p
<1>3. /\ r \in Request
      /\ r.op = "move" /\ r.pc = "taken" /\ r.key = key /\ r.to = to /\ r.prev = p
  BY <1>1, NewIs, Zenon DEF Request
<1> HIDE DEF r
<1> QED BY <1>1, <1>2, <1>3, Zenon DEF p

LEMMA RebuildIs ==
    ASSUME NEW w \in Requests, Rebuild(w)
    PROVE  \E r \in Request : Arrive(w, r) /\ r.op = "rebuild" /\ r.pc = "list"
<1> DEFINE r == [New EXCEPT !.op = "rebuild", !.pc = "list"]
<1>1. Arrive(w, r)
  BY DEF Rebuild
<1>2. r \in Request /\ r.op = "rebuild" /\ r.pc = "list"
  BY NewIs, Zenon DEF Request
<1> HIDE DEF r
<1> QED BY <1>1, <1>2

\* A request that goes on is the one it was.
Goings(q, r) == r.op = q.op /\ r.key = q.key /\ r.to = q.to /\ r.prev = q.prev

LEMMA CheckTakenIs ==
    ASSUME TInv, NEW w \in Requests, CheckTaken(w)
    PROVE  \E r \in Request :
              /\ Goes(w, r) /\ work[w].pc = "taken"
              /\ \/ r = Over
                 \/ Goings(work[w], r) /\ r.pc = "copy" /\ bucket[r.to] = None
<1> DEFINE q == work[w]
           s == [q EXCEPT !.pc = "copy"]
<1>1. q \in Request
  BY DEF TInv, TypeOK
<1>2. q.pc = "taken" /\ Goes(w, IF bucket[q.to] # None THEN Over ELSE s)
  BY DEF CheckTaken
<1>3. s \in Request /\ s.op = q.op /\ s.key = q.key /\ s.to = q.to /\ s.prev = q.prev /\ s.pc = "copy"
  <2> HIDE DEF q
  <2> QED BY <1>1, Zenon DEF Request
<1> HIDE DEF q, s
<1>4. CASE bucket[q.to] # None
  BY <1>2, <1>4, NewIs DEF q
<1>5. CASE bucket[q.to] = None
  BY <1>2, <1>3, <1>5, Zenon DEF q, Goings
<1> QED BY <1>4, <1>5

LEMMA ReadSourceIs ==
    ASSUME TInv, NEW w \in Requests, ReadSource(w)
    PROVE  \E r \in Request :
              /\ Goes(w, r) /\ work[w].pc = "copy"
              /\ \/ r = Over
                 \/ /\ Goings(work[w], r) /\ r.pc = "store"
                    /\ r.obj = bucket[r.key] /\ r.obj \in Object
<1> DEFINE q == work[w]
           o == bucket[q.key]
           s == [q EXCEPT !.obj = o, !.pc = "store"]
<1>1. q \in Request
  BY DEF TInv, TypeOK
<1>2. q.pc = "copy" /\ Goes(w, IF o = None THEN Over ELSE s)
  BY DEF ReadSource
<1>3. o \in Object \cup {None}
  BY <1>1, RequestFields DEF TInv, TypeOK
<1>4. o = bucket[q.key]
  OBVIOUS
<1> HIDE DEF o
<1>5. /\ s \in Request /\ s.op = q.op /\ s.key = q.key /\ s.to = q.to /\ s.prev = q.prev
      /\ s.pc = "store" /\ s.obj = o
  <2> HIDE DEF q
  <2> QED BY <1>1, <1>3, Zenon DEF Request
<1> HIDE DEF q, s
<1>6. CASE o = None
  BY <1>2, <1>6, NewIs DEF q
<1>7. CASE o # None
  <2>1. s.obj = bucket[s.key] /\ s.obj \in Object
    BY <1>3, <1>4, <1>5, <1>7
  <2> QED BY <1>2, <1>5, <1>7, <2>1, Zenon DEF q, Goings
<1> QED BY <1>6, <1>7

\* What is at the step that it is at.
LEMMA AtStep ==
    ASSUME TInv, NEW w \in Requests
    PROVE  /\ work[w] \in Request /\ Sound(work[w])
           /\ work[w].pc = "taken" => work[w].op = "move"
           /\ work[w].pc = "copy" => work[w].op = "move"
           /\ work[w].pc = "store" => work[w].op \in {"put", "move"} /\ work[w].obj \in Object
           /\ work[w].pc = "remove" => work[w].op \in {"delete", "move"}
           /\ work[w].pc = "book" => work[w].op \in {"put", "delete", "move"}
           /\ work[w].pc \in {"list", "replace"} => work[w].op = "rebuild"
<1>1. work[w] \in Request /\ Sound(work[w])
  BY DEF TInv, TypeOK
<1>2. work[w].op \in {"", "put", "move", "delete", "rebuild"}
  BY <1>1, RequestFields
<1> QED BY <1>1, <1>2 DEF Sound

LEMMA StoreIs ==
    ASSUME TInv, NEW w \in Requests, Store(w)
    PROVE  \E r \in Request :
              /\ work[w].pc = "store" /\ Goings(work[w], r)
              /\ r.obj \in Object /\ r.obj.kind = work[w].obj.kind /\ r.obj.size = work[w].obj.size
              /\ r.pc = (IF r.op = "move" THEN "remove" ELSE "book")
              /\ bucket' = [bucket EXCEPT ![r.to] = r.obj]
              /\ work' = [work EXCEPT ![w] = r]
              /\ UNCHANGED <<app, folders, kinds, days, cut, today, drift>>
<1> DEFINE q == work[w]
           o == [q.obj EXCEPT !.day = today]
           p == IF q.op = "move" THEN "remove" ELSE "book"
           s == [q EXCEPT !.obj = o, !.pc = p]
<1>1. q \in Request /\ (q.pc = "store" => q.obj \in Object)
  BY AtStep
<1>2. /\ q.pc = "store" /\ bucket' = [bucket EXCEPT ![q.to] = o] /\ work' = [work EXCEPT ![w] = s]
      /\ UNCHANGED <<app, folders, kinds, days, cut, today, drift>>
  BY DEF Store
<1>3. today \in Days
  BY DEF TInv, TypeOK
<1>4. o \in Object /\ o.kind = q.obj.kind /\ o.size = q.obj.size
  <2> DEFINE u == q.obj
  <2>1. u \in Object
    BY <1>1, <1>2
  <2> HIDE DEF u
  <2>2. [u EXCEPT !.day = today] \in Object /\ [u EXCEPT !.day = today].kind = u.kind
        /\ [u EXCEPT !.day = today].size = u.size
    BY <1>3, <2>1 DEF Object
  <2> QED BY <2>2 DEF u
<1>5. p \in {"remove", "book"}
  OBVIOUS
<1>6. p = (IF q.op = "move" THEN "remove" ELSE "book")
  OBVIOUS
<1> HIDE DEF o, p
<1>7. /\ s \in Request /\ s.op = q.op /\ s.key = q.key /\ s.to = q.to /\ s.prev = q.prev
      /\ s.pc = p /\ s.obj = o
  <2> HIDE DEF q
  <2> QED BY <1>1, <1>4, <1>5, Zenon DEF Request
<1> HIDE DEF q, s
<1>8. /\ Goings(q, s) /\ s.obj \in Object /\ s.obj.kind = q.obj.kind /\ s.obj.size = q.obj.size
      /\ s.pc = (IF s.op = "move" THEN "remove" ELSE "book")
      /\ bucket' = [bucket EXCEPT ![s.to] = s.obj]
  BY <1>2, <1>4, <1>6, <1>7 DEF Goings
<1> QED BY <1>2, <1>7, <1>8, Zenon DEF q

LEMMA RemoveIs ==
    ASSUME TInv, NEW w \in Requests, Remove(w)
    PROVE  \E r \in Request :
              /\ work[w].pc = "remove"
              /\ \/ Goings(work[w], r) /\ r.obj = work[w].obj /\ r.pc = "book"
                 \/ r = Over /\ work[w].op = "delete" /\ bucket[work[w].key] = None
              /\ bucket' = [bucket EXCEPT ![work[w].key] = None]
              /\ work' = [work EXCEPT ![w] = r]
              /\ UNCHANGED <<app, folders, kinds, days, cut, today, drift>>
<1> DEFINE q == work[w]
           s == [q EXCEPT !.pc = "book"]
<1>1. q \in Request
  BY AtStep
<1>2. /\ q.pc = "remove" /\ bucket' = [bucket EXCEPT ![q.key] = None]
      /\ UNCHANGED <<app, folders, kinds, days, cut, today, drift>>
      /\ \/ work' = [work EXCEPT ![w] = s]
         \/ q.op = "delete" /\ bucket[q.key] = None /\ work' = [work EXCEPT ![w] = Over]
  BY DEF Remove
<1>3. /\ s \in Request /\ s.op = q.op /\ s.key = q.key /\ s.to = q.to /\ s.prev = q.prev
      /\ s.pc = "book" /\ s.obj = q.obj
  <2> HIDE DEF q
  <2> QED BY <1>1, Zenon DEF Request
<1> HIDE DEF q, s
<1>4. CASE work' = [work EXCEPT ![w] = s]
  BY <1>2, <1>3, <1>4, Zenon DEF q, Goings
<1>5. CASE q.op = "delete" /\ bucket[q.key] = None /\ work' = [work EXCEPT ![w] = Over]
  BY <1>2, <1>5, NewIs, Zenon DEF q
<1> QED BY <1>2, <1>4, <1>5

LEMMA ListIs ==
    ASSUME TInv, NEW w \in Requests, List(w)
    PROVE  \E r \in Request :
              /\ Goes(w, r) /\ work[w].pc = "list" /\ work[w].op = "rebuild"
              /\ Goings(work[w], r) /\ r.pc = "replace" /\ r.seen = bucket
<1> DEFINE q == work[w]
           s == [q EXCEPT !.seen = bucket, !.pc = "replace"]
<1>1. q \in Request /\ (q.pc = "list" => q.op = "rebuild")
  BY AtStep
<1>2. q.pc = "list" /\ Goes(w, s)
  BY DEF List
<1>3. bucket \in [Keys -> Object \cup {None}]
  BY DEF TInv, TypeOK
<1> HIDE DEF q
<1>4. /\ s \in Request /\ s.op = q.op /\ s.key = q.key /\ s.to = q.to /\ s.prev = q.prev
      /\ s.pc = "replace" /\ s.seen = bucket
  BY <1>1, <1>3, Zenon DEF Request
<1> HIDE DEF s
<1> QED BY <1>1, <1>2, <1>4, Zenon DEF q, Goings

\* Every step of a request puts one request in its place.
LEMMA WorkTyped ==
    ASSUME TInv, NEW w \in Requests, NEW r \in Request, Sound(r), work' = [work EXCEPT ![w] = r]
    PROVE  work' \in [Requests -> Request] /\ \A v \in Requests : Sound(work'[v])
BY DEF TInv, TypeOK

\* Steps that change neither tables nor bucket.
LEMMA QuietTyped ==
    ASSUME TInv, NEW w \in Requests, NEW r \in Request, Sound(r), Arrive(w, r) \/ Goes(w, r)
    PROVE  TInv'
<1>1. work' = [work EXCEPT ![w] = r]
  BY DEF Arrive, Goes
<1>2. work' \in [Requests -> Request] /\ \A v \in Requests : Sound(work'[v])
  BY <1>1, WorkTyped
<1>3. UNCHANGED <<app, bucket, folders, kinds, days, cut, today>> /\ drift' \subseteq Drifts
  BY DEF Arrive, Goes, TInv, TypeOK, Drifts
<1> QED BY <1>2, <1>3 DEF TInv, TypeOK

LEMMA WriteChangeTyped ==
    ASSUME NEW key, NEW obj \in Object, NEW prev \in Object \cup {None}
    PROVE  Change(WriteChange(key, obj, prev))
<1> DEFINE c == WriteChange(key, obj, prev)
           n == IF prev = None THEN 1 ELSE 0
           m == IF prev = None THEN obj.size ELSE obj.size - prev.size
           l == obj.size
<1>1. l \in Int /\ m \in Int /\ n \in Int
  BY DEF Object
<1>2. c = [key |-> key, kind |-> obj.kind, written |-> TRUE, size |-> l, prev |-> prev,
           count |-> n, bytes |-> m]
  BY DEF WriteChange
<1> HIDE DEF c, n, m, l
<1>3. c.count = n /\ c.bytes = m /\ c.size = l /\ c.prev = prev /\ c.written = TRUE
  BY <1>2
<1> QED BY <1>1, <1>3, Zenon DEF Change, c

LEMMA DeleteChangeTyped ==
    ASSUME NEW key, NEW kind, NEW prev \in Object
    PROVE  Change(DeleteChange(key, kind, prev))
<1> DEFINE c == DeleteChange(key, kind, prev)
           n == -1
           m == -prev.size
           z == 0
<1>1. m \in Int /\ n \in Int /\ z \in Int
  <2>1. prev.size \in Nat
    BY DEF Object
  <2> QED BY <2>1
<1>2. c = [key |-> key, kind |-> kind, written |-> FALSE, size |-> z, prev |-> prev,
           count |-> n, bytes |-> m]
  BY DEF DeleteChange
<1> HIDE DEF c, n, m, z
<1>3. c.count = n /\ c.bytes = m /\ c.size = z /\ c.prev = prev /\ c.written = FALSE
  BY <1>2
<1> QED BY <1>1, <1>3, Zenon DEF Change, c

LEMMA BookOne ==
    ASSUME TInv, NEW w \in Requests, Book(w), work[w].op # "move"
    PROVE  \E c :
              /\ Change(c)
              /\ work[w].op = "put" => c = WriteChange(work[w].key, work[w].obj, work[w].prev)
              /\ work[w].op = "delete" => c = DeleteChange(work[w].key, work[w].prev.kind, work[w].prev)
              /\ folders' = ApplyFolders(folders, c)
              /\ kinds' = ApplyKinds(kinds, c)
              /\ days' = ApplyDays(days, c, today)
<1> DEFINE q == work[w]
           s == Changes(q)
           a == WriteChange(q.key, q.obj, q.prev)
           b == DeleteChange(q.key, q.prev.kind, q.prev)
           c == IF q.op = "put" THEN a ELSE b
<1>1. q \in Request /\ Sound(q) /\ q.op \in {"put", "delete"}
  BY AtStep DEF Book
<1>2. q.prev \in Object \cup {None}
  BY <1>1, RequestFields
<1>3. Change(c)
  <2>1. CASE q.op = "put"
    BY <1>1, <1>2, <2>1, WriteChangeTyped DEF Sound
  <2>2. CASE q.op = "delete"
    BY <1>1, <2>2, DeleteChangeTyped DEF Sound
  <2> QED BY <1>1, <2>1, <2>2
<1>4. s = <<c>>
  BY <1>1 DEF Changes
<1> HIDE DEF c
<1>5. Len(s) = 1 /\ s[1] = c
  BY <1>4
<1>6. /\ folders' = IF Len(s) = 1 THEN ApplyFolders(folders, s[1])
                    ELSE ApplyFolders(ApplyFolders(folders, s[1]), s[2])
      /\ kinds' = IF Len(s) = 1 THEN ApplyKinds(kinds, s[1])
                  ELSE ApplyKinds(ApplyKinds(kinds, s[1]), s[2])
      /\ days' = IF Len(s) = 1 THEN ApplyDays(days, s[1], today)
                 ELSE ApplyDays(ApplyDays(days, s[1], today), s[2], today)
  BY DEF Book
<1>7. (q.op = "put" => c = a) /\ (q.op = "delete" => c = b)
  BY DEF c
<1> HIDE DEF s, q
<1> QED BY <1>3, <1>5, <1>6, <1>7 DEF q

LEMMA BookTwo ==
    ASSUME TInv, NEW w \in Requests, Book(w), work[w].op = "move"
    PROVE  \E c, e :
              /\ Change(c) /\ Change(e)
              /\ c = DeleteChange(work[w].key, work[w].obj.kind, work[w].prev)
              /\ e = WriteChange(work[w].to, [work[w].obj EXCEPT !.size = work[w].prev.size], None)
              /\ folders' = ApplyFolders(ApplyFolders(folders, c), e)
              /\ kinds' = ApplyKinds(ApplyKinds(kinds, c), e)
              /\ days' = ApplyDays(ApplyDays(days, c, today), e, today)
<1> DEFINE q == work[w]
           s == Changes(q)
           o == [q.obj EXCEPT !.size = q.prev.size]
           c == DeleteChange(q.key, q.obj.kind, q.prev)
           e == WriteChange(q.to, o, None)
<1>1. q \in Request /\ Sound(q) /\ q.op = "move" /\ q.pc = "book"
  BY AtStep DEF Book
<1>2. q.prev \in Object /\ q.obj \in Object
  BY <1>1 DEF Sound
<1>3. o \in Object
  <2> DEFINE u == q.obj
             n == q.prev.size
  <2>1. u \in Object /\ n \in Nat
    BY <1>2 DEF Object
  <2> HIDE DEF u, n
  <2>2. [u EXCEPT !.size = n] \in Object
    BY <2>1 DEF Object
  <2> QED BY <2>2 DEF u, n
<1>4. s = <<c, e>>
  BY <1>1 DEF Changes
<1> HIDE DEF o
<1>5. Change(c) /\ Change(e)
  BY <1>2, <1>3, WriteChangeTyped, DeleteChangeTyped
<1> HIDE DEF c, e
<1>6. Len(s) = 2 /\ s[1] = c /\ s[2] = e
  BY <1>4
<1>7. /\ folders' = IF Len(s) = 1 THEN ApplyFolders(folders, s[1])
                    ELSE ApplyFolders(ApplyFolders(folders, s[1]), s[2])
      /\ kinds' = IF Len(s) = 1 THEN ApplyKinds(kinds, s[1])
                  ELSE ApplyKinds(ApplyKinds(kinds, s[1]), s[2])
      /\ days' = IF Len(s) = 1 THEN ApplyDays(days, s[1], today)
                 ELSE ApplyDays(ApplyDays(days, s[1], today), s[2], today)
  BY DEF Book
<1> HIDE DEF s
<1>8. /\ folders' = ApplyFolders(ApplyFolders(folders, c), e)
      /\ kinds' = ApplyKinds(ApplyKinds(kinds, c), e)
      /\ days' = ApplyDays(ApplyDays(days, c, today), e, today)
  BY <1>6, <1>7
<1>9. c = DeleteChange(q.key, q.obj.kind, q.prev) /\ e = WriteChange(q.to, o, None)
  BY DEF c, e
<1> QED BY <1>5, <1>8, <1>9, Zenon DEF q, o

\* Folds are tables.
LEMMA FoldsTyped ==
    ASSUME NEW b \in Buckets, NEW from
    PROVE  /\ FoldFolders(b) \in [Paths -> Row] /\ FoldKinds(b) \in [KindRows -> Row]
           /\ FoldDays(b, from) \in [DayRows -> Row] /\ Plain(FoldDays(b, from))
<1>1. FoldFolders(b) \in [Paths -> Row]
  <2> DEFINE t == FoldFolders(b)
  <2>1. t = [p \in Paths |-> t[p]]
    BY DEF FoldFolders
  <2>2. \A p \in Paths : t[p] \in Row
    BY FolderRow
  <2> HIDE DEF t
  <2>3. t \in [Paths -> Row]
    BY <2>1, <2>2
  <2> QED BY <2>3 DEF t
<1>2. FoldKinds(b) \in [KindRows -> Row]
  <2> DEFINE t == FoldKinds(b)
  <2>1. t = [x \in KindRows |-> t[x]]
    BY DEF FoldKinds
  <2>2. \A x \in KindRows : t[x] \in Row
    BY KindRow
  <2> HIDE DEF t
  <2>3. t \in [KindRows -> Row]
    BY <2>1, <2>2
  <2> QED BY <2>3 DEF t
<1>3. FoldDays(b, from) \in [DayRows -> Row] /\ Plain(FoldDays(b, from))
  <2> DEFINE t == FoldDays(b, from)
  <2>1. t = [x \in DayRows |-> t[x]]
    BY DEF FoldDays
  <2>2. \A x \in DayRows : t[x] \in Row /\ t[x].explicit = FALSE
    BY DayRow
  <2> HIDE DEF t
  <2>3. t \in [DayRows -> Row] /\ Plain(t)
    BY <2>1, <2>2 DEF Plain
  <2> QED BY <2>3 DEF t
<1> QED BY <1>1, <1>2, <1>3

LEMMA RowExplicit ==
    ASSUME NEW r \in Row, NEW x \in BOOLEAN
    PROVE  LET u == [r EXCEPT !.explicit = x, !.there = @ \/ x]
           IN  /\ u \in Row /\ u.there = (r.there \/ x)
               /\ u.explicit = x /\ u.count = r.count /\ u.bytes = r.bytes
BY Zenon DEF Row

LEMMA ReplacedRows ==
    ASSUME TInv, NEW fold \in [Paths -> Row]
    PROVE  /\ ReplaceFolders(fold) \in [Paths -> Row]
           /\ \A p \in Paths :
                 /\ ReplaceFolders(fold)[p].count = fold[p].count
                 /\ ReplaceFolders(fold)[p].bytes = fold[p].bytes
                 /\ ReplaceFolders(fold)[p].explicit = folders[p].explicit
                 /\ ReplaceFolders(fold)[p].there = (fold[p].there \/ folders[p].explicit)
<1> DEFINE e(p) == folders[p].explicit
           row(p) == [fold[p] EXCEPT !.explicit = e(p), !.there = @ \/ e(p)]
           t == ReplaceFolders(fold)
<1>1. t = [p \in Paths |-> row(p)]
  BY DEF ReplaceFolders
<1>2. ASSUME NEW p \in Paths
      PROVE  e(p) \in BOOLEAN
  BY RowFields DEF TInv, TypeOK
<1>3. \A p \in Paths : e(p) = folders[p].explicit
  OBVIOUS
<1> HIDE DEF e
<1>4. ASSUME NEW p \in Paths
      PROVE  /\ row(p) \in Row /\ row(p).there = (fold[p].there \/ e(p))
             /\ row(p).explicit = e(p) /\ row(p).count = fold[p].count /\ row(p).bytes = fold[p].bytes
  <2>1. fold[p] \in Row /\ e(p) \in BOOLEAN
    BY <1>2
  <2> QED BY <2>1, RowExplicit, Zenon
<1> HIDE DEF row, t
<1>5. \A p \in Paths : t[p] = row(p)
  BY <1>1
<1>6. t \in [Paths -> Row]
  BY <1>1, <1>4
<1>7. ASSUME NEW p \in Paths
      PROVE  /\ t[p].count = fold[p].count
             /\ t[p].bytes = fold[p].bytes
             /\ t[p].explicit = folders[p].explicit
             /\ t[p].there = (fold[p].there \/ folders[p].explicit)
  BY <1>3, <1>4, <1>5, Zenon
<1> QED BY <1>6, <1>7 DEF t

LEMMA CreatedRows ==
    ASSUME TInv, NEW f \in NewFolders, CreateFolder(f)
    PROVE  /\ folders' \in [Paths -> Row]
           /\ \A p \in Paths :
                 /\ folders'[p].count = folders[p].count /\ folders'[p].bytes = folders[p].bytes
                 /\ \/ folders'[p] = folders[p]
                    \/ folders'[p].there /\ folders'[p].explicit
<1> DEFINE row(p) == [folders[p] EXCEPT !.there = TRUE, !.explicit = TRUE]
<1>1. folders' = [p \in Paths |-> IF p \in MadeWith(f) THEN row(p) ELSE folders[p]]
  BY DEF CreateFolder
<1>2. folders \in [Paths -> Row]
  BY DEF TInv, TypeOK
<1>3. ASSUME NEW p \in Paths
      PROVE  /\ row(p) \in Row /\ row(p).there /\ row(p).explicit
             /\ row(p).count = folders[p].count /\ row(p).bytes = folders[p].bytes
  <2> DEFINE r == folders[p]
  <2>1. r \in Row
    BY <1>2
  <2> HIDE DEF r
  <2>2. /\ [r EXCEPT !.there = TRUE, !.explicit = TRUE] \in Row
        /\ [r EXCEPT !.there = TRUE, !.explicit = TRUE].there
        /\ [r EXCEPT !.there = TRUE, !.explicit = TRUE].explicit
        /\ [r EXCEPT !.there = TRUE, !.explicit = TRUE].count = r.count
        /\ [r EXCEPT !.there = TRUE, !.explicit = TRUE].bytes = r.bytes
    BY <2>1 DEF Row
  <2> QED BY <2>2 DEF r
<1> HIDE DEF row
<1>4. \A p \in Paths : folders'[p] = IF p \in MadeWith(f) THEN row(p) ELSE folders[p]
  BY <1>1
<1>5. folders' \in [Paths -> Row]
  BY <1>1, <1>2, <1>3
<1>6. ASSUME NEW p \in Paths
      PROVE  /\ folders'[p].count = folders[p].count /\ folders'[p].bytes = folders[p].bytes
             /\ \/ folders'[p] = folders[p]
                \/ folders'[p].there /\ folders'[p].explicit
  BY <1>3, <1>4
<1> QED BY <1>5, <1>6

LEMMA InitTyped == Init => TInv
<1> SUFFICES ASSUME Init PROVE TInv
  OBVIOUS
<1>0. 0 \in Days
  BY DaysAssumption DEF Days
<1>1. bucket \in Buckets
  <2> SUFFICES ASSUME NEW x \in Contents
               PROVE  [kind |-> x[1], size |-> x[2], day |-> 0] \in Object
    BY DEF Init, Buckets
  <2> QED BY <1>0, KindsAssumption DEF Object
<1>2. work \in [Requests -> Request] /\ \A w \in Requests : Sound(work[w])
  BY NewIs, IdleSound DEF Init
<1>3. /\ folders \in [Paths -> Row] /\ kinds \in [KindRows -> Row] /\ days \in [DayRows -> Row]
  BY <1>1, FoldsTyped DEF Init
<1>4. app \in BOOLEAN /\ cut \in Int /\ today \in Days /\ drift \subseteq Drifts
  BY <1>0 DEF Init
<1> QED BY <1>1, <1>2, <1>3, <1>4 DEF TInv, TypeOK, Buckets

LEMMA ArriveTyped ==
    ASSUME TInv, NEW w \in Requests,
           \/ \E k \in Keys, x \in Contents : Put(w, k, x)
           \/ \E k \in Keys : Delete(w, k)
           \/ \E k, to \in Keys : Move(w, k, to)
           \/ Rebuild(w)
    PROVE  TInv'
<1>1. ASSUME NEW k \in Keys, NEW x \in Contents, Put(w, k, x)
      PROVE  TInv'
  <2>1. PICK r \in Request : Arrive(w, r) /\ r.op = "put" /\ r.pc = "store" /\ r.obj \in Object
    BY <1>1, PutIs
  <2>2. Sound(r)
    BY <2>1 DEF Sound
  <2> QED BY <2>1, <2>2, QuietTyped
<1>2. ASSUME NEW k \in Keys, Delete(w, k)
      PROVE  TInv'
  <2>1. PICK r \in Request : Arrive(w, r) /\ r.op = "delete" /\ r.pc = "remove" /\ r.prev \in Object
    BY <1>2, DeleteIs
  <2>2. Sound(r)
    BY <2>1 DEF Sound
  <2> QED BY <2>1, <2>2, QuietTyped
<1>3. ASSUME NEW k \in Keys, NEW to \in Keys, Move(w, k, to)
      PROVE  TInv'
  <2>1. PICK r \in Request : /\ Arrive(w, r) /\ r.op = "move" /\ r.pc = "taken"
                             /\ r.prev \in Object /\ r.key # r.to
    BY <1>3, MoveIs
  <2>2. Sound(r)
    BY <2>1 DEF Sound
  <2> QED BY <2>1, <2>2, QuietTyped
<1>4. CASE Rebuild(w)
  <2>1. PICK r \in Request : Arrive(w, r) /\ r.op = "rebuild" /\ r.pc = "list"
    BY <1>4, RebuildIs
  <2>2. Sound(r)
    BY <2>1 DEF Sound
  <2> QED BY <2>1, <2>2, QuietTyped
<1> QED BY <1>1, <1>2, <1>3, <1>4

LEMMA GoTyped ==
    ASSUME TInv, NEW w \in Requests, CheckTaken(w) \/ ReadSource(w) \/ List(w)
    PROVE  TInv'
<1>1. Sound(work[w])
  BY AtStep
<1>2. CASE CheckTaken(w)
  <2>1. PICK r \in Request : /\ Goes(w, r) /\ work[w].pc = "taken"
                             /\ r = Over \/ (Goings(work[w], r) /\ r.pc = "copy")
    BY <1>2, CheckTakenIs
  <2>2. work[w].op = "move"
    BY <2>1, AtStep
  <2>3. Sound(r)
    BY <1>1, <2>1, <2>2, IdleSound DEF Sound, Goings
  <2> QED BY <2>1, <2>3, QuietTyped
<1>3. CASE ReadSource(w)
  <2>1. PICK r \in Request : /\ Goes(w, r) /\ work[w].pc = "copy"
                             /\ r = Over \/ (Goings(work[w], r) /\ r.pc = "store" /\ r.obj \in Object)
    BY <1>3, ReadSourceIs
  <2>2. work[w].op = "move"
    BY <2>1, AtStep
  <2>3. Sound(r)
    BY <1>1, <2>1, <2>2, IdleSound DEF Sound, Goings
  <2> QED BY <2>1, <2>3, QuietTyped
<1>4. CASE List(w)
  <2>1. PICK r \in Request : Goes(w, r) /\ r.op = "rebuild" /\ r.pc = "replace"
    BY <1>4, ListIs DEF Goings
  <2>2. Sound(r)
    BY <2>1 DEF Sound
  <2> QED BY <2>1, <2>2, QuietTyped
<1> QED BY <1>2, <1>3, <1>4

LEMMA BucketTyped ==
    ASSUME TInv, NEW w \in Requests, Store(w) \/ Remove(w)
    PROVE  TInv'
<1>1. Sound(work[w]) /\ work[w] \in Request
  BY AtStep
<1>2. CASE Store(w)
  <2>1. PICK r \in Request :
           /\ work[w].pc = "store" /\ Goings(work[w], r) /\ r.obj \in Object
           /\ r.pc = (IF r.op = "move" THEN "remove" ELSE "book")
           /\ bucket' = [bucket EXCEPT ![r.to] = r.obj]
           /\ work' = [work EXCEPT ![w] = r]
           /\ UNCHANGED <<app, folders, kinds, days, cut, today, drift>>
    BY <1>2, StoreIs
  <2>2. work[w].op \in {"put", "move"}
    BY <2>1, AtStep
  <2>3. Sound(r)
    BY <1>1, <2>1, <2>2 DEF Sound, Goings
  <2>4. work' \in [Requests -> Request] /\ \A v \in Requests : Sound(work'[v])
    BY <2>1, <2>3, WorkTyped
  <2>5. bucket' \in [Keys -> Object \cup {None}]
    BY <2>1 DEF TInv, TypeOK
  <2> QED BY <2>1, <2>4, <2>5 DEF TInv, TypeOK
<1>3. CASE Remove(w)
  <2>1. PICK r \in Request :
           /\ work[w].pc = "remove"
           /\ \/ Goings(work[w], r) /\ r.obj = work[w].obj /\ r.pc = "book"
              \/ r = Over
           /\ bucket' = [bucket EXCEPT ![work[w].key] = None]
           /\ work' = [work EXCEPT ![w] = r]
           /\ UNCHANGED <<app, folders, kinds, days, cut, today, drift>>
    BY <1>3, RemoveIs
  <2>2. work[w].op \in {"delete", "move"}
    BY <2>1, AtStep
  <2>3. Sound(r)
    BY <1>1, <2>1, <2>2, IdleSound DEF Sound, Goings
  <2>4. work' \in [Requests -> Request] /\ \A v \in Requests : Sound(work'[v])
    BY <2>1, <2>3, WorkTyped
  <2>5. bucket' \in [Keys -> Object \cup {None}]
    BY <2>1 DEF TInv, TypeOK
  <2> QED BY <2>1, <2>4, <2>5 DEF TInv, TypeOK
<1> QED BY <1>2, <1>3

LEMMA BookTyped ==
    ASSUME TInv, NEW w \in Requests, Book(w)
    PROVE  TInv'
<1>1. folders \in [Paths -> Row] /\ kinds \in [KindRows -> Row] /\ days \in [DayRows -> Row]
  BY DEF TInv, TypeOK
<1>2. folders' \in [Paths -> Row] /\ kinds' \in [KindRows -> Row] /\ days' \in [DayRows -> Row]
  <2>1. CASE work[w].op # "move"
    <3>1. PICK c : /\ Change(c) /\ folders' = ApplyFolders(folders, c)
                   /\ kinds' = ApplyKinds(kinds, c) /\ days' = ApplyDays(days, c, today)
      BY <2>1, BookOne
    <3> QED BY <1>1, <3>1, ChangeTypes
  <2>2. CASE work[w].op = "move"
    <3>1. PICK c, e : /\ Change(c) /\ Change(e)
                      /\ folders' = ApplyFolders(ApplyFolders(folders, c), e)
                      /\ kinds' = ApplyKinds(ApplyKinds(kinds, c), e)
                      /\ days' = ApplyDays(ApplyDays(days, c, today), e, today)
      BY <2>2, BookTwo
    <3>2. /\ ApplyFolders(folders, c) \in [Paths -> Row] /\ ApplyKinds(kinds, c) \in [KindRows -> Row]
          /\ ApplyDays(days, c, today) \in [DayRows -> Row]
      BY <1>1, <3>1, ChangeTypes
    <3> QED BY <3>1, <3>2, ChangeTypes
  <2> QED BY <2>1, <2>2
<1>3. work' = [work EXCEPT ![w] = Over] /\ UNCHANGED <<app, bucket, cut, today>> /\ drift' \subseteq Drifts
  BY DEF Book, TInv, TypeOK, Drifts
<1>4. work' \in [Requests -> Request] /\ \A v \in Requests : Sound(work'[v])
  BY <1>3, NewIs, IdleSound, WorkTyped
<1> QED BY <1>2, <1>3, <1>4 DEF TInv, TypeOK

LEMMA ReplaceTyped ==
    ASSUME TInv, NEW w \in Requests, Replace(w)
    PROVE  TInv'
<1>1. work[w].seen \in Buckets
  BY AtStep, RequestFields
<1>2. folders' \in [Paths -> Row] /\ kinds' \in [KindRows -> Row] /\ days' \in [DayRows -> Row]
  <2>1. /\ folders' = ReplaceFolders(FoldFolders(work[w].seen)) /\ kinds' = FoldKinds(work[w].seen)
        /\ days' = FoldDays(work[w].seen, today - Window)
    BY DEF Replace
  <2> QED BY <1>1, <2>1, FoldsTyped, ReplacedRows
<1>3. cut' \in Int
  BY DaysAssumption DEF Replace, TInv, TypeOK, Days
<1>4. work' = [work EXCEPT ![w] = Over] /\ UNCHANGED <<app, bucket, today>> /\ drift' \subseteq Drifts
  BY DEF Replace, TInv, TypeOK, Drifts
<1>5. work' \in [Requests -> Request] /\ \A v \in Requests : Sound(work'[v])
  BY <1>4, NewIs, IdleSound, WorkTyped
<1> QED BY <1>2, <1>3, <1>4, <1>5 DEF TInv, TypeOK

LEMMA FailTyped ==
    ASSUME TInv, NEW w \in Requests, Fail(w)
    PROVE  TInv'
<1>1. /\ work' = [work EXCEPT ![w] = Over] /\ drift' \subseteq Drifts
      /\ UNCHANGED <<app, bucket, folders, kinds, days, cut, today>>
  BY DEF Fail, TInv, TypeOK, Drifts
<1>2. work' \in [Requests -> Request] /\ \A v \in Requests : Sound(work'[v])
  BY <1>1, NewIs, IdleSound, WorkTyped
<1> QED BY <1>1, <1>2 DEF TInv, TypeOK

LEMMA NextTyped ==
    ASSUME TInv, [Next]_vars
    PROVE  TInv'
<1>1. ASSUME NEW f \in NewFolders, CreateFolder(f)
      PROVE  TInv'
  <2>1. folders' \in [Paths -> Row]
    BY <1>1, CreatedRows
  <2>2. UNCHANGED <<app, bucket, kinds, days, cut, today, work, drift>>
    BY <1>1 DEF CreateFolder
  <2> QED BY <2>1, <2>2 DEF TInv, TypeOK
<1>2. CASE DeleteApp
  <2>1. folders' \in [Paths -> Row] /\ kinds' \in [KindRows -> Row] /\ days' \in [DayRows -> Row]
    BY <1>2, NoRowIs DEF DeleteApp
  <2>2. UNCHANGED <<bucket, cut, today, work, drift>> /\ app' = FALSE
    BY <1>2 DEF DeleteApp
  <2> QED BY <2>1, <2>2 DEF TInv, TypeOK
<1>3. CASE Midnight
  <2>1. today' \in Days
    BY <1>3, DaysAssumption DEF Midnight, TInv, TypeOK, Days
  <2>2. UNCHANGED <<app, bucket, folders, kinds, days, cut, work, drift>>
    BY <1>3 DEF Midnight
  <2> QED BY <2>1, <2>2 DEF TInv, TypeOK
<1>4. CASE UNCHANGED vars
  BY <1>4 DEF vars, TInv, TypeOK
<1> QED BY <1>1, <1>2, <1>3, <1>4, ArriveTyped, GoTyped, BucketTyped, BookTyped, ReplaceTyped,
           FailTyped DEF Next

\* The numbers of every row are integers and every request holds what its step needs, for
\* any keys, contents, requests and days; with the folders made on purpose and the rows
\* of a deleted app this is the invariant the run checks.
THEOREM AssetsInvariance == Spec => []IInv
<1>1. Init => TInv
  BY InitTyped
<1>2. TInv /\ [Next]_vars => TInv'
  BY NextTyped
<1>3. TInv => TypeOK
  BY DEF TInv
<1>4. Spec => []TypeOK
  BY <1>1, <1>2, <1>3, PTL DEF Spec
<1>5. TypeOK /\ ExplicitReachable /\ NoRowsWithoutApp => IInv
  BY DEF IInv
<1> QED BY <1>4, <1>5, FoldersHang, NothingLeft, PTL

-----------------------------------------------------------------------------
(* While no two requests touched the same key at once: what each of them   *)
(* read of the bucket, and did to it, is still so.                         *)

Disjoint(wk) == \A v, w \in Requests : v # w => Touched(wk[v]) \cap Touched(wk[w]) = {}

Reads(r, b) ==
    /\ r.op = "put" => r.to = r.key /\ b[r.key] = IF r.pc = "book" THEN r.obj ELSE r.prev
    /\ r.op = "delete" => b[r.key] = IF r.pc = "book" THEN None ELSE r.prev
    /\ r.op = "move" =>
          /\ b[r.key] = IF r.pc = "book" THEN None ELSE r.prev
          /\ r.pc # "taken" => b[r.to] = IF r.pc \in {"remove", "book"} THEN r.obj ELSE None
          /\ r.pc \in {"store", "remove", "book"} =>
                r.obj.kind = r.prev.kind /\ r.obj.size = r.prev.size

Undrifted(wk, b) == Disjoint(wk) /\ \A w \in Requests : Reads(wk[w], b)

RInv == "raced" \notin drift => Undrifted(work, bucket)

LEMMA TouchedIs ==
    ASSUME NEW r \in Request
    PROVE  /\ r.op = "" => Touched(r) = {}
           /\ r.op = "put" => Touched(r) = {r.key}
           /\ r.op = "delete" => Touched(r) = {r.key}
           /\ r.op = "move" => Touched(r) = {r.key, r.to}
           /\ r.op = "rebuild" => Touched(r) = Keys
           /\ Touched(r) \subseteq Keys
           /\ Touched(r) = {} => r.op = ""
<1>1. r.op \in {"", "put", "move", "delete", "rebuild"} /\ r.key \in Keys /\ r.to \in Keys
  BY RequestFields
<1>2. r.op = "" => Touched(r) = {}
  BY DEF Touched
<1>3. r.op = "put" => Touched(r) = {r.key}
  BY DEF Touched
<1>4. r.op = "delete" => Touched(r) = {r.key}
  BY DEF Touched
<1>5. r.op = "move" => Touched(r) = {r.key, r.to}
  BY DEF Touched
<1>6. r.op = "rebuild" => Touched(r) = Keys
  BY DEF Touched
<1> QED BY <1>1, <1>2, <1>3, <1>4, <1>5, <1>6, KeysAssumption

\* A request that goes on touches what it touched.
LEMMA GoingsTouch ==
    ASSUME NEW q \in Request, NEW r \in Request, Goings(q, r) \/ r = Over
    PROVE  Touched(r) \subseteq Touched(q)
<1>1. CASE Goings(q, r)
  <2>1. Touched(r) = Touched(q)
    BY <1>1 DEF Goings, Touched
  <2> QED BY <2>1
<1>2. CASE r = Over
  BY <1>2, NewIs, TouchedIs
<1> QED BY <1>1, <1>2

\* What a request read is of the keys that it touches.
LEMMA ReadsLocal ==
    ASSUME NEW r \in Request, NEW b, NEW d, Reads(r, b), \A k \in Touched(r) : b[k] = d[k]
    PROVE  Reads(r, d)
<1>1. CASE r.op = "put"
  <2>1. b[r.key] = d[r.key]
    BY <1>1, TouchedIs
  <2> QED BY <1>1, <2>1 DEF Reads
<1>2. CASE r.op = "delete"
  <2>1. b[r.key] = d[r.key]
    BY <1>2, TouchedIs
  <2> QED BY <1>2, <2>1 DEF Reads
<1>3. CASE r.op = "move"
  <2>1. b[r.key] = d[r.key] /\ b[r.to] = d[r.to]
    BY <1>3, TouchedIs
  <2> QED BY <1>3, <2>1 DEF Reads
<1>4. CASE r.op \notin {"put", "delete", "move"}
  BY <1>4 DEF Reads
<1> QED BY <1>1, <1>2, <1>3, <1>4

LEMMA IdleReads ==
    ASSUME NEW r, NEW b, r.op = "" \/ r.op = "rebuild"
    PROVE  Reads(r, b)
BY DEF Reads

\* No other request touches a key of T.
Without(wk, w, T) == \A v \in Requests \ {w} : Touched(wk[v]) \cap T = {}

SameOutside(b, d, T) == \A k \in Keys \ T : b[k] = d[k]

\* One request takes a step within a set of keys that no other touches.
LEMMA UndriftedStep ==
    ASSUME NEW wk \in [Requests -> Request], NEW b \in Buckets, Undrifted(wk, b),
           NEW w \in Requests, NEW r \in Request, NEW d \in Buckets,
           NEW T, Touched(r) \subseteq T,
           Without(wk, w, T), SameOutside(b, d, T),
           Reads(r, d)
    PROVE  Undrifted([wk EXCEPT ![w] = r], d)
<1> DEFINE u == [wk EXCEPT ![w] = r]
<1>1. u[w] = r /\ \A v \in Requests \ {w} : u[v] = wk[v]
  OBVIOUS
<1> HIDE DEF u
<1>2. Disjoint(u)
  BY <1>1 DEF Disjoint, Undrifted, Without
<1>3. ASSUME NEW v \in Requests \ {w}
      PROVE  Reads(u[v], d)
  <2>1. Touched(wk[v]) \subseteq Keys
    BY TouchedIs
  <2>2. \A k \in Touched(wk[v]) : b[k] = d[k]
    BY <2>1 DEF Without, SameOutside
  <2>3. Reads(wk[v], b)
    BY DEF Undrifted
  <2>4. Reads(wk[v], d)
    BY <2>2, <2>3, ReadsLocal
  <2> QED BY <1>1, <2>4
<1> QED BY <1>1, <1>2, <1>3 DEF Undrifted, u

-----------------------------------------------------------------------------
(* The bucket as the tables should show it.                                *)

BookedOf(wk, b) ==
    [k \in Keys |->
        IF \E w \in Requests : Unbooked(wk[w]) /\ k \in Touched(wk[w])
        THEN Before(wk[CHOOSE w \in Requests : Unbooked(wk[w]) /\ k \in Touched(wk[w])], k)
        ELSE b[k]]

\* What one request makes of a key that no other touches.
Shows(r, b, k) == IF Unbooked(r) THEN Before(r, k) ELSE b[k]

LEMMA BookedIs == Booked = BookedOf(work, bucket)
BY DEF Booked, BookedOf

\* No other request touches the key, and this one does if it has yet to book.
Alone(wk, w, k) ==
    /\ \A v \in Requests \ {w} : k \notin Touched(wk[v])
    /\ Unbooked(wk[w]) => k \in Touched(wk[w])

LEMMA BookedShows ==
    ASSUME NEW wk, NEW b, NEW w \in Requests, NEW k \in Keys,
           Alone(wk, w, k)
    PROVE  BookedOf(wk, b)[k] = Shows(wk[w], b, k)
<1> DEFINE P(v) == Unbooked(wk[v]) /\ k \in Touched(wk[v])
           c == CHOOSE v \in Requests : P(v)
<1>1. BookedOf(wk, b)[k] = IF \E v \in Requests : P(v) THEN Before(wk[c], k) ELSE b[k]
  BY DEF BookedOf
<1>2. \A v \in Requests : P(v) => v = w
  BY DEF Alone
<1>3. CASE Unbooked(wk[w])
  <2>1. P(w)
    BY <1>3 DEF Alone
  <2>2. P(c) /\ c \in Requests
    BY <2>1, Zenon
  <2>3. c = w
    BY <1>2, <2>2
  <2> HIDE DEF c, P
  <2> QED BY <1>1, <1>3, <2>1, <2>3 DEF Shows
<1>4. CASE ~Unbooked(wk[w])
  <2>1. ~ \E v \in Requests : P(v)
    BY <1>2, <1>4
  <2> HIDE DEF c, P
  <2> QED BY <1>1, <1>4, <2>1 DEF Shows
<1> QED BY <1>3, <1>4

LEMMA BookedElse ==
    ASSUME NEW wk, NEW b, NEW k \in Keys, \A v \in Requests : ~(Unbooked(wk[v]) /\ k \in Touched(wk[v]))
    PROVE  BookedOf(wk, b)[k] = b[k]
BY DEF BookedOf

\* A request that has yet to book touches all of T, and no other keys.
Whole(r, T) == Touched(r) \subseteq T /\ (Unbooked(r) => T \subseteq Touched(r))

LEMMA SameBuckets ==
    ASSUME NEW b \in Buckets, NEW d \in Buckets, \A k \in Keys : b[k] = d[k]
    PROVE  b = d
BY DEF Buckets

LEMMA BookedInside ==
    ASSUME NEW wk, NEW b, NEW w \in Requests, NEW T, Whole(wk[w], T), Without(wk, w, T),
           NEW k \in Keys, k \in T
    PROVE  BookedOf(wk, b)[k] = Shows(wk[w], b, k)
<1>1. Alone(wk, w, k)
  BY DEF Alone, Whole, Without
<1> QED BY <1>1, BookedShows

\* wk with r in the place of w's request.
Stepped(wk, u, w, r) == u[w] = r /\ \A v \in Requests \ {w} : u[v] = wk[v]

LEMMA BookedOutside ==
    ASSUME NEW wk, NEW b, Disjoint(wk), NEW w \in Requests, NEW T, NEW d, NEW u, NEW r,
           Stepped(wk, u, w, r),
           Touched(wk[w]) \subseteq T, Touched(r) \subseteq T, SameOutside(b, d, T),
           NEW k \in Keys, k \notin T
    PROVE  BookedOf(u, d)[k] = BookedOf(wk, b)[k]
<1>1. u[w] = r /\ \A v \in Requests \ {w} : u[v] = wk[v]
  BY DEF Stepped
<1>2. k \notin Touched(wk[w]) /\ k \notin Touched(u[w]) /\ b[k] = d[k]
  BY <1>1 DEF SameOutside
<1>3. CASE \E v \in Requests \ {w} : k \in Touched(wk[v])
  <2>1. PICK v \in Requests \ {w} : k \in Touched(wk[v])
    BY <1>3
  <2>2. \A z \in Requests \ {v} : k \notin Touched(wk[z])
    BY <2>1 DEF Disjoint
  <2>3. \A z \in Requests \ {v} : k \notin Touched(u[z])
    BY <1>1, <1>2, <2>2
  <2>4. u[v] = wk[v]
    BY <1>1
  <2>5. Alone(wk, v, k) /\ Alone(u, v, k)
    BY <2>1, <2>2, <2>3, <2>4 DEF Alone
  <2>6. BookedOf(wk, b)[k] = Shows(wk[v], b, k) /\ BookedOf(u, d)[k] = Shows(u[v], d, k)
    BY <2>5, BookedShows
  <2> QED BY <1>2, <2>4, <2>6 DEF Shows
<1>4. CASE ~ \E v \in Requests \ {w} : k \in Touched(wk[v])
  <2>1. \A v \in Requests : k \notin Touched(wk[v]) /\ k \notin Touched(u[v])
    BY <1>1, <1>2, <1>4
  <2> QED BY <1>2, <2>1, BookedElse
<1> QED BY <1>3, <1>4

\* One request takes a step within a set of keys that no other touches.
LEMMA BookedStep ==
    ASSUME NEW wk, NEW b, Disjoint(wk), NEW w \in Requests, NEW T, NEW d, NEW u, NEW r,
           Stepped(wk, u, w, r), Whole(wk[w], T), Whole(r, T), Without(wk, w, T), SameOutside(b, d, T),
           \A k \in T \cap Keys : Shows(r, d, k) = Shows(wk[w], b, k),
           BookedOf(wk, b) \in Buckets, BookedOf(u, d) \in Buckets
    PROVE  BookedOf(u, d) = BookedOf(wk, b)
<1>1. u[w] = r /\ Without(u, w, T)
  BY DEF Without, Stepped
<1>2. ASSUME NEW k \in Keys, k \in T
      PROVE  BookedOf(u, d)[k] = BookedOf(wk, b)[k]
  <2>1. BookedOf(wk, b)[k] = Shows(wk[w], b, k)
    BY <1>2, BookedInside
  <2>2. Whole(u[w], T)
    BY <1>1
  <2>3. BookedOf(u, d)[k] = Shows(u[w], d, k)
    BY <1>1, <1>2, <2>2, BookedInside
  <2> QED BY <1>1, <1>2, <2>1, <2>3
<1>3. ASSUME NEW k \in Keys, k \notin T
      PROVE  BookedOf(u, d)[k] = BookedOf(wk, b)[k]
  BY <1>3, BookedOutside DEF Whole
<1> QED BY <1>2, <1>3, SameBuckets

LEMMA BookedTyped ==
    ASSUME NEW wk \in [Requests -> Request], NEW b \in Buckets
    PROVE  BookedOf(wk, b) \in Buckets
<1> DEFINE c(k) == CHOOSE w \in Requests : Unbooked(wk[w]) /\ k \in Touched(wk[w])
           P(k) == \E w \in Requests : Unbooked(wk[w]) /\ k \in Touched(wk[w])
<1>1. ASSUME NEW k \in Keys, P(k)
      PROVE  Before(wk[c(k)], k) \in Object \cup {None}
  <2>1. c(k) \in Requests
    BY <1>1, Zenon
  <2> HIDE DEF c
  <2>2. wk[c(k)] \in Request
    BY <2>1
  <2>3. wk[c(k)].prev \in Object \cup {None}
    BY <2>2, RequestFields
  <2> QED BY <2>3 DEF Before
<1>2. BookedOf(wk, b) = [k \in Keys |-> IF P(k) THEN Before(wk[c(k)], k) ELSE b[k]]
  BY DEF BookedOf
<1> HIDE DEF c, P
<1> QED BY <1>1, <1>2 DEF Buckets

-----------------------------------------------------------------------------
(* Every step but a booking and a rebuild leaves what should be shown.     *)

LEMMA ArriveReads ==
    ASSUME TInv, RInv, NEW w \in Requests, NEW r \in Request, Arrive(w, r),
           Reads(r, bucket), ~Unbooked(r)
    PROVE  RInv' /\ ("raced" \notin drift' => Booked' = Booked)
<1> SUFFICES ASSUME "raced" \notin drift'
             PROVE  Undrifted(work', bucket') /\ BookedOf(work', bucket') = BookedOf(work, bucket)
  BY DEF RInv, Booked, BookedOf
<1>1. /\ work[w] = New /\ work' = [work EXCEPT ![w] = r] /\ bucket' = bucket
      /\ drift' = IF \E v \in Requests \ {w} : Touched(work[v]) \cap Touched(r) # {}
                  THEN drift \cup {"raced"} ELSE drift
  BY DEF Arrive
<1>2. "raced" \notin drift /\ \A v \in Requests \ {w} : Touched(work[v]) \cap Touched(r) = {}
  BY <1>1
<1>3. Undrifted(work, bucket)
  BY <1>2 DEF RInv
<1>4. work \in [Requests -> Request] /\ bucket \in Buckets
  BY DEF TInv, TypeOK, Buckets
<1> DEFINE T == Touched(r)
<1>5. Undrifted([work EXCEPT ![w] = r], bucket)
  <2>1. Touched(r) \subseteq T /\ Without(work, w, T) /\ SameOutside(bucket, bucket, T)
    BY <1>2 DEF Without, SameOutside
  <2> HIDE DEF T
  <2> QED BY <1>3, <1>4, <2>1, UndriftedStep
<1>6. Touched(New) = {} /\ ~Unbooked(New)
  BY NewIs, TouchedIs DEF Unbooked
<1>7. BookedOf([work EXCEPT ![w] = r], bucket) = BookedOf(work, bucket)
  <2> DEFINE u == [work EXCEPT ![w] = r]
  <2>1. Without(work, w, T) /\ SameOutside(bucket, bucket, T)
    BY <1>2 DEF Without, SameOutside
  <2>2. Whole(work[w], T) /\ Whole(r, T) /\ ~Unbooked(work[w]) /\ ~Unbooked(r)
    BY <1>1, <1>6 DEF Whole
  <2>3. Disjoint(work)
    BY <1>3 DEF Undrifted
  <2>4. Stepped(work, u, w, r) /\ u \in [Requests -> Request]
    BY <1>4 DEF Stepped
  <2> HIDE DEF T, u
  <2>5. \A k \in T \cap Keys : Shows(r, bucket, k) = Shows(work[w], bucket, k)
    BY <2>2 DEF Shows
  <2>6. BookedOf(work, bucket) \in Buckets /\ BookedOf(u, bucket) \in Buckets
    BY <1>4, <2>4, BookedTyped
  <2>7. BookedOf(u, bucket) = BookedOf(work, bucket)
    BY <2>1, <2>2, <2>3, <2>4, <2>5, <2>6, BookedStep
  <2> QED BY <2>7 DEF u
<1> QED BY <1>1, <1>5, <1>7

LEMMA GoReads ==
    ASSUME TInv, RInv, NEW w \in Requests, NEW r \in Request,
           Goings(work[w], r) \/ r = Over,
           work' = [work EXCEPT ![w] = r], bucket' \in Buckets, "raced" \notin drift' => "raced" \notin drift,
           \A k \in Keys \ Touched(work[w]) : bucket[k] = bucket'[k],
           "raced" \notin drift => Reads(r, bucket')
    PROVE  /\ RInv'
           /\ \/ "raced" \in drift'
              \/ \E k \in Touched(work[w]) : Shows(r, bucket', k) # Shows(work[w], bucket, k)
              \/ Booked' = Booked
<1> SUFFICES ASSUME "raced" \notin drift'
             PROVE  /\ Undrifted(work', bucket')
                    /\ \/ \E k \in Touched(work[w]) : Shows(r, bucket', k) # Shows(work[w], bucket, k)
                       \/ BookedOf(work', bucket') = BookedOf(work, bucket)
  BY DEF RInv, Booked, BookedOf
<1> DEFINE q == work[w]
           T == Touched(q)
           d == bucket'
<1>1. Undrifted(work, bucket) /\ Disjoint(work)
  BY DEF RInv, Undrifted
<1>2. work \in [Requests -> Request] /\ bucket \in Buckets /\ q \in Request
  BY DEF TInv, TypeOK, Buckets
<1>3. Touched(r) \subseteq T
  BY <1>2, GoingsTouch
<1>4. Without(work, w, T)
  BY <1>1 DEF Disjoint, Without
<1>5. SameOutside(bucket, d, T)
  BY DEF SameOutside
<1>6. Reads(r, d) /\ d \in Buckets
  OBVIOUS
<1>7. Whole(q, T)
  BY DEF Whole
<1>8. Whole(r, T)
  <2>1. CASE Goings(q, r)
    <3>1. Touched(r) = Touched(q)
      BY <2>1 DEF Goings, Touched
    <3> QED BY <3>1 DEF Whole
  <2>2. CASE r = Over
    BY <1>3, <2>2, NewIs DEF Unbooked, Whole
  <2> QED BY <2>1, <2>2
<1>9. T = Touched(work[w]) /\ d = bucket'
  OBVIOUS
<1> HIDE DEF T, d
<1>10. Undrifted([work EXCEPT ![w] = r], d)
  BY <1>1, <1>2, <1>3, <1>4, <1>5, <1>6, UndriftedStep
<1>11. ASSUME \A k \in T : Shows(r, d, k) = Shows(q, bucket, k)
       PROVE  BookedOf([work EXCEPT ![w] = r], d) = BookedOf(work, bucket)
  <2> DEFINE u == [work EXCEPT ![w] = r]
  <2>1. Whole(work[w], T)
    BY <1>7
  <2>2. Stepped(work, u, w, r) /\ u \in [Requests -> Request]
    BY <1>2 DEF Stepped
  <2>3. \A k \in T \cap Keys : Shows(r, d, k) = Shows(work[w], bucket, k)
    BY <1>11
  <2> HIDE DEF u
  <2>4. BookedOf(work, bucket) \in Buckets /\ BookedOf(u, d) \in Buckets
    BY <1>2, <1>6, <2>2, BookedTyped
  <2>5. BookedOf(u, d) = BookedOf(work, bucket)
    BY <1>1, <1>4, <1>5, <1>8, <2>1, <2>2, <2>3, <2>4, BookedStep
  <2> QED BY <2>5 DEF u
<1> QED BY <1>9, <1>10, <1>11

\* What a step must leave: what the requests read, and what the tables should show.
Still == RInv' /\ ("raced" \in drift' \/ "lost" \in drift' \/ Booked' = Booked)

LEMMA ArriveStill ==
    ASSUME TInv, RInv, NEW w \in Requests,
           \/ \E k \in Keys, x \in Contents : Put(w, k, x)
           \/ \E k \in Keys : Delete(w, k)
           \/ \E k, to \in Keys : Move(w, k, to)
           \/ Rebuild(w)
    PROVE  Still
<1>1. ASSUME NEW k \in Keys, NEW x \in Contents, Put(w, k, x)
      PROVE  Still
  <2>1. PICK r \in Request : /\ Arrive(w, r) /\ r.op = "put" /\ r.pc = "store" /\ r.key = k /\ r.to = k
                             /\ r.prev = bucket[k]
    BY <1>1, PutIs
  <2>2. Reads(r, bucket) /\ ~Unbooked(r)
    BY <2>1 DEF Reads, Unbooked
  <2> QED BY <2>1, <2>2, ArriveReads DEF Still
<1>2. ASSUME NEW k \in Keys, Delete(w, k)
      PROVE  Still
  <2>1. PICK r \in Request : /\ Arrive(w, r) /\ r.op = "delete" /\ r.pc = "remove" /\ r.key = k
                             /\ r.prev = bucket[k]
    BY <1>2, DeleteIs
  <2>2. Reads(r, bucket) /\ ~Unbooked(r)
    BY <2>1 DEF Reads, Unbooked
  <2> QED BY <2>1, <2>2, ArriveReads DEF Still
<1>3. ASSUME NEW k \in Keys, NEW to \in Keys, Move(w, k, to)
      PROVE  Still
  <2>1. PICK r \in Request : /\ Arrive(w, r) /\ r.op = "move" /\ r.pc = "taken" /\ r.key = k
                             /\ r.prev = bucket[k]
    BY <1>3, MoveIs
  <2>2. Reads(r, bucket) /\ ~Unbooked(r)
    BY <2>1 DEF Reads, Unbooked
  <2> QED BY <2>1, <2>2, ArriveReads DEF Still
<1>4. CASE Rebuild(w)
  <2>1. PICK r \in Request : Arrive(w, r) /\ r.op = "rebuild" /\ r.pc = "list"
    BY <1>4, RebuildIs
  <2>2. Reads(r, bucket) /\ ~Unbooked(r)
    BY <2>1 DEF Reads, Unbooked
  <2> QED BY <2>1, <2>2, ArriveReads DEF Still
<1> QED BY <1>1, <1>2, <1>3, <1>4

\* Steps that leave the bucket and have nothing to book.
LEMMA GoStill ==
    ASSUME TInv, RInv, NEW w \in Requests, CheckTaken(w) \/ ReadSource(w) \/ List(w)
    PROVE  Still
<1>1. "raced" \notin drift => Reads(work[w], bucket)
  BY DEF RInv, Undrifted
<1>2. bucket \in Buckets
  BY DEF TInv, TypeOK, Buckets
<1>3. ASSUME NEW r \in Request, Goes(w, r), Goings(work[w], r) \/ r = Over,
             work[w].pc \in {"taken", "copy", "list"}, r.pc \in {"over", "copy", "store", "replace"},
             "raced" \notin drift => Reads(r, bucket)
      PROVE  Still
  <2>1. work' = [work EXCEPT ![w] = r] /\ bucket' = bucket /\ drift' = drift
    BY <1>3 DEF Goes
  <2>2. ~Unbooked(work[w]) /\ ~Unbooked(r)
    BY <1>3 DEF Unbooked
  <2>3. \A k : Shows(r, bucket', k) = Shows(work[w], bucket, k)
    BY <2>1, <2>2 DEF Shows
  <2>4. /\ bucket' \in Buckets /\ ("raced" \notin drift' => "raced" \notin drift)
        /\ \A k \in Keys \ Touched(work[w]) : bucket[k] = bucket'[k]
        /\ "raced" \notin drift => Reads(r, bucket')
    BY <1>2, <1>3, <2>1
  <2>5. Goings(work[w], r) \/ r = Over
    BY <1>3
  <2>6. /\ RInv'
        /\ \/ "raced" \in drift'
           \/ \E k \in Touched(work[w]) : Shows(r, bucket', k) # Shows(work[w], bucket, k)
           \/ Booked' = Booked
    BY <2>1, <2>4, <2>5, GoReads
  <2> QED BY <2>3, <2>6 DEF Still
<1>4. CASE CheckTaken(w)
  <2>1. PICK r \in Request : /\ Goes(w, r) /\ work[w].pc = "taken"
                             /\ \/ r = Over
                                \/ Goings(work[w], r) /\ r.pc = "copy" /\ bucket[r.to] = None
    BY <1>4, CheckTakenIs
  <2>2. work[w].op = "move"
    BY <2>1, AtStep
  <2>3. "raced" \notin drift => Reads(r, bucket)
    <3>1. CASE r = Over
      <4>1. r.op = ""
        BY <3>1, NewIs
      <4> QED BY <4>1, IdleReads
    <3>2. CASE Goings(work[w], r) /\ r.pc = "copy" /\ bucket[r.to] = None
      BY <1>1, <2>1, <2>2, <3>2 DEF Reads, Goings
    <3> QED BY <2>1, <3>1, <3>2
  <2> QED BY <1>3, <2>1, <2>3, NewIs
<1>5. CASE ReadSource(w)
  <2>1. PICK r \in Request : /\ Goes(w, r) /\ work[w].pc = "copy"
                             /\ \/ r = Over
                                \/ /\ Goings(work[w], r) /\ r.pc = "store"
                                   /\ r.obj = bucket[r.key] /\ r.obj \in Object
    BY <1>5, ReadSourceIs
  <2>2. work[w].op = "move"
    BY <2>1, AtStep
  <2>3. "raced" \notin drift => Reads(r, bucket)
    <3>1. CASE r = Over
      <4>1. r.op = ""
        BY <3>1, NewIs
      <4> QED BY <4>1, IdleReads
    <3>2. CASE Goings(work[w], r) /\ r.pc = "store" /\ r.obj = bucket[r.key]
      BY <1>1, <2>1, <2>2, <3>2 DEF Reads, Goings
    <3> QED BY <2>1, <3>1, <3>2
  <2> QED BY <1>3, <2>1, <2>3, NewIs
<1>6. CASE List(w)
  <2>1. PICK r \in Request : /\ Goes(w, r) /\ work[w].pc = "list" /\ work[w].op = "rebuild"
                             /\ Goings(work[w], r) /\ r.pc = "replace"
    BY <1>6, ListIs
  <2>2. r.op = "rebuild"
    BY <2>1 DEF Goings
  <2>3. Reads(r, bucket)
    BY <2>2, IdleReads
  <2> QED BY <1>3, <2>1, <2>3
<1> QED BY <1>4, <1>5, <1>6

LEMMA StoreStill ==
    ASSUME TInv, RInv, NEW w \in Requests, Store(w)
    PROVE  Still
<1> DEFINE q == work[w]
<1>1. PICK r \in Request :
         /\ q.pc = "store" /\ Goings(q, r)
         /\ r.obj \in Object /\ r.obj.kind = q.obj.kind /\ r.obj.size = q.obj.size
         /\ r.pc = (IF r.op = "move" THEN "remove" ELSE "book")
         /\ bucket' = [bucket EXCEPT ![r.to] = r.obj]
         /\ work' = [work EXCEPT ![w] = r]
         /\ UNCHANGED <<app, folders, kinds, days, cut, today, drift>>
  BY StoreIs
<1>2. q.op \in {"put", "move"} /\ q \in Request /\ Sound(q)
  BY <1>1, AtStep
<1>3. q.key \in Keys /\ q.to \in Keys /\ bucket \in Buckets
  BY <1>2, RequestFields DEF TInv, TypeOK, Buckets
<1>4. bucket' \in Buckets
  BY <1>1, <1>3 DEF Buckets
<1>5. bucket'[q.to] = r.obj /\ \A k \in Keys \ {q.to} : bucket'[k] = bucket[k]
  BY <1>1, <1>3 DEF Goings, Buckets
<1>6. CASE "raced" \in drift
  <2>1. "raced" \in drift'
    BY <1>1, <1>6
  <2> QED BY <2>1 DEF Still, RInv
<1>7. CASE "raced" \notin drift
  <2>1. Reads(q, bucket)
    BY <1>7 DEF RInv, Undrifted
  <2>2. q.to \in Touched(q)
    BY <1>2, <2>1, TouchedIs DEF Reads
  <2>3. Reads(r, bucket') /\ \A k \in Touched(q) : Shows(r, bucket', k) = Shows(q, bucket, k)
    <3>1. CASE q.op = "put"
      <4>1. /\ r.op = "put" /\ r.pc = "book" /\ r.to = r.key /\ r.key = q.key /\ q.to = q.key
            /\ r.prev = q.prev /\ bucket[q.key] = q.prev
        BY <1>1, <2>1, <3>1 DEF Reads, Goings
      <4>2. Reads(r, bucket')
        BY <1>5, <4>1 DEF Reads
      <4>3. Touched(q) = {q.key}
        BY <1>2, <3>1, TouchedIs
      <4>4. Shows(r, bucket', q.key) = q.prev /\ Shows(q, bucket, q.key) = q.prev
        BY <1>1, <3>1, <4>1 DEF Shows, Unbooked, Before
      <4> QED BY <4>2, <4>3, <4>4
    <3>2. CASE q.op = "move"
      <4>1. /\ r.op = "move" /\ r.pc = "remove" /\ r.to = q.to /\ r.key = q.key /\ q.to # q.key
            /\ r.prev = q.prev /\ bucket[q.key] = q.prev /\ bucket[q.to] = None
            /\ q.obj.kind = q.prev.kind /\ q.obj.size = q.prev.size
        BY <1>1, <1>2, <2>1, <3>2 DEF Reads, Goings, Sound
      <4>2. Reads(r, bucket')
        BY <1>1, <1>3, <1>5, <4>1 DEF Reads
      <4>3. Touched(q) = {q.key, q.to}
        BY <1>2, <3>2, TouchedIs
      <4>4. /\ Shows(r, bucket', q.key) = q.prev /\ Shows(q, bucket, q.key) = q.prev
            /\ Shows(r, bucket', q.to) = None /\ Shows(q, bucket, q.to) = None
        BY <1>1, <3>2, <4>1 DEF Shows, Unbooked, Before
      <4> QED BY <4>2, <4>3, <4>4
    <3> QED BY <1>2, <3>1, <3>2
  <2>4. /\ bucket' \in Buckets /\ ("raced" \notin drift' => "raced" \notin drift)
        /\ \A k \in Keys \ Touched(q) : bucket[k] = bucket'[k]
        /\ "raced" \notin drift => Reads(r, bucket')
    BY <1>4, <1>5, <1>7, <2>2, <2>3
  <2> QED BY <1>1, <2>3, <2>4, GoReads DEF Still
<1> QED BY <1>6, <1>7

LEMMA RemoveStill ==
    ASSUME TInv, RInv, NEW w \in Requests, Remove(w)
    PROVE  Still
<1> DEFINE q == work[w]
<1>1. PICK r \in Request :
         /\ q.pc = "remove"
         /\ \/ Goings(q, r) /\ r.obj = q.obj /\ r.pc = "book"
            \/ r = Over /\ q.op = "delete" /\ bucket[q.key] = None
         /\ bucket' = [bucket EXCEPT ![q.key] = None]
         /\ work' = [work EXCEPT ![w] = r]
         /\ UNCHANGED <<app, folders, kinds, days, cut, today, drift>>
  BY RemoveIs
<1>2. q.op \in {"delete", "move"} /\ q \in Request /\ Sound(q)
  BY <1>1, AtStep
<1>3. q.key \in Keys /\ q.to \in Keys /\ bucket \in Buckets
  BY <1>2, RequestFields DEF TInv, TypeOK, Buckets
<1>4. bucket' \in Buckets
  BY <1>1, <1>3 DEF Buckets
<1>5. bucket'[q.key] = None /\ \A k \in Keys \ {q.key} : bucket'[k] = bucket[k]
  BY <1>1, <1>3 DEF Buckets
<1>6. CASE "raced" \in drift
  <2>1. "raced" \in drift'
    BY <1>1, <1>6
  <2> QED BY <2>1 DEF Still, RInv
<1>7. CASE "raced" \notin drift
  <2>1. Reads(q, bucket)
    BY <1>7 DEF RInv, Undrifted
  <2>2. q.key \in Touched(q)
    BY <1>2, TouchedIs
  <2>3. bucket[q.key] = q.prev /\ q.prev # None
    BY <1>1, <1>2, <2>1, NoneAssumption DEF Reads, Sound
  <2>4. Goings(q, r) /\ r.obj = q.obj /\ r.pc = "book"
    BY <1>1, <2>3
  <2>5. Reads(r, bucket') /\ \A k \in Touched(q) : Shows(r, bucket', k) = Shows(q, bucket, k)
    <3>1. CASE q.op = "delete"
      <4>1. r.op = "delete" /\ r.key = q.key /\ r.prev = q.prev
        BY <2>4, <3>1 DEF Goings
      <4>2. Reads(r, bucket')
        BY <1>5, <2>4, <4>1 DEF Reads
      <4>3. Touched(q) = {q.key}
        BY <1>2, <3>1, TouchedIs
      <4>4. Shows(r, bucket', q.key) = q.prev /\ Shows(q, bucket, q.key) = q.prev
        BY <1>1, <2>3, <2>4, <3>1, <4>1 DEF Shows, Unbooked, Before
      <4> QED BY <4>2, <4>3, <4>4
    <3>2. CASE q.op = "move"
      <4>1. /\ r.op = "move" /\ r.to = q.to /\ r.key = q.key /\ q.to # q.key /\ r.prev = q.prev
            /\ bucket[q.to] = q.obj /\ q.obj.kind = q.prev.kind /\ q.obj.size = q.prev.size
        BY <1>1, <1>2, <2>1, <2>4, <3>2 DEF Reads, Goings, Sound
      <4>2. bucket'[r.to] = r.obj
        BY <1>3, <1>5, <2>4, <4>1
      <4>3. Reads(r, bucket')
        BY <1>5, <2>4, <4>1, <4>2 DEF Reads
      <4>4. Unbooked(q) /\ Unbooked(r)
        BY <1>1, <2>4, <3>2 DEF Unbooked
      <4>5. \A k : Before(r, k) = Before(q, k)
        BY <3>2, <4>1 DEF Before
      <4> QED BY <4>3, <4>4, <4>5 DEF Shows
    <3> QED BY <1>2, <3>1, <3>2
  <2>6. /\ bucket' \in Buckets /\ ("raced" \notin drift' => "raced" \notin drift)
        /\ \A k \in Keys \ Touched(q) : bucket[k] = bucket'[k]
        /\ "raced" \notin drift => Reads(r, bucket')
    BY <1>4, <1>5, <1>7, <2>2, <2>5
  <2> QED BY <1>1, <2>4, <2>5, <2>6, GoReads DEF Still
<1> QED BY <1>6, <1>7

LEMMA FailStill ==
    ASSUME TInv, RInv, NEW w \in Requests, Fail(w)
    PROVE  Still
<1>1. /\ work' = [work EXCEPT ![w] = Over] /\ bucket' = bucket
      /\ drift' = IF Unbooked(work[w]) THEN drift \cup {"lost"} ELSE drift
  BY DEF Fail
<1>2. Over \in Request /\ Reads(Over, bucket') /\ ~Unbooked(Over)
  <2>1. Over.op = "" /\ Over.pc = "over" /\ Over \in Request
    BY NewIs
  <2>2. Reads(Over, bucket')
    BY <2>1, IdleReads
  <2> QED BY <2>1, <2>2 DEF Unbooked
<1>3. bucket' \in Buckets
  BY <1>1 DEF TInv, TypeOK, Buckets
<1>4. "raced" \notin drift' => "raced" \notin drift
  BY <1>1
<1>5. /\ RInv'
      /\ \/ "raced" \in drift'
         \/ \E k \in Touched(work[w]) : Shows(Over, bucket', k) # Shows(work[w], bucket, k)
         \/ Booked' = Booked
  <2>1. \A k \in Keys \ Touched(work[w]) : bucket[k] = bucket'[k]
    BY <1>1
  <2> QED BY <1>1, <1>2, <1>3, <1>4, <2>1, GoReads
<1>6. CASE Unbooked(work[w])
  <2>1. "lost" \in drift'
    BY <1>1, <1>6
  <2> QED BY <1>5, <2>1 DEF Still
<1>7. CASE ~Unbooked(work[w])
  <2>1. \A k : Shows(Over, bucket', k) = Shows(work[w], bucket, k)
    BY <1>1, <1>2, <1>7 DEF Shows
  <2> QED BY <1>5, <2>1 DEF Still
<1> QED BY <1>6, <1>7

-----------------------------------------------------------------------------
(* What the rows of folders say of the bucket: a folder has what is        *)
(* beneath it.                                                             *)

LEMMA PathsAreSequences ==
    /\ \A p \in Paths : p \in Seq(STRING)
    /\ \A k \in Keys : k \in Seq(STRING) /\ Len(k) \in Nat /\ Len(k) > 0
<1>1. \A k \in Keys \cup NewFolders : k \in Seq(STRING) /\ Len(k) \in Nat /\ Len(k) > 0
  <2> SUFFICES ASSUME NEW k \in Keys \cup NewFolders
               PROVE  k \in Seq(STRING) /\ Len(k) \in Nat /\ Len(k) > 0
    OBVIOUS
  <2>1. k \in Seq(STRING) /\ k # <<>>
    BY KeysAssumption
  <2> QED BY <2>1
<1>2. ASSUME NEW k \in Keys, NEW p \in AncestorPaths(k) PROVE p \in Seq(STRING)
  <2>1. PICK i \in 0..(Len(k) - 1) : p = SubSeq(k, 1, i)
    BY DEF AncestorPaths
  <2>2. i \in 0..Len(k) /\ k \in Seq(STRING)
    BY <1>1
  <2> QED BY <2>1, <2>2, PrefixOfPrefix
<1>3. ASSUME NEW f \in NewFolders, NEW p \in MadeWith(f) PROVE p \in Seq(STRING)
  <2>1. PICK i \in 1..Len(f) : p = SubSeq(f, 1, i)
    BY DEF MadeWith
  <2>2. i \in 0..Len(f) /\ f \in Seq(STRING)
    BY <1>1
  <2> QED BY <2>1, <2>2, PrefixOfPrefix
<1>4. <<>> \in Seq(STRING)
  OBVIOUS
<1> QED BY <1>1, <1>2, <1>3, <1>4 DEF Paths

\* A leading slash makes no folder but the root.
LEMMA NoEmptyPath == Slash \notin Paths /\ <<>> \in Paths
BY SlashIs, AncestorsAre, MadeAre DEF Paths

LEMMA BeneathIs ==
    ASSUME NEW k \in Keys, NEW p, Len(p) \in Nat, p # Slash
    PROVE  p \in AncestorPaths(k) <=> Beneath(k, p)
<1>1. k \in Seq(STRING) /\ Len(k) \in Nat
  BY PathsAreSequences
<1>2. ASSUME p \in AncestorPaths(k) PROVE Beneath(k, p)
  <2>1. PICK i \in 0..(Len(k) - 1) : p = SubSeq(k, 1, i)
    BY <1>2, AncestorsAre
  <2>2. i \in 0..Len(k) /\ Len(k) > i
    BY <1>1
  <2>3. Len(p) = i
    BY <1>1, <2>1, <2>2, PrefixOfPrefix
  <2> QED BY <2>1, <2>2, <2>3 DEF Beneath
<1>3. ASSUME Beneath(k, p) PROVE p \in AncestorPaths(k)
  <2>1. Len(p) \in 0..(Len(k) - 1) /\ p = SubSeq(k, 1, Len(p))
    BY <1>1, <1>3 DEF Beneath
  <2> QED BY <2>1, AncestorsAre
<1> QED BY <1>2, <1>3

LEMMA KeysUnder ==
    ASSUME NEW b \in Buckets, NEW p \in Paths
    PROVE  FolderKeys(b, p) = Under(b, p)
<1>1. p \in Seq(STRING) /\ p # Slash /\ Len(p) \in Nat
  BY PathsAreSequences, NoEmptyPath
<1>2. \A k \in Stored(b) : p \in AncestorPaths(k) <=> Beneath(k, p)
  BY <1>1, BeneathIs DEF Stored
<1> QED BY <1>2 DEF FolderKeys, Under

Exact(t, b) ==
    LET all == Stored(b)
        slashed == {k \in all : LeadingSlash(k)} IN
    /\ \A p \in Paths \ {<<>>} :
           /\ t[p].count = Cardinality(Under(b, p))
           /\ t[p].bytes = Bytes(b, Under(b, p))
           /\ t[p].there <=> t[p].explicit \/ Under(b, p) # {}
    /\ t[<<>>].count = Cardinality(all) + Cardinality(slashed)
    /\ t[<<>>].bytes = Bytes(b, all) + Bytes(b, slashed)

LEMMA TrueIsExact ==
    ASSUME NEW b \in Buckets, NEW t, FoldersTrue(t, b)
    PROVE  Exact(t, b)
<1>1. \A p \in Paths : /\ t[p].count = FoldFolders(b)[p].count
                       /\ t[p].bytes = FoldFolders(b)[p].bytes
  BY AgreeOver, FoldDomains DEF FoldersTrue
<1>2. ASSUME NEW p \in Paths \ {<<>>}
      PROVE  /\ t[p].count = Cardinality(Under(b, p))
             /\ t[p].bytes = Bytes(b, Under(b, p))
             /\ t[p].there <=> t[p].explicit \/ Under(b, p) # {}
  <2> DEFINE S == Under(b, p)
             A == AgainKeys(b, p)
  <2>1. FolderKeys(b, p) = S /\ A = {}
    BY KeysUnder, NotListedAgain
  <2>2. S \in SUBSET Stored(b) /\ A \in SUBSET Stored(b)
    BY DEF Under, AgainKeys
  <2>3. t[p].count = Cardinality(S) + Cardinality(A) /\ t[p].bytes = Bytes(b, S) + Bytes(b, A)
    BY <1>1, <2>1, FolderRow
  <2>4. t[p].there <=> t[p].explicit \/ t[p].count > 0
    BY DEF FoldersTrue
  <2> HIDE DEF S, A
  <2>5. Cardinality(A) = 0 /\ Bytes(b, A) = 0
    BY <2>1, <2>2, Countable
  <2>6. Cardinality(S) \in Nat /\ Bytes(b, S) \in Int /\ (Cardinality(S) > 0 <=> S # {})
    BY <2>2, Countable
  <2>7. t[p].count = Cardinality(S) /\ t[p].bytes = Bytes(b, S)
    BY <2>3, <2>5, <2>6
  <2>8. t[p].there <=> t[p].explicit \/ S # {}
    BY <2>4, <2>6, <2>7
  <2> QED BY <2>7, <2>8 DEF S
<1>3. FolderKeys(b, <<>>) = Stored(b) /\ AgainKeys(b, <<>>) = {k \in Stored(b) : LeadingSlash(k)}
  <2>1. \A k \in Stored(b) : <<>> \in AncestorPaths(k)
    BY RootOfAll DEF Stored
  <2>2. \A k \in Stored(b) : <<>> \in ListedAgain(k) <=> LeadingSlash(k)
    BY DEF ListedAgain, LeadingSlash
  <2> QED BY <2>1, <2>2 DEF FolderKeys, AgainKeys
<1>4. /\ t[<<>>].count = Cardinality(FolderKeys(b, <<>>)) + Cardinality(AgainKeys(b, <<>>))
      /\ t[<<>>].bytes = Bytes(b, FolderKeys(b, <<>>)) + Bytes(b, AgainKeys(b, <<>>))
  BY <1>1, FolderRow, NoEmptyPath
<1> QED BY <1>2, <1>3, <1>4 DEF Exact

-----------------------------------------------------------------------------
(* All the tables at once, true to a bucket.                               *)

\* kindly, daily: whether the totals by kind, and by day, are still exact.
True(fo, ki, da, b, from, kindly, daily) ==
    /\ FoldersTrue(fo, b)
    /\ kindly => KindsTrue(ki, b)
    /\ daily => DaysTrue(da, b, from)

Shown(a, dr, fo, ki, da, from, b) ==
    a /\ "raced" \notin dr /\ "lost" \notin dr =>
        True(fo, ki, da, b, from, "kind" \notin dr, "kind" \notin dr /\ "midnight" \notin dr)

AInv ==
    /\ TInv /\ RInv
    /\ cut <= today /\ Plain(days)
    /\ Shown(app, drift, folders, kinds, days, cut, Booked)

LEMMA ShownIs ==
    ASSUME Booked \in Buckets, Shown(app, drift, folders, kinds, days, cut, Booked)
    PROVE  FoldersAreTrue /\ TotalsAreTrue
<1>1. Undisturbed({}) => app /\ "raced" \notin drift /\ "lost" \notin drift
  BY DEF Undisturbed
<1>2. Undisturbed({"kind"}) =>
         app /\ "raced" \notin drift /\ "lost" \notin drift /\ "kind" \notin drift
  BY DEF Undisturbed
<1>3. Undisturbed({"kind", "midnight"}) =>
         /\ app /\ "raced" \notin drift /\ "lost" \notin drift
         /\ "kind" \notin drift /\ "midnight" \notin drift
  BY DEF Undisturbed
<1>4. FoldersAreTrue
  <2>1. Undisturbed({}) => Exact(folders, Booked)
    BY <1>1, TrueIsExact DEF Shown, True
  <2> QED BY <2>1 DEF Exact, FoldersAreTrue
<1>5. TotalsAreTrue
  BY <1>2, <1>3 DEF Shown, True, KindsTrue, DaysTrue, TotalsAreTrue
<1> QED BY <1>4, <1>5

\* A step that leaves the tables, and what they should show, may only make them excused.
LEMMA Kept ==
    ASSUME AInv, TInv', Still, UNCHANGED <<folders, kinds, days, cut>>,
           app' => app, drift \subseteq drift', today <= today'
    PROVE  AInv'
<1>1. cut \in Int /\ today \in Int /\ today' \in Int
  BY DEF AInv, TInv, TypeOK, Days
<1>2. cut' <= today'
  BY <1>1 DEF AInv
<1>3. Plain(days')
  BY DEF AInv
<1>4. RInv' /\ ("raced" \in drift' \/ "lost" \in drift' \/ Booked' = Booked)
  BY DEF Still
<1>5. Shown(app', drift', folders', kinds', days', cut', Booked')
  BY <1>4 DEF AInv, Shown, True
<1> QED BY <1>2, <1>3, <1>4, <1>5 DEF AInv

\* The kind and the day a change is booked under are those of the object.
KindHolds(c, b, d) ==
    /\ b[c.key] # None => b[c.key].kind = c.kind
    /\ d[c.key] # None => d[c.key].kind = c.kind

DayHolds(c, d, now) == d[c.key] # None => d[c.key].day = now

LEMMA AllApply ==
    ASSUME NEW b \in Buckets, NEW d \in Buckets, NEW c, Tells(c, b, d),
           NEW fo \in [Paths -> Row], NEW ki \in [KindRows -> Row], NEW da \in [DayRows -> Row],
           Plain(da), NEW now \in Days, NEW from \in Int, from <= now,
           NEW kindly \in BOOLEAN, NEW daily \in BOOLEAN,
           kindly => KindHolds(c, b, d), daily => KindHolds(c, b, d) /\ DayHolds(c, d, now),
           True(fo, ki, da, b, from, kindly, daily)
    PROVE  True(ApplyFolders(fo, c), ApplyKinds(ki, c), ApplyDays(da, c, now), d, from, kindly, daily)
<1>1. FoldersTrue(ApplyFolders(fo, c), d)
  BY FoldersApply DEF True
<1>2. ASSUME kindly = TRUE PROVE KindsTrue(ApplyKinds(ki, c), d)
  BY <1>2, KindsApply DEF True, KindHolds
<1>3. ASSUME daily = TRUE PROVE DaysTrue(ApplyDays(da, c, now), d, from)
  <2>1. /\ b[c.key] # None => b[c.key].kind = c.kind
        /\ d[c.key] # None => d[c.key].kind = c.kind
        /\ d[c.key] # None => d[c.key].day = now
        /\ DaysTrue(da, b, from)
    BY <1>3 DEF True, KindHolds, DayHolds
  <2> QED BY <2>1, DaysApply
<1> QED BY <1>1, <1>2, <1>3 DEF True

LEMMA WriteTells ==
    ASSUME NEW b \in Buckets, NEW d \in Buckets, NEW key \in Keys, SameBut(b, d, key),
           NEW obj \in Object, NEW prev, prev = b[key],
           d[key] \in Object, d[key].size = obj.size,
           NEW c, c = WriteChange(key, obj, prev)
    PROVE  Tells(c, b, d) /\ c.kind = obj.kind /\ c.key = key
<1> DEFINE n == IF prev = None THEN 1 ELSE 0
           m == IF prev = None THEN obj.size ELSE obj.size - prev.size
           l == obj.size
           k == obj.kind
<1>1. c = [key |-> key, kind |-> k, written |-> TRUE, size |-> l, prev |-> prev,
           count |-> n, bytes |-> m]
  BY DEF WriteChange
<1>2. d[key] # None
  BY NoneAssumption
<1>3. SizeOf(d[key]) = l /\ SizeOf(b[key]) = IF prev = None THEN 0 ELSE prev.size
  BY <1>2 DEF SizeOf
<1>4. l \in Int /\ SizeOf(b[key]) \in Int
  BY SizeIsInt DEF Object
<1>5. m = SizeOf(d[key]) - SizeOf(b[key])
  BY <1>3, <1>4
<1>6. n = (IF d[key] = None THEN 0 ELSE 1) - (IF b[key] = None THEN 0 ELSE 1)
  BY <1>2
<1> HIDE DEF n, m, l, k
<1>7. /\ c.key = key /\ c.kind = k /\ c.written = TRUE /\ c.size = l /\ c.prev = prev
      /\ c.count = n /\ c.bytes = m
  BY <1>1
<1>8. c.written = (d[key] # None)
  BY <1>2, <1>7
<1> QED BY <1>2, <1>3, <1>5, <1>6, <1>7, <1>8 DEF Tells, k

LEMMA DeleteTells ==
    ASSUME NEW b \in Buckets, NEW d \in Buckets, NEW key \in Keys, SameBut(b, d, key),
           NEW prev \in Object, prev = b[key], d[key] = None,
           NEW kind, NEW c, c = DeleteChange(key, kind, prev)
    PROVE  Tells(c, b, d) /\ c.kind = kind /\ c.key = key
<1> DEFINE n == -1
           m == -prev.size
           z == 0
<1>1. c = [key |-> key, kind |-> kind, written |-> FALSE, size |-> z, prev |-> prev,
           count |-> n, bytes |-> m]
  BY DEF DeleteChange
<1>2. b[key] # None
  BY NoneAssumption
<1>3. SizeOf(d[key]) = z /\ SizeOf(b[key]) = prev.size
  BY <1>2 DEF SizeOf
<1>4. SizeOf(b[key]) \in Int
  BY SizeIsInt
<1>5. m = SizeOf(d[key]) - SizeOf(b[key])
  BY <1>3, <1>4
<1>6. n = (IF d[key] = None THEN 0 ELSE 1) - (IF b[key] = None THEN 0 ELSE 1)
  BY <1>2
<1> HIDE DEF n, m, z
<1>7. /\ c.key = key /\ c.kind = kind /\ c.written = FALSE /\ c.size = z /\ c.prev = prev
      /\ c.count = n /\ c.bytes = m
  BY <1>1
<1>8. c.written = (d[key] # None)
  BY <1>7
<1> QED BY <1>2, <1>3, <1>5, <1>6, <1>7, <1>8 DEF Tells

-----------------------------------------------------------------------------
(* A booking.                                                              *)

\* It brings what should be shown to the bucket, at the keys of its request.
LEMMA BookBooked ==
    ASSUME TInv, RInv, NEW w \in Requests, Book(w), "raced" \notin drift
    PROVE  /\ Undrifted(work', bucket') /\ Reads(work[w], bucket)
           /\ BookedOf(work, bucket) \in Buckets /\ BookedOf(work', bucket') \in Buckets
           /\ SameOutside(BookedOf(work, bucket), BookedOf(work', bucket'), Touched(work[w]))
           /\ \A k \in Touched(work[w]) : /\ BookedOf(work, bucket)[k] = Before(work[w], k)
                                          /\ BookedOf(work', bucket')[k] = bucket[k]
<1> DEFINE q == work[w]
           T == Touched(q)
           u == [work EXCEPT ![w] = Over]
<1>1. q.pc = "book" /\ work' = u /\ bucket' = bucket
  BY DEF Book
<1>2. Undrifted(work, bucket) /\ Disjoint(work) /\ Reads(q, bucket)
  BY DEF RInv, Undrifted
<1>3. work \in [Requests -> Request] /\ bucket \in Buckets /\ q \in Request
  BY DEF TInv, TypeOK, Buckets
<1>4. Over \in Request /\ ~Unbooked(Over) /\ Reads(Over, bucket)
  BY NewIs, IdleReads DEF Unbooked
<1>5. Touched(Over) = {}
  BY NewIs, TouchedIs
<1>6. Without(work, w, T) /\ SameOutside(bucket, bucket, T)
  BY <1>2 DEF Disjoint, Without, SameOutside
<1>7. Touched(Over) \subseteq T /\ Touched(q) \subseteq T /\ T \subseteq Keys
  BY <1>3, <1>5, TouchedIs
<1>8. Stepped(work, u, w, Over) /\ u \in [Requests -> Request]
  BY <1>3, <1>4 DEF Stepped
<1>9. Unbooked(q)
  BY <1>1 DEF Unbooked
<1>10. T = Touched(work[w])
  OBVIOUS
<1> HIDE DEF T
<1>11. Undrifted([work EXCEPT ![w] = Over], bucket)
  BY <1>2, <1>3, <1>4, <1>6, <1>7, UndriftedStep
<1>12. Undrifted(u, bucket)
  BY <1>11
<1> HIDE DEF u
<1>13. BookedOf(work, bucket) \in Buckets /\ BookedOf(u, bucket) \in Buckets
  BY <1>3, <1>8, BookedTyped
<1>14. Whole(work[w], T) /\ Whole(u[w], T)
  BY <1>4, <1>7, <1>8, <1>10 DEF Whole, Stepped
<1>15. Without(u, w, T)
  BY <1>6, <1>8 DEF Without, Stepped
<1>16. ASSUME NEW k \in T
       PROVE  BookedOf(work, bucket)[k] = Before(q, k) /\ BookedOf(u, bucket)[k] = bucket[k]
  <2>1. BookedOf(work, bucket)[k] = Shows(work[w], bucket, k)
    BY <1>6, <1>7, <1>14, BookedInside
  <2>2. BookedOf(u, bucket)[k] = Shows(u[w], bucket, k)
    BY <1>7, <1>14, <1>15, BookedInside
  <2>3. u[w] = Over
    BY <1>8 DEF Stepped
  <2> QED BY <1>4, <1>9, <2>1, <2>2, <2>3 DEF Shows
<1>17. ASSUME NEW k \in Keys, k \notin T
       PROVE  BookedOf(u, bucket)[k] = BookedOf(work, bucket)[k]
  BY <1>2, <1>6, <1>7, <1>8, <1>17, BookedOutside
<1>18. SameOutside(BookedOf(work, bucket), BookedOf(u, bucket), T)
  BY <1>17 DEF SameOutside
<1> QED BY <1>1, <1>2, <1>10, <1>12, <1>13, <1>16, <1>18

\* A put and a delete: one change.
LEMMA BookOneTells ==
    ASSUME TInv, RInv, NEW w \in Requests, Book(w), "raced" \notin drift, work[w].op # "move",
           NEW b \in Buckets, b = BookedOf(work, bucket),
           NEW d \in Buckets, d = BookedOf(work', bucket')
    PROVE  \E c :
              /\ Tells(c, b, d)
              /\ folders' = ApplyFolders(folders, c)
              /\ kinds' = ApplyKinds(kinds, c)
              /\ days' = ApplyDays(days, c, today)
              /\ "kind" \notin drift' => KindHolds(c, b, d)
              /\ "midnight" \notin drift' => DayHolds(c, d, today)
<1> DEFINE q == work[w]
           key == q.key
<1>1. PICK c : /\ q.op = "put" => c = WriteChange(key, q.obj, q.prev)
               /\ q.op = "delete" => c = DeleteChange(key, q.prev.kind, q.prev)
               /\ folders' = ApplyFolders(folders, c)
               /\ kinds' = ApplyKinds(kinds, c)
               /\ days' = ApplyDays(days, c, today)
  BY BookOne
<1>2. /\ q \in Request /\ Sound(q) /\ q.op \in {"put", "delete"} /\ q.pc = "book"
  BY AtStep DEF Book
<1>3. key \in Keys /\ q.prev \in Object \cup {None}
  BY <1>2, RequestFields
<1>4. Touched(q) = {key}
  BY <1>2, TouchedIs
<1>5. SameOutside(b, d, {key}) /\ b[key] = Before(q, key) /\ d[key] = bucket[key] /\ Reads(q, bucket)
  BY <1>4, BookBooked
<1>6. SameBut(b, d, key)
  BY <1>5 DEF SameOutside, SameBut
<1>7. b[key] = q.prev
  BY <1>2, <1>5 DEF Before
<1>8. CASE q.op = "put"
  <2>1. d[key] = q.obj /\ q.obj \in Object
    BY <1>2, <1>5, <1>8 DEF Reads, Sound
  <2>2. Tells(c, b, d) /\ c.kind = q.obj.kind /\ c.key = key
    <3> DEFINE o == q.obj
               p == q.prev
    <3>1. /\ c = WriteChange(key, o, p) /\ o \in Object /\ p = b[key]
          /\ d[key] \in Object /\ d[key].size = o.size
      BY <1>1, <1>7, <1>8, <2>1
    <3> HIDE DEF o, p, key
    <3>2. Tells(c, b, d) /\ c.kind = o.kind /\ c.key = key
      BY <1>3, <1>6, <3>1, WriteTells
    <3> QED BY <3>2 DEF o
  <2>3. /\ drift' = drift \cup (IF q.prev # None /\ q.prev.kind # q.obj.kind THEN {"kind"} ELSE {})
                          \cup (IF q.obj.day # today THEN {"midnight"} ELSE {})
    BY <1>8 DEF Book
  <2>4. "kind" \notin drift' => KindHolds(c, b, d)
    BY <1>7, <2>1, <2>2, <2>3 DEF KindHolds
  <2>5. "midnight" \notin drift' => DayHolds(c, d, today)
    BY <2>1, <2>2, <2>3 DEF DayHolds
  <2> QED BY <1>1, <2>2, <2>4, <2>5
<1>9. CASE q.op = "delete"
  <2>1. d[key] = None /\ q.prev \in Object
    BY <1>2, <1>5, <1>9 DEF Reads, Sound
  <2>2. Tells(c, b, d) /\ c.kind = q.prev.kind /\ c.key = key
    <3> DEFINE p == q.prev
               x == q.prev.kind
    <3>1. /\ c = DeleteChange(key, x, p) /\ p \in Object /\ p = b[key] /\ d[key] = None
      BY <1>1, <1>7, <1>9, <2>1
    <3> HIDE DEF p, x, key
    <3>2. Tells(c, b, d) /\ c.kind = x /\ c.key = key
      BY <1>3, <1>6, <3>1, DeleteTells
    <3> QED BY <3>2 DEF x
  <2>3. KindHolds(c, b, d) /\ DayHolds(c, d, today)
    BY <1>7, <2>1, <2>2 DEF KindHolds, DayHolds
  <2> QED BY <1>1, <2>2, <2>3
<1> QED BY <1>2, <1>8, <1>9

\* A move: the object is gone from its key, and then it is at the other.
LEMMA BookTwoTells ==
    ASSUME TInv, RInv, NEW w \in Requests, Book(w), "raced" \notin drift, work[w].op = "move",
           NEW b \in Buckets, b = BookedOf(work, bucket),
           NEW d \in Buckets, d = BookedOf(work', bucket')
    PROVE  \E c, e : \E m \in Buckets :
              /\ Tells(c, b, m) /\ Tells(e, m, d)
              /\ folders' = ApplyFolders(ApplyFolders(folders, c), e)
              /\ kinds' = ApplyKinds(ApplyKinds(kinds, c), e)
              /\ days' = ApplyDays(ApplyDays(days, c, today), e, today)
              /\ KindHolds(c, b, m) /\ KindHolds(e, m, d) /\ DayHolds(c, m, today)
              /\ "midnight" \notin drift' => DayHolds(e, d, today)
<1> DEFINE q == work[w]
           key == q.key
           to == q.to
           obj == q.obj
           prev == q.prev
           kind == q.obj.kind
           o == [q.obj EXCEPT !.size = q.prev.size]
           m == [b EXCEPT ![key] = None]
<1>1. PICK c, e : /\ c = DeleteChange(key, kind, prev)
                  /\ e = WriteChange(to, o, None)
                  /\ folders' = ApplyFolders(ApplyFolders(folders, c), e)
                  /\ kinds' = ApplyKinds(ApplyKinds(kinds, c), e)
                  /\ days' = ApplyDays(ApplyDays(days, c, today), e, today)
  BY BookTwo
<1>2. q \in Request /\ Sound(q) /\ q.op = "move" /\ q.pc = "book"
  BY AtStep DEF Book
<1>3. key \in Keys /\ to \in Keys /\ key # to /\ prev \in Object /\ obj \in Object
  BY <1>2, RequestFields DEF Sound
<1>4. Touched(q) = {key, to}
  BY <1>2, TouchedIs
<1>5. /\ SameOutside(b, d, {key, to}) /\ Reads(q, bucket)
      /\ b[key] = Before(q, key) /\ d[key] = bucket[key]
      /\ b[to] = Before(q, to) /\ d[to] = bucket[to]
  BY <1>4, BookBooked
<1>6. b[key] = prev /\ b[to] = None
  BY <1>2, <1>3, <1>5 DEF Before
<1>7. d[key] = None /\ d[to] = obj /\ kind = prev.kind /\ obj.size = prev.size
  BY <1>2, <1>5 DEF Reads
<1>8. o \in Object /\ o.size = obj.size /\ o.kind = kind
  <2> DEFINE n == q.prev.size
  <2>1. n \in Nat
    BY <1>3 DEF Object
  <2>2. obj.size = n
    BY <1>7
  <2> HIDE DEF obj, n
  <2>3. [obj EXCEPT !.size = n] \in Object /\ [obj EXCEPT !.size = n].size = n
        /\ [obj EXCEPT !.size = n].kind = obj.kind
    BY <1>3, <2>1 DEF Object
  <2> QED BY <2>2, <2>3 DEF obj, n
<1>9. drift' = drift \cup (IF obj.day # today THEN {"midnight"} ELSE {})
  BY <1>2 DEF Book
<1>10. kind = obj.kind
  OBVIOUS
<1> HIDE DEF q, key, to, obj, prev, kind, o
<1>11. m \in Buckets /\ m[key] = None /\ \A k \in Keys \ {key} : m[k] = b[k]
  BY <1>3 DEF Buckets
<1> HIDE DEF m
<1>12. SameBut(b, m, key)
  BY <1>11 DEF SameBut
<1>13. SameBut(m, d, to)
  BY <1>3, <1>5, <1>7, <1>11 DEF SameBut, SameOutside
<1>14. m[to] = None
  BY <1>3, <1>6, <1>11
<1>15. Tells(c, b, m) /\ c.kind = kind /\ c.key = key
  BY <1>1, <1>3, <1>6, <1>11, <1>12, DeleteTells
<1>16. Tells(e, m, d) /\ e.kind = kind /\ e.key = to
  <2>1. d[to] \in Object /\ d[to].size = o.size
    BY <1>3, <1>7, <1>8
  <2>2. Tells(e, m, d) /\ e.kind = o.kind /\ e.key = to
    BY <1>1, <1>3, <1>8, <1>11, <1>13, <1>14, <2>1, WriteTells
  <2> QED BY <1>8, <2>2
<1>17. KindHolds(c, b, m) /\ DayHolds(c, m, today)
  BY <1>6, <1>7, <1>11, <1>15 DEF KindHolds, DayHolds
<1>18. KindHolds(e, m, d)
  BY <1>7, <1>10, <1>14, <1>16 DEF KindHolds
<1>19. "midnight" \notin drift' => DayHolds(e, d, today)
  BY <1>7, <1>9, <1>16 DEF DayHolds
<1> QED BY <1>1, <1>11, <1>15, <1>16, <1>17, <1>18, <1>19

LEMMA BookPlain ==
    ASSUME AInv, NEW w \in Requests, Book(w)
    PROVE  Plain(days')
<1>1. days \in [DayRows -> Row] /\ Plain(days) /\ TInv
  BY DEF AInv, TInv, TypeOK
<1>2. CASE work[w].op # "move"
  <2>1. PICK c : Change(c) /\ days' = ApplyDays(days, c, today)
    BY <1>1, <1>2, BookOne
  <2> QED BY <1>1, <2>1, DaysPlain
<1>3. CASE work[w].op = "move"
  <2>1. PICK c, e : Change(c) /\ Change(e) /\ days' = ApplyDays(ApplyDays(days, c, today), e, today)
    BY <1>1, <1>3, BookTwo
  <2>2. ApplyDays(days, c, today) \in [DayRows -> Row]
    BY <1>1, <2>1, ChangeTypes DEF TInv, TypeOK
  <2>3. Plain(ApplyDays(days, c, today))
    BY <1>1, <2>1, DaysPlain
  <2> QED BY <2>1, <2>2, <2>3, DaysPlain
<1> QED BY <1>2, <1>3

LEMMA BookTrue ==
    ASSUME AInv, NEW w \in Requests, Book(w)
    PROVE  AInv'
<1> DEFINE b == BookedOf(work, bucket)
           d == BookedOf(work', bucket')
           kindly == "kind" \notin drift'
           daily == "kind" \notin drift' /\ "midnight" \notin drift'
<1>1. /\ TInv /\ RInv /\ Plain(days) /\ cut <= today
      /\ Shown(app, drift, folders, kinds, days, cut, b)
  BY BookedIs DEF AInv
<1>2. /\ folders \in [Paths -> Row] /\ kinds \in [KindRows -> Row] /\ days \in [DayRows -> Row]
      /\ today \in Days /\ cut \in Int
  BY <1>1 DEF TInv, TypeOK
<1>3. app /\ UNCHANGED <<app, bucket, cut, today>> /\ drift \subseteq drift'
  BY DEF Book
<1>4. TInv'
  BY <1>1, BookTyped
<1>5. RInv'
  <2>1. "raced" \notin drift' => "raced" \notin drift
    BY <1>3
  <2> QED BY <1>1, <2>1, BookBooked DEF RInv
<1>6. Plain(days')
  BY BookPlain
<1>7. ASSUME "raced" \notin drift', "lost" \notin drift'
      PROVE  True(folders', kinds', days', d, cut, kindly, daily)
  <2>1. "raced" \notin drift /\ b \in Buckets /\ d \in Buckets
    BY <1>1, <1>3, <1>7, BookBooked
  <2>2. True(folders, kinds, days, b, cut, kindly, daily)
    BY <1>1, <1>3, <1>7 DEF Shown, True
  <2>3. kindly \in BOOLEAN /\ daily \in BOOLEAN
    OBVIOUS
  <2>4. (kindly => "kind" \notin drift') /\ (daily => "kind" \notin drift' /\ "midnight" \notin drift')
    OBVIOUS
  <2>5. b = BookedOf(work, bucket) /\ d = BookedOf(work', bucket')
    OBVIOUS
  <2> HIDE DEF b, d, kindly, daily
  <2>6. CASE work[w].op # "move"
    <3>1. PICK c :
             /\ Tells(c, b, d)
             /\ folders' = ApplyFolders(folders, c)
             /\ kinds' = ApplyKinds(kinds, c)
             /\ days' = ApplyDays(days, c, today)
             /\ "kind" \notin drift' => KindHolds(c, b, d)
             /\ "midnight" \notin drift' => DayHolds(c, d, today)
      BY <1>1, <2>1, <2>5, <2>6, BookOneTells
    <3>2. (kindly => KindHolds(c, b, d)) /\ (daily => KindHolds(c, b, d) /\ DayHolds(c, d, today))
      BY <2>4, <3>1
    <3>3. True(ApplyFolders(folders, c), ApplyKinds(kinds, c), ApplyDays(days, c, today), d, cut, kindly, daily)
      BY <1>1, <1>2, <2>1, <2>2, <2>3, <3>1, <3>2, AllApply
    <3> QED BY <3>1, <3>3
  <2>7. CASE work[w].op = "move"
    <3>1. PICK c, e : \E m \in Buckets :
             /\ Tells(c, b, m) /\ Tells(e, m, d)
             /\ folders' = ApplyFolders(ApplyFolders(folders, c), e)
             /\ kinds' = ApplyKinds(ApplyKinds(kinds, c), e)
             /\ days' = ApplyDays(ApplyDays(days, c, today), e, today)
             /\ KindHolds(c, b, m) /\ KindHolds(e, m, d) /\ DayHolds(c, m, today)
             /\ "midnight" \notin drift' => DayHolds(e, d, today)
      BY <1>1, <2>1, <2>5, <2>7, BookTwoTells
    <3>2. PICK m \in Buckets :
             /\ Tells(c, b, m) /\ Tells(e, m, d)
             /\ KindHolds(c, b, m) /\ KindHolds(e, m, d) /\ DayHolds(c, m, today)
             /\ "midnight" \notin drift' => DayHolds(e, d, today)
      BY <3>1
    <3> DEFINE fo == ApplyFolders(folders, c)
               ki == ApplyKinds(kinds, c)
               da == ApplyDays(days, c, today)
    <3>3. Change(c)
      BY <2>1, <3>2, TellsChange
    <3>4. fo \in [Paths -> Row] /\ ki \in [KindRows -> Row] /\ da \in [DayRows -> Row]
      BY <1>2, <3>3, ChangeTypes
    <3>5. Plain(da)
      BY <1>1, <1>2, <3>3, DaysPlain
    <3>6. True(fo, ki, da, m, cut, kindly, daily)
      BY <1>1, <1>2, <2>1, <2>2, <2>3, <3>2, AllApply
    <3>7. (kindly => KindHolds(e, m, d)) /\ (daily => KindHolds(e, m, d) /\ DayHolds(e, d, today))
      BY <2>4, <3>2
    <3>8. /\ folders' = ApplyFolders(fo, e) /\ kinds' = ApplyKinds(ki, e)
          /\ days' = ApplyDays(da, e, today)
      BY <3>1
    <3> HIDE DEF fo, ki, da
    <3>9. True(ApplyFolders(fo, e), ApplyKinds(ki, e), ApplyDays(da, e, today), d, cut, kindly, daily)
      BY <1>1, <1>2, <2>1, <2>3, <3>2, <3>4, <3>5, <3>6, <3>7, AllApply
    <3> QED BY <3>8, <3>9
  <2> QED BY <2>6, <2>7
<1>8. Shown(app', drift', folders', kinds', days', cut', d)
  BY <1>3, <1>7 DEF Shown
<1>9. Shown(app', drift', folders', kinds', days', cut', Booked')
  BY <1>8 DEF Booked, BookedOf
<1>10. (cut <= today)'
  BY <1>1, <1>3
<1> QED BY <1>4, <1>5, <1>6, <1>9, <1>10 DEF AInv

-----------------------------------------------------------------------------
(* A rebuild that nothing overlapped, and the rest.                        *)

LEMMA FoldsTrue ==
    ASSUME TInv, NEW b \in Buckets, NEW from
    PROVE  True(ReplaceFolders(FoldFolders(b)), FoldKinds(b), FoldDays(b, from), b, from, TRUE, TRUE)
<1> DEFINE fold == FoldFolders(b)
           t == ReplaceFolders(fold)
<1>1. fold \in [Paths -> Row]
  BY FoldsTyped
<1>2. \A p \in Paths : /\ t[p].count = fold[p].count /\ t[p].bytes = fold[p].bytes
                       /\ t[p].explicit = folders[p].explicit
                       /\ t[p].there = (fold[p].there \/ folders[p].explicit)
  BY <1>1, ReplacedRows
<1>3. \A p \in Paths \ {<<>>} : fold[p].there <=> fold[p].count > 0
  <2> SUFFICES ASSUME NEW p \in Paths \ {<<>>} PROVE fold[p].there <=> fold[p].count > 0
    OBVIOUS
  <2> DEFINE S == FolderKeys(b, p)
             A == AgainKeys(b, p)
  <2>1. S \in SUBSET Stored(b) /\ A = {} /\ A \in SUBSET Stored(b)
    BY NotListedAgain DEF FolderKeys
  <2>2. fold[p].count = Cardinality(S) + Cardinality(A) /\ fold[p].there = (S # {})
    BY FolderRow
  <2> HIDE DEF S, A, fold
  <2>3. (Cardinality(S) > 0 <=> S # {}) /\ Cardinality(S) \in Nat /\ Cardinality(A) = 0
    BY <2>1, Countable
  <2>4. fold[p].there <=> S # {}
    BY <2>2, Zenon
  <2>5. fold[p].count > 0 <=> S # {}
    BY <2>2, <2>3
  <2> QED BY <2>4, <2>5, Zenon
<1>4. Agree(t, fold)
  <2> HIDE DEF t, fold
  <2> QED BY <1>2, AgreeOver, FoldDomains DEF fold
<1>5. FoldersTrue(t, b)
  <2>1. \A p \in Paths \ {<<>>} : t[p].there <=> t[p].explicit \/ t[p].count > 0
    BY <1>2, <1>3
  <2> QED BY <1>4, <2>1 DEF FoldersTrue
<1>6. KindsTrue(FoldKinds(b), b) /\ DaysTrue(FoldDays(b, from), b, from)
  BY DEF KindsTrue, DaysTrue, Agree
<1> QED BY <1>5, <1>6 DEF True

\* With no other request under way the bucket is all there is to show.
LEMMA Quiet ==
    ASSUME TInv, NEW w \in Requests, work' = [work EXCEPT ![w] = Over], bucket' = bucket,
           \A v \in Requests \ {w} : Touched(work[v]) = {}
    PROVE  Undrifted(work', bucket') /\ BookedOf(work', bucket') = bucket
<1> DEFINE u == [work EXCEPT ![w] = Over]
<1>1. work \in [Requests -> Request] /\ bucket \in Buckets
  BY DEF TInv, TypeOK, Buckets
<1>2. Over \in Request /\ Over.op = "" /\ Touched(Over) = {}
  BY NewIs, TouchedIs
<1>3. u \in [Requests -> Request]
  BY <1>1, <1>2
<1>4. \A v \in Requests : Touched(u[v]) = {}
  BY <1>1, <1>2
<1>5. work' = u /\ bucket' = bucket
  OBVIOUS
<1> HIDE DEF u
<1>6. ASSUME NEW v \in Requests PROVE Reads(u[v], bucket)
  <2>1. u[v].op = ""
    BY <1>3, <1>4, TouchedIs
  <2> QED BY <2>1, IdleReads
<1>7. Disjoint(u)
  BY <1>4 DEF Disjoint
<1>8. \A k \in Keys : BookedOf(u, bucket)[k] = bucket[k]
  BY <1>4, BookedElse
<1>9. BookedOf(u, bucket) = bucket
  BY <1>1, <1>3, <1>8, BookedTyped, SameBuckets
<1> QED BY <1>5, <1>6, <1>7, <1>9 DEF Undrifted

LEMMA ReplaceTrue ==
    ASSUME AInv, NEW w \in Requests, Replace(w)
    PROVE  AInv'
<1> DEFINE s == work[w].seen
           from == today - Window
<1>1. /\ folders' = ReplaceFolders(FoldFolders(s)) /\ kinds' = FoldKinds(s)
      /\ days' = FoldDays(s, from) /\ cut' = from
      /\ work' = [work EXCEPT ![w] = Over] /\ bucket' = bucket /\ today' = today
      /\ drift' = IF s = bucket /\ \A v \in Requests \ {w} : Touched(work[v]) = {}
                  THEN {} ELSE drift \cup {"raced"}
  BY DEF Replace
<1>2. TInv /\ TInv'
  BY ReplaceTyped DEF AInv
<1>3. s \in Buckets
  BY <1>2, AtStep, RequestFields
<1>4. Plain(days')
  BY <1>1, <1>3, FoldsTyped
<1>5. cut' <= today'
  BY <1>1, <1>2, DaysAssumption DEF TInv, TypeOK, Days
<1> HIDE DEF s, from
<1>6. CASE "raced" \in drift'
  <2>1. RInv' /\ Shown(app', drift', folders', kinds', days', cut', Booked')
    BY <1>6 DEF RInv, Shown
  <2> QED BY <1>2, <1>4, <1>5, <2>1 DEF AInv
<1>7. CASE "raced" \notin drift'
  <2>1. s = bucket /\ \A v \in Requests \ {w} : Touched(work[v]) = {}
    BY <1>1, <1>7
  <2>2. Undrifted(work', bucket') /\ BookedOf(work', bucket') = bucket
    BY <1>1, <1>2, <2>1, Quiet
  <2>3. RInv'
    BY <2>2 DEF RInv
  <2>4. True(folders', kinds', days', s, from, TRUE, TRUE)
    BY <1>1, <1>2, <1>3, FoldsTrue
  <2>5. Booked' = s
    BY <2>1, <2>2 DEF Booked, BookedOf
  <2>6. Shown(app', drift', folders', kinds', days', cut', Booked')
    BY <1>1, <2>4, <2>5 DEF Shown, True
  <2> QED BY <1>2, <1>4, <1>5, <2>3, <2>6 DEF AInv
<1> QED BY <1>6, <1>7

LEMMA CreateFolderTrue ==
    ASSUME AInv, NEW f \in NewFolders, CreateFolder(f)
    PROVE  AInv'
<1>1. UNCHANGED <<app, bucket, kinds, days, cut, today, work, drift>>
  BY DEF CreateFolder
<1>2. TInv /\ TInv'
  BY NextTyped DEF AInv, Next
<1>3. RInv' /\ Booked' = Booked
  BY <1>1 DEF AInv, RInv, Booked
<1>4. (cut <= today)' /\ Plain(days')
  BY <1>1 DEF AInv
<1>5. \A p \in Paths :
         /\ folders'[p].count = folders[p].count /\ folders'[p].bytes = folders[p].bytes
         /\ \/ folders'[p] = folders[p]
            \/ folders'[p].there /\ folders'[p].explicit
  BY <1>2, CreatedRows
<1>6. ASSUME NEW b, FoldersTrue(folders, b) PROVE FoldersTrue(folders', b)
  <2>1. \A p \in Paths : /\ folders[p].count = FoldFolders(b)[p].count
                         /\ folders[p].bytes = FoldFolders(b)[p].bytes
    BY <1>6, AgreeOver, FoldDomains DEF FoldersTrue
  <2>2. Agree(folders', FoldFolders(b))
    BY <1>5, <2>1, AgreeOver, FoldDomains
  <2>3. \A p \in Paths \ {<<>>} : folders'[p].there <=> folders'[p].explicit \/ folders'[p].count > 0
    BY <1>5, <1>6 DEF FoldersTrue
  <2> QED BY <2>2, <2>3 DEF FoldersTrue
<1>7. Shown(app', drift', folders', kinds', days', cut', Booked')
  BY <1>1, <1>3, <1>6 DEF AInv, Shown, True
<1> QED BY <1>2, <1>3, <1>4, <1>7 DEF AInv

LEMMA DeleteAppTrue ==
    ASSUME AInv, DeleteApp
    PROVE  AInv'
<1>1. UNCHANGED <<bucket, cut, today, work, drift>> /\ app' = FALSE /\ days' = [x \in DayRows |-> NoRow]
  BY DEF DeleteApp
<1>2. TInv /\ TInv'
  BY NextTyped DEF AInv, Next
<1>3. RInv' /\ (cut <= today)'
  BY <1>1 DEF AInv, RInv
<1>4. Plain(days')
  BY <1>1, NoRowIs DEF Plain
<1>5. Shown(app', drift', folders', kinds', days', cut', Booked')
  BY <1>1 DEF Shown
<1> QED BY <1>2, <1>3, <1>4, <1>5 DEF AInv

LEMMA InitTrue == Init => AInv
<1> SUFFICES ASSUME Init PROVE AInv
  OBVIOUS
<1>1. TInv
  BY InitTyped
<1>2. /\ folders = FoldFolders(bucket) /\ kinds = FoldKinds(bucket) /\ days = FoldDays(bucket, 0)
      /\ cut = 0 /\ today = 0 /\ work = [w \in Requests |-> New]
  BY DEF Init
<1>3. bucket \in Buckets
  BY <1>1 DEF TInv, TypeOK, Buckets
<1>4. \A w \in Requests : Touched(work[w]) = {} /\ work[w].op = ""
  BY <1>2, NewIs, TouchedIs
<1>5. Undrifted(work, bucket)
  BY <1>4, IdleReads DEF Undrifted, Disjoint
<1>6. RInv
  BY <1>5 DEF RInv
<1>7. Booked = bucket
  <2>1. \A k \in Keys : BookedOf(work, bucket)[k] = bucket[k]
    BY <1>4, BookedElse
  <2>2. work \in [Requests -> Request]
    BY <1>1 DEF TInv, TypeOK
  <2> QED BY <1>3, <2>1, <2>2, BookedTyped, SameBuckets, BookedIs
<1>8. Plain(days)
  BY <1>2, <1>3, FoldsTyped
<1>9. True(folders, kinds, days, bucket, cut, TRUE, TRUE)
  <2> DEFINE fold == FoldFolders(bucket)
             t == ReplaceFolders(fold)
  <2>1. True(t, kinds, days, bucket, cut, TRUE, TRUE)
    BY <1>1, <1>2, <1>3, FoldsTrue
  <2>2. \A p \in Paths : folders[p].explicit = FALSE
    BY <1>2, <1>3, FolderRow
  <2>3. fold \in [Paths -> Row]
    BY <1>3, FoldsTyped
  <2>4. \A p \in Paths : /\ t[p].count = fold[p].count /\ t[p].explicit = folders[p].explicit
                         /\ t[p].there = (fold[p].there \/ folders[p].explicit)
    BY <1>1, <2>3, ReplacedRows
  <2>5. \A p \in Paths : fold[p].there \in BOOLEAN
    BY <2>3, RowFields
  <2>6. folders = fold
    BY <1>2
  <2> HIDE DEF fold, t
  <2>7. \A p \in Paths \ {<<>>} : t[p].there <=> t[p].explicit \/ t[p].count > 0
    BY <2>1 DEF True, FoldersTrue
  <2>8. \A p \in Paths \ {<<>>} : folders[p].there <=> folders[p].explicit \/ folders[p].count > 0
    BY <2>2, <2>4, <2>5, <2>6, <2>7
  <2>9. Agree(folders, FoldFolders(bucket))
    BY <1>2 DEF Agree
  <2> QED BY <2>1, <2>8, <2>9 DEF True, FoldersTrue
<1>10. Shown(app, drift, folders, kinds, days, cut, Booked)
  BY <1>7, <1>9 DEF Shown, True
<1> QED BY <1>1, <1>2, <1>6, <1>8, <1>10 DEF AInv

LEMMA NextTrue ==
    ASSUME AInv, [Next]_vars
    PROVE  AInv'
<1>1. TInv /\ RInv /\ TInv'
  BY NextTyped DEF AInv
<1>2. today \in Int
  BY <1>1 DEF TInv, TypeOK, Days
<1>3. ASSUME NEW w \in Requests,
             \/ \E k \in Keys, x \in Contents : Put(w, k, x)
             \/ \E k \in Keys : Delete(w, k)
             \/ \E k, to \in Keys : Move(w, k, to)
             \/ Rebuild(w)
      PROVE  AInv'
  <2>1. Still
    BY <1>1, <1>3, ArriveStill
  <2>2. UNCHANGED <<app, folders, kinds, days, cut, today>> /\ drift \subseteq drift'
    BY <1>3 DEF Put, Delete, Move, Rebuild, Arrive
  <2> QED BY <1>1, <1>2, <2>1, <2>2, Kept
<1>4. ASSUME NEW w \in Requests, CheckTaken(w) \/ ReadSource(w) \/ List(w)
      PROVE  AInv'
  <2>1. Still
    BY <1>1, <1>4, GoStill
  <2>2. UNCHANGED <<app, folders, kinds, days, cut, today, drift>>
    BY <1>4 DEF CheckTaken, ReadSource, List, Goes
  <2> QED BY <1>1, <1>2, <2>1, <2>2, Kept
<1>5. ASSUME NEW w \in Requests, Store(w) \/ Remove(w)
      PROVE  AInv'
  <2>1. Still
    BY <1>1, <1>5, StoreStill, RemoveStill
  <2>2. UNCHANGED <<app, folders, kinds, days, cut, today, drift>>
    BY <1>5 DEF Store, Remove
  <2> QED BY <1>1, <1>2, <2>1, <2>2, Kept
<1>6. ASSUME NEW w \in Requests, Fail(w)
      PROVE  AInv'
  <2>1. Still
    BY <1>1, <1>6, FailStill
  <2>2. UNCHANGED <<app, folders, kinds, days, cut, today>> /\ drift \subseteq drift'
    BY <1>6 DEF Fail
  <2> QED BY <1>1, <1>2, <2>1, <2>2, Kept
<1>7. CASE Midnight \/ UNCHANGED vars
  <2>1. UNCHANGED <<app, bucket, folders, kinds, days, cut, work, drift>>
    BY <1>7 DEF Midnight, vars
  <2>2. Still
    BY <1>1, <2>1 DEF Still, RInv, Booked
  <2>3. today <= today'
    BY <1>2, <1>7 DEF Midnight, vars
  <2> QED BY <1>1, <2>1, <2>2, <2>3, Kept
<1> QED BY <1>3, <1>4, <1>5, <1>6, <1>7, BookTrue, ReplaceTrue, CreateFolderTrue, DeleteAppTrue DEF Next

LEMMA AInvBooked == AInv => Booked \in Buckets /\ bucket \in Buckets
<1> SUFFICES ASSUME AInv PROVE Booked \in Buckets /\ bucket \in Buckets
  OBVIOUS
<1>1. work \in [Requests -> Request] /\ bucket \in Buckets
  BY DEF AInv, TInv, TypeOK, Buckets
<1> QED BY <1>1, BookedTyped, BookedIs

\* While no two requests overlapped on a key and none was cut short after it had changed
\* the bucket, every row of asset_folders has the count and the bytes of the objects
\* beneath it, and only folders that hold something or were made on purpose have a row.
\* The row of the root has those of the keys with a leading slash once more.
THEOREM FoldersInvariance == Spec => []FoldersAreTrue
<1>1. Init => AInv
  BY InitTrue
<1>2. AInv /\ [Next]_vars => AInv'
  BY NextTrue
<1>3. AInv => FoldersAreTrue
  BY AInvBooked, ShownIs DEF AInv
<1> QED BY <1>1, <1>2, <1>3, PTL DEF Spec

\* So have the totals by kind, while no write changed the kind of an object, and the daily
\* series since its cut, while midnight came between no storing and its booking.
THEOREM TotalsInvariance == Spec => []TotalsAreTrue
<1>1. Init => AInv
  BY InitTrue
<1>2. AInv /\ [Next]_vars => AInv'
  BY NextTrue
<1>3. AInv => TotalsAreTrue
  BY AInvBooked, ShownIs DEF AInv
<1> QED BY <1>1, <1>2, <1>3, PTL DEF Spec

-----------------------------------------------------------------------------
(* Names and paths.                                                        *)

\* Some positions of a sequence have a first and a last.
LEMMA Ends ==
    ASSUME NEW n \in Nat, NEW I, I \subseteq 1..n, I # {}
    PROVE  /\ First(I) \in I /\ \A j \in I : First(I) <= j
           /\ Last(I) \in I /\ \A j \in I : j <= Last(I)
<1>1. \E i \in I : \A j \in I : i <= j
  <2> DEFINE D == {1..i : i \in I}
             S == 1..n
  <2>1. IsFiniteSet(S)
    BY FS_Interval
  <2>2. D \subseteq SUBSET S /\ D # {}
    <3>1. \A i \in I : 1..i \subseteq S
      OBVIOUS
    <3> HIDE DEF S
    <3> QED BY <3>1, Zenon
  <2>3. PICK B \in D : \A C \in D : ~(C \subseteq B /\ C # B)
    <3> HIDE DEF D, S
    <3> QED BY <2>1, <2>2, SmallestIn
  <2>4. PICK i \in I : B = 1..i
    OBVIOUS
  <2>5. ASSUME NEW j \in I PROVE i <= j
    <3>1. i \in Int /\ j \in Int /\ i >= 1
      OBVIOUS
    <3>2. ASSUME j < i PROVE FALSE
      <4>1. 1..j \subseteq B /\ i \in B /\ i \notin 1..j
        BY <2>4, <3>1, <3>2
      <4>2. 1..j # B
        BY <4>1
      <4>3. 1..j \in D
        OBVIOUS
      <4> QED BY <2>3, <4>1, <4>2, <4>3
    <3> QED BY <3>1, <3>2
  <2> QED BY <2>5
<1>2. \E i \in I : \A j \in I : j <= i
  <2> DEFINE D == {i..n : i \in I}
             S == 1..n
  <2>1. IsFiniteSet(S)
    BY FS_Interval
  <2>2. D \subseteq SUBSET S /\ D # {}
    <3>1. \A i \in I : i..n \subseteq S
      OBVIOUS
    <3> HIDE DEF S
    <3> QED BY <3>1, Zenon
  <2>3. PICK B \in D : \A C \in D : ~(C \subseteq B /\ C # B)
    <3> HIDE DEF D, S
    <3> QED BY <2>1, <2>2, SmallestIn
  <2>4. PICK i \in I : B = i..n
    OBVIOUS
  <2>5. ASSUME NEW j \in I PROVE j <= i
    <3>1. i \in Int /\ j \in Int /\ i <= n
      OBVIOUS
    <3>2. ASSUME i < j PROVE FALSE
      <4>1. j..n \subseteq B /\ i \in B /\ i \notin j..n
        BY <2>4, <3>1, <3>2
      <4>2. j..n # B
        BY <4>1
      <4>3. j..n \in D
        OBVIOUS
      <4> QED BY <2>3, <4>1, <4>2, <4>3
    <3> QED BY <3>1, <3>2
  <2> QED BY <2>5
<1> QED BY <1>1, <1>2 DEF First, Last

LEMMA InNamed ==
    ASSUME NEW p \in Seq(STRING), NEW i \in 1..Len(p)
    PROVE  i \in Named(p) <=> p[i] # NoName
BY NamedAre

LEMMA NamedEnds ==
    ASSUME NEW p \in Seq(STRING), Named(p) # {}
    PROVE  /\ First(Named(p)) \in 1..Len(p) /\ Last(Named(p)) \in 1..Len(p)
           /\ \A j \in Named(p) : First(Named(p)) <= j /\ j <= Last(Named(p))
           /\ p[Last(Named(p))] # NoName
<1>1. Named(p) \subseteq 1..Len(p) /\ Len(p) \in Nat
  BY NamedAre
<1>2. \A j \in Named(p) : p[j] # NoName
  BY NamedAre
<1> QED BY <1>1, <1>2, Ends

LEMMA TrimIs ==
    ASSUME NEW p \in Seq(STRING)
    PROVE  /\ Trim(p) \in Seq(STRING)
           /\ (\A i \in 1..Len(p) : p[i] # NoName) => Trim(p) = p
<1>1. CASE Named(p) = {}
  <2>1. Trim(p) = <<>>
    BY <1>1 DEF Trim
  <2>2. ASSUME \A i \in 1..Len(p) : p[i] # NoName PROVE p = <<>>
    <3>1. 1 \notin 1..Len(p)
      BY <1>1, <2>2, InNamed
    <3> QED BY <3>1
  <2> QED BY <2>1, <2>2
<1>2. CASE Named(p) # {}
  <2> DEFINE a == First(Named(p))
             z == Last(Named(p))
  <2>1. Trim(p) = SubSeq(p, a, z)
    BY <1>2 DEF Trim
  <2>2. /\ a \in 1..Len(p) /\ z \in 1..Len(p) /\ Len(p) \in Nat
        /\ \A j \in Named(p) : a <= j /\ j <= z
    BY <1>2, NamedEnds
  <2>3. ASSUME \A i \in 1..Len(p) : p[i] # NoName PROVE a = 1 /\ z = Len(p)
    <3> HIDE DEF a, z
    <3>1. 1 \in 1..Len(p) /\ Len(p) \in 1..Len(p)
      BY <2>2
    <3>2. 1 \in Named(p) /\ Len(p) \in Named(p)
      BY <2>3, <3>1, InNamed
    <3>3. a <= 1 /\ Len(p) <= z
      BY <2>2, <3>2
    <3> QED BY <2>2, <3>3
  <2> HIDE DEF a, z
  <2>4. SubSeq(p, a, z) \in Seq(STRING)
    BY <2>2
  <2>5. SubSeq(p, 1, Len(p)) = p
    OBVIOUS
  <2> QED BY <2>1, <2>3, <2>4, <2>5
<1> QED BY <1>1, <1>2

\* A name is never empty; and that of a path is its last segment, unless this is.
LEMMA BaseIs ==
    ASSUME NEW p \in Seq(STRING)
    PROVE  /\ Base(p) \in Names /\ Base(p) # NoName
           /\ p # <<>> /\ p[Len(p)] # NoName => Base(p) = p[Len(p)]
<1>1. Base(p) = IF Named(p) = {} THEN Dot ELSE p[Last(Named(p))]
  BY Zenon DEF Base, Dot
<1>2. Dot # NoName
  BY Zenon DEF Dot, NoName
<1>3. CASE Named(p) = {}
  <2>1. p # <<>> => p[Len(p)] = NoName
    <3>1. p # <<>> => Len(p) \in DOMAIN p
      OBVIOUS
    <3> QED BY <1>3, <3>1, NamedAre
  <2> QED BY <1>1, <1>2, <1>3, <2>1 DEF Names
<1>4. CASE Named(p) # {}
  <2> DEFINE z == Last(Named(p))
  <2>1. Base(p) = p[z]
    BY <1>1, <1>4
  <2>2. /\ z \in 1..Len(p) /\ Len(p) \in Nat
        /\ \A i \in Named(p) : i <= z
        /\ p[z] # NoName
    BY <1>4, NamedEnds
  <2>3. ASSUME p # <<>>, p[Len(p)] # NoName PROVE z = Len(p)
    <3>1. Len(p) \in Named(p)
      BY <2>3, NamedAre
    <3> HIDE DEF z
    <3> QED BY <2>2, <3>1
  <2> HIDE DEF z
  <2>4. p[z] \in Names
    BY <2>2 DEF Names
  <2> QED BY <2>1, <2>2, <2>3, <2>4
<1> QED BY <1>3, <1>4

-----------------------------------------------------------------------------
(* The levels of the tree.                                                 *)

\* What is shown has a name.
LEMMA ShownPaths ==
    ASSUME NEW f \in Seq(STRING), NEW p \in Prefixes(f) \cup Children(f)
    PROVE  p \in Seq(STRING)
<1>1. CASE p \in Children(f)
  BY <1>1, PathsAreSequences, ChildrenAre
<1>2. CASE p \in Prefixes(f)
  <2>1. PICK k \in Stored(bucket) : p = SubSeq(k, 1, Len(f) + 1) /\ Len(k) > Len(f) + 1
    BY <1>2 DEF Prefixes
  <2>2. k \in Seq(STRING) /\ Len(k) \in Nat /\ Len(f) \in Nat
    BY PathsAreSequences DEF Stored
  <2> DEFINE i == Len(f) + 1
  <2>3. i \in 0..Len(k) /\ p = SubSeq(k, 1, i)
    BY <2>1, <2>2
  <2> HIDE DEF i
  <2> QED BY <2>2, <2>3, PrefixOfPrefix
<1> QED BY <1>1, <1>2

LEMMA NamesShown ==
    ASSUME NEW f \in Seq(STRING)
    PROVE  /\ DOMAIN FoldLevel(f).folders = {Base(p) : p \in Prefixes(f) \cup Children(f)}
           /\ \A n \in DOMAIN FoldLevel(f).folders : n \in Names /\ n # NoName
<1>1. DOMAIN FoldLevel(f).folders = {Base(p) : p \in Prefixes(f) \cup Children(f)}
  BY DEF FoldLevel
<1>2. \A p \in Prefixes(f) \cup Children(f) : Base(p) \in Names /\ Base(p) # NoName
  BY ShownPaths, BaseIs
<1> QED BY <1>1, <1>2

\* A folder of a key that has a name shows in the level above it.
LEMMA FolderShows ==
    ASSUME NEW k \in Stored(bucket), NEW i \in 1..(Len(k) - 1), k[i] # NoName
    PROVE  k[i] \in DOMAIN FoldLevel(SubSeq(k, 1, i - 1)).folders
<1> DEFINE f == SubSeq(k, 1, i - 1)
           p == SubSeq(k, 1, i)
<1>1. k \in Keys /\ k \in Seq(STRING) /\ Len(k) \in Nat
  BY PathsAreSequences DEF Stored
<1>2. i \in 0..Len(k) /\ i - 1 \in 0..Len(k) /\ i \in Int /\ Len(k) > i /\ i > 0
  BY <1>1
<1>3. f \in Seq(STRING) /\ Len(f) = i - 1 /\ p \in Seq(STRING) /\ Len(p) = i
  BY <1>1, <1>2, PrefixOfPrefix
<1>4. p[i] = k[i]
  BY <1>1, <1>2
<1> HIDE DEF f, p
<1>5. p \in Prefixes(f)
  <2>1. Len(f) + 1 = i /\ Len(k) > Len(f)
    BY <1>1, <1>2, <1>3
  <2>2. SubSeq(k, 1, Len(f)) = f /\ SubSeq(k, 1, Len(f) + 1) = p
    BY <1>3, <2>1 DEF f, p
  <2> QED BY <1>2, <2>1, <2>2 DEF Prefixes, Beneath
<1>6. p # <<>> /\ p[Len(p)] # NoName
  BY <1>2, <1>3, <1>4
<1>7. Base(p) = k[i]
  BY <1>3, <1>4, <1>6, BaseIs
<1>8. k[i] \in DOMAIN FoldLevel(f).folders
  BY <1>3, <1>5, <1>7, NamesShown
<1> QED BY <1>8 DEF f

\* An object shows in the level it is in.
LEMMA ObjectShows ==
    ASSUME NEW k \in Stored(bucket)
    PROVE  k \in Objects(SubSeq(k, 1, Len(k) - 1))
<1> DEFINE i == Len(k) - 1
           f == SubSeq(k, 1, i)
<1>1. k \in Keys /\ k \in Seq(STRING) /\ Len(k) \in Nat /\ Len(k) > 0
  BY PathsAreSequences DEF Stored
<1>2. i \in 0..Len(k) /\ i + 1 = Len(k) /\ Len(k) > i
  BY <1>1
<1> HIDE DEF i
<1>3. Len(f) = i
  BY <1>1, <1>2, PrefixOfPrefix
<1>4. f = SubSeq(k, 1, i)
  OBVIOUS
<1> HIDE DEF f
<1>5. Beneath(k, f) /\ Len(k) = Len(f) + 1
  BY <1>2, <1>3, <1>4 DEF Beneath
<1>6. k \in Objects(f)
  BY <1>5 DEF Objects
<1> QED BY <1>6 DEF f, i

LEMMA NameAdded ==
    ASSUME NEW f \in Seq(STRING), NEW n \in Names
    PROVE  LET q == Append(f, n)
           IN  /\ Len(q) = Len(f) + 1 /\ q[Len(f) + 1] = n /\ SubSeq(q, 1, Len(f)) = f
               /\ Len(f) \in Nat /\ Len(q) > Len(f) /\ Len(q) \in Nat /\ Len(q) > 0
<1>1. STRING \subseteq Names
  BY DEF Names
<1> HIDE DEF Names
<1>2. f \in Seq(Names)
  BY <1>1, SeqMonotone
<1> QED BY <1>2

\* What is stored in a folder that has a name shows as a row, while the rows are true.
LEMMA RowShows ==
    ASSUME bucket \in Buckets, Exact(folders, bucket),
           NEW f \in Seq(STRING), NEW n \in Names, n # NoName, Under(bucket, Append(f, n)) # {}
    PROVE  Append(f, n) \in Children(f)
<1> DEFINE q == Append(f, n)
           i == Len(f) + 1
<1>1. /\ Len(q) = i /\ q[i] = n /\ SubSeq(q, 1, Len(f)) = f
      /\ Len(f) \in Nat /\ Len(q) > Len(f) /\ Len(q) = Len(f) + 1 /\ Len(q) \in Nat /\ Len(q) > 0
  BY NameAdded
<1> HIDE DEF q, i
<1>2. q # <<>> /\ q # Slash
  <2>1. q # <<>>
    BY <1>1
  <2>2. ASSUME q = Slash PROVE FALSE
    <3>1. Len(q) = 1 /\ q[1] = NoName
      BY <2>2, SlashIs
    <3> QED BY <1>1, <3>1
  <2> QED BY <2>1, <2>2
<1>3. PICK k \in Stored(bucket) : Beneath(k, q)
  BY DEF Under, q
<1>4. q \in Paths
  <2>1. k \in Keys
    BY DEF Stored
  <2>2. q \in AncestorPaths(k)
    BY <1>1, <1>2, <1>3, <2>1, BeneathIs
  <2> QED BY <2>1, <2>2 DEF Paths
<1>5. folders[q].there
  <2>1. Under(bucket, q) # {}
    BY DEF q
  <2> QED BY <1>2, <1>4, <2>1 DEF Exact
<1>6. q \in Children(f)
  BY <1>1, <1>4, <1>5, ChildrenAre DEF Beneath
<1> QED BY <1>6 DEF q

LEMMA NumbersShown ==
    ASSUME bucket \in Buckets, Exact(folders, bucket), NEW f \in Seq(STRING),
           NEW n \in DOMAIN FoldLevel(f).folders
    PROVE  FoldLevel(f).folders[n] = Cardinality(Under(bucket, Append(f, n)))
<1> DEFINE q == Append(f, n)
<1>1. n \in Names /\ n # NoName
  BY NamesShown
<1>2. FoldLevel(f).folders[n] = IF q \in Children(f) THEN folders[q].count ELSE 0
  BY DEF FoldLevel
<1>3. Under(bucket, q) \in SUBSET Stored(bucket)
  BY DEF Under
<1>4. q # <<>>
  <2>1. Len(q) = Len(f) + 1 /\ Len(f) \in Nat
    BY <1>1, NameAdded
  <2> HIDE DEF q
  <2> QED BY <2>1
<1>5. Under(bucket, q) # {} => q \in Children(f)
  BY <1>1, RowShows
<1> HIDE DEF q
<1>6. CASE q \in Children(f)
  <2>1. q \in Paths
    BY <1>6, ChildrenAre
  <2>2. folders[q].count = Cardinality(Under(bucket, q))
    BY <1>4, <2>1 DEF Exact
  <2> QED BY <1>2, <1>6, <2>2 DEF q
<1>7. CASE q \notin Children(f)
  <2>1. Cardinality(Under(bucket, q)) = 0
    BY <1>3, <1>5, <1>7, Countable
  <2> QED BY <1>2, <1>7, <2>1 DEF q
<1> QED BY <1>6, <1>7

\* The level that is asked for is that of the path, if no segment of it is empty.
LEMMA LevelOf ==
    ASSUME NEW k \in Stored(bucket), NEW i \in 0..(Len(k) - 1), \A j \in 1..i : k[j] # NoName
    PROVE  ListFolder(SubSeq(k, 1, i)) = FoldLevel(SubSeq(k, 1, i))
<1> DEFINE f == SubSeq(k, 1, i)
<1>1. k \in Seq(STRING) /\ Len(k) \in Nat
  BY PathsAreSequences DEF Stored
<1>2. i \in 0..Len(k)
  BY <1>1
<1>3. f \in Seq(STRING) /\ Len(f) = i
  BY <1>1, <1>2, PrefixOfPrefix
<1>4. \A j \in 1..i : f[j] = k[j]
  BY <1>1, <1>2
<1> HIDE DEF f
<1>5. Trim(f) = f
  BY <1>3, <1>4, TrimIs
<1> QED BY <1>5 DEF ListFolder, f

LEMMA Walk ==
    ASSUME NEW k \in Stored(bucket)
    PROVE  LET n == Len(k) - 1
               met == /\ \A i \in 1..n : k[i] \in DOMAIN ListFolder(SubSeq(k, 1, i - 1)).folders
                      /\ k \in ListFolder(SubSeq(k, 1, n)).assets
           IN  met <=> \A i \in 1..n : k[i] # NoName
<1> DEFINE n == Len(k) - 1
<1>1. k \in Seq(STRING) /\ Len(k) \in Nat /\ Len(k) > 0
  BY PathsAreSequences DEF Stored
<1>2. ASSUME \A i \in 1..n : k[i] # NoName
      PROVE  /\ \A i \in 1..n : k[i] \in DOMAIN ListFolder(SubSeq(k, 1, i - 1)).folders
             /\ k \in ListFolder(SubSeq(k, 1, n)).assets
  <2>1. ASSUME NEW i \in 1..n
        PROVE  k[i] \in DOMAIN ListFolder(SubSeq(k, 1, i - 1)).folders
    <3>1. i - 1 \in 0..n /\ (\A j \in 1..(i - 1) : j \in 1..n)
      BY <1>1
    <3>2. ListFolder(SubSeq(k, 1, i - 1)) = FoldLevel(SubSeq(k, 1, i - 1))
      BY <1>2, <3>1, LevelOf
    <3> QED BY <1>2, <3>2, FolderShows
  <2>2. k \in ListFolder(SubSeq(k, 1, n)).assets
    <3>1. n \in 0..n
      BY <1>1
    <3>2. ListFolder(SubSeq(k, 1, n)) = FoldLevel(SubSeq(k, 1, n))
      BY <1>2, <3>1, LevelOf
    <3>3. k \in FoldLevel(SubSeq(k, 1, n)).assets
      BY ObjectShows DEF FoldLevel
    <3> QED BY <3>2, <3>3
  <2> QED BY <2>1, <2>2
<1>3. ASSUME NEW i \in 1..n, k[i] \in DOMAIN ListFolder(SubSeq(k, 1, i - 1)).folders
      PROVE  k[i] # NoName
  <2> DEFINE f == SubSeq(k, 1, i - 1)
  <2>1. i - 1 \in 0..Len(k)
    BY <1>1
  <2>2. f \in Seq(STRING)
    BY <1>1, <2>1, PrefixOfPrefix
  <2> HIDE DEF f
  <2>3. Trim(f) \in Seq(STRING)
    BY <2>2, TrimIs
  <2>4. k[i] \in DOMAIN FoldLevel(Trim(f)).folders
    BY <1>3 DEF ListFolder, f
  <2> QED BY <2>3, <2>4, NamesShown
<1> QED BY <1>2, <1>3

LEMMA LevelsHold == AInv => LevelsShowAll
<1> SUFFICES ASSUME AInv PROVE LevelsShowAll
  OBVIOUS
<1>1. Booked \in Buckets /\ bucket \in Buckets
  BY AInvBooked
<1>2. ASSUME Undisturbed({}), Booked = bucket, NEW p \in Paths, NEW n \in DOMAIN ListFolder(p).folders
      PROVE  ListFolder(p).folders[n] = Cardinality(Under(bucket, Append(Trim(p), n)))
  <2>1. Exact(folders, bucket)
    <3>1. FoldersAreTrue
      BY <1>1, ShownIs DEF AInv
    <3> QED BY <1>2, <3>1 DEF FoldersAreTrue, Exact
  <2>2. Trim(p) \in Seq(STRING)
    BY PathsAreSequences, TrimIs
  <2>3. ListFolder(p) = FoldLevel(Trim(p))
    BY DEF ListFolder
  <2>4. n \in DOMAIN FoldLevel(Trim(p)).folders
    BY <1>2, <2>3
  <2>5. FoldLevel(Trim(p)).folders[n] = Cardinality(Under(bucket, Append(Trim(p), n)))
    BY <1>1, <2>1, <2>2, <2>4, NumbersShown
  <2> QED BY <2>3, <2>5
<1>3. \A k \in Stored(bucket) :
         LET n == Len(k) - 1
             met == /\ \A i \in 1..n : k[i] \in DOMAIN ListFolder(SubSeq(k, 1, i - 1)).folders
                    /\ k \in ListFolder(SubSeq(k, 1, n)).assets
         IN  met <=> \A i \in 1..n : k[i] # NoName
  BY Walk
<1> QED BY <1>2, <1>3, Zenon DEF LevelsShowAll, NoName

\* Walking down from the root by the names that the levels show meets an asset, rows or
\* no rows, unless a folder in its key has no name; and while the rows are true the number
\* shown with a name is the number of assets stored under the path it leads to.
THEOREM LevelsInvariance == Spec => []LevelsShowAll
<1>1. Init => AInv
  BY InitTrue
<1>2. AInv /\ [Next]_vars => AInv'
  BY NextTrue
<1> QED BY <1>1, <1>2, LevelsHold, PTL DEF Spec

================================================================================
