--------------------------- MODULE FPGrowthProofs ---------------------------
(***************************************************************************)
(* Proofs about FPGrowth for every set of items, file, setting and minimum *)
(* count: what a conditional tree stands for, that the frames of the       *)
(* recursion hold the transactions of their patterns, and from these what  *)
(* is written to the output.                                               *)
(***************************************************************************)
EXTENDS FPGrowth, FPTreeProofs

-----------------------------------------------------------------------------
(* Items on a path.                                                        *)

(* Item a is nearer to the root than item b.                               *)
Before(p, a, b) == \E i, j \in DOMAIN p : i < j /\ p[i] = a /\ p[j] = b

(* On a route this is a strict total order of its items.                   *)
LEMMA BeforeIs ==
  ASSUME NEW p \in Routes
  PROVE  /\ \A a, b : Before(p, a, b) => /\ a \in On(p) /\ b \in On(p) /\ a # b
                                         /\ ~ Before(p, b, a)
         /\ \A a, b \in On(p) : a # b => Before(p, a, b) \/ Before(p, b, a)
         /\ \A a, b, c : Before(p, a, b) /\ Before(p, b, c) => Before(p, a, c)
<1>1. p \in Seq(Nat) /\ Len(p) \in Nat /\ DOMAIN p = 1 .. Len(p) /\ DOMAIN p \subseteq Nat
  BY SeqIs DEF Routes
<1>2. \A i, j \in DOMAIN p : p[i] = p[j] => i = j
  BY DEF Routes, Distinct
<1>3. ASSUME NEW a, NEW b, Before(p, a, b)
      PROVE  a \in On(p) /\ b \in On(p) /\ a # b /\ ~ Before(p, b, a)
  <2>1. PICK i \in DOMAIN p, j \in DOMAIN p : i < j /\ p[i] = a /\ p[j] = b
    BY <1>3 DEF Before
  <2>2. i # j /\ ~ (j < i)
    BY <1>1, <2>1
  <2>3. \A k, l \in DOMAIN p : p[k] = b /\ p[l] = a => k = j /\ l = i
    BY <1>2, <2>1
  <2>4. ~ Before(p, b, a)
    BY <2>2, <2>3 DEF Before
  <2>5. QED
    BY <1>2, <2>1, <2>2, <2>4 DEF On
<1>4. ASSUME NEW a \in On(p), NEW b \in On(p), a # b
      PROVE  Before(p, a, b) \/ Before(p, b, a)
  <2>1. PICK i \in DOMAIN p : p[i] = a
    BY DEF On
  <2>2. PICK j \in DOMAIN p : p[j] = b
    BY DEF On
  <2>3. i # j
    BY <1>4, <2>1, <2>2
  <2>4. i < j \/ j < i
    BY <1>1, <2>3
  <2>5. QED
    BY <2>1, <2>2, <2>4 DEF Before
<1>5. ASSUME NEW a, NEW b, NEW c, Before(p, a, b), Before(p, b, c) PROVE Before(p, a, c)
  <2>1. PICK i \in DOMAIN p, j \in DOMAIN p : i < j /\ p[i] = a /\ p[j] = b
    BY <1>5 DEF Before
  <2>2. PICK k \in DOMAIN p, l \in DOMAIN p : k < l /\ p[k] = b /\ p[l] = c
    BY <1>5 DEF Before
  <2>3. j = k
    BY <1>2, <2>1, <2>2
  <2>4. i < l
    BY <1>1, <2>1, <2>2, <2>3
  <2>5. QED
    BY <2>1, <2>2, <2>4 DEF Before
<1>6. QED
  BY <1>3, <1>4, <1>5

(* Of some items of a route one is lowest.                                 *)
LEMMA LowestIs ==
  ASSUME NEW p \in Routes, NEW X \in SUBSET On(p), X # {}
  PROVE  \E b \in X : \A a \in X : a = b \/ Before(p, a, b)
<1>1. p \in Seq(Nat) /\ Len(p) \in Nat /\ DOMAIN p = 1 .. Len(p) /\ DOMAIN p \subseteq Nat
  BY SeqIs DEF Routes
<1> DEFINE places == {j \in DOMAIN p : p[j] \in X}
<1>2. places \in SUBSET (0 .. Len(p)) /\ places # {}
  <2>1. places # {}
    BY DEF On
  <2>2. QED
    BY <1>1, <2>1
<1>3. PICK j \in places : \A i \in places : i <= j
  <2> HIDE DEF places
  <2>1. QED
    BY <1>1, <1>2, GreatestExists
<1>4. ASSUME NEW a \in X PROVE a = p[j] \/ Before(p, a, p[j])
  <2>1. PICK i \in DOMAIN p : p[i] = a
    BY DEF On
  <2>2. i <= j
    BY <1>3, <2>1
  <2>3. i = j \/ i < j
    BY <1>1, <2>2
  <2>4. QED
    BY <2>1, <2>3 DEF Before
<1>5. QED
  BY <1>4

(* The two ways to sort the places of a path: what both promise.           *)
SortedPlaces(places, kept, table) ==
  /\ places \in Seq(Nat) /\ Distinct(places) /\ On(places) = kept
  /\ \A i, j \in DOMAIN places : i < j => table[places[i]] >= table[places[j]]

(* SortItems also leaves equal ones as they are.                           *)
LEMMA ShortSort ==
  ASSUME NEW kept \in SUBSET Nat, IsFiniteSet(kept), NEW table \in [kept -> Nat]
  PROVE  LET places == SortItems(kept, table)
         IN /\ SortedPlaces(places, kept, table)
            /\ \A i, j \in DOMAIN places :
                 i < j /\ table[places[i]] = table[places[j]] => places[i] < places[j]
<1> DEFINE places == SortItems(kept, table)
<1>1. IsTable(table)
  BY DEF IsTable
<1>2. places \in Routes /\ On(places) = kept /\ Ordered(places, table)
  BY <1>1, SortItemsIs
<1> HIDE DEF places
<1>3. /\ places \in Seq(Nat) /\ DOMAIN places = 1 .. Len(places)
      /\ Distinct(places)
  BY <1>2, SeqIs DEF Routes
<1>4. ASSUME NEW i \in DOMAIN places, NEW j \in DOMAIN places, i < j
      PROVE  /\ table[places[i]] >= table[places[j]]
             /\ table[places[i]] = table[places[j]] => places[i] < places[j]
  <2>1. places[i] \in kept /\ places[j] \in kept
    BY <1>2 DEF On
  <2>2. ItemMapCmp(table, places[i], places[j])
    BY <1>1, <1>2, <1>3, <1>4, OrderedPairs
  <2>3. table[places[i]] \in Nat /\ table[places[j]] \in Nat
    BY <2>1
  <2>4. DOMAIN table = kept
    OBVIOUS
  <2>5. QED
    BY <2>1, <2>2, <2>3, <2>4 DEF ItemMapCmp
<1>5. QED
  BY <1>2, <1>3, <1>4 DEF SortedPlaces, places

(* StdSort, which is only assumed to give different places, gives all.     *)
LEMMA LongSort ==
  ASSUME NEW kept \in SUBSET Ids, NEW table \in [kept -> 0 .. MaxTxns]
  PROVE  SortedPlaces(StdSort(table), kept, table)
<1> DEFINE places == StdSort(table)
           n == Cardinality(kept)
<1>1. /\ places \in [1 .. n -> kept]
      /\ \A j, k \in DOMAIN places :
           j < k => /\ places[j] # places[k]
                    /\ table[places[j]] >= table[places[k]]
  BY SortAssumption
<1>2. IsFiniteSet(kept) /\ n \in Nat /\ kept \subseteq Nat
  <2>1. IsFiniteSet(Ids) /\ Ids \subseteq Nat
    BY MiningAssumption, FS_Interval DEF Ids
  <2>2. QED
    BY <2>1, FS_Subset, FS_CardinalityType
<1>3. IsFiniteSet(1 .. n) /\ Cardinality(1 .. n) = n
  <2> HIDE DEF n
  <2>1. QED
    BY <1>2, FS_Interval
<1> HIDE DEF places
<1>4. DOMAIN places = 1 .. n
  BY <1>1
<1>5. \A j, k \in 1 .. n : places[j] = places[k] => j = k
  <2>1. ASSUME NEW j \in 1 .. n, NEW k \in 1 .. n, places[j] = places[k], j # k PROVE FALSE
    <3> HIDE DEF n
    <3>1. j < k \/ k < j
      BY <1>2, <2>1
    <3>2. QED
      BY <1>1, <1>4, <2>1, <3>1
  <2>2. QED
    BY <2>1
<1>6. places \in Injection(1 .. n, kept)
  BY <1>1, <1>5 DEF Injection, IsInjective
<1>7. places \in Surjection(1 .. n, kept)
  BY <1>2, <1>3, <1>6, FS_Injection
<1> HIDE DEF n
<1>8. On(places) = kept
  <2>1. \A x \in kept : \E k \in 1 .. n : places[k] = x
    BY <1>7 DEF Surjection
  <2>2. \A k \in 1 .. n : places[k] \in kept
    BY <1>1
  <2>3. QED
    BY <1>4, <2>1, <2>2 DEF On
<1>9. places \in Seq(Nat)
  <2>1. places \in [1 .. n -> Nat]
    BY <1>1, <1>2
  <2>2. QED
    BY <1>2, <2>1
<1>10. Distinct(places)
  BY <1>4, <1>5 DEF Distinct
<1>11. QED
  BY <1>1, <1>8, <1>9, <1>10 DEF SortedPlaces, places

(* SortByFreq keeps the given items, by frequency, and few of them as they *)
(* were.                                                                   *)
LEMMA SortByFreqIs ==
  ASSUME NEW p \in Routes, On(p) \subseteq Ids, NEW items, NEW freq,
         \A a \in On(p) \cap items : freq[a] \in 0 .. MaxTxns
  PROVE  LET r == SortByFreq(p, items, freq)
         IN /\ r \in Routes /\ On(r) = On(p) \cap items
            /\ \A a, b : Before(r, a, b) =>
                 \/ freq[a] > freq[b]
                 \/ /\ freq[a] = freq[b]
                    /\ Cardinality(On(r)) <= setup.stable => Before(p, a, b)
<1> DEFINE kept   == {j \in DOMAIN p : p[j] \in items}
           table  == [j \in kept |-> freq[p[j]]]
           short  == Cardinality(kept) <= setup.stable
           places == IF short THEN SortItems(kept, table) ELSE StdSort(table)
           r      == [k \in DOMAIN places |-> p[places[k]]]
<1>1. /\ p \in Seq(Nat) /\ Len(p) \in Nat /\ DOMAIN p = 1 .. Len(p)
      /\ \A j \in DOMAIN p : p[j] \in Nat
      /\ \A i, j \in DOMAIN p : p[i] = p[j] => i = j
  BY SeqIs DEF Routes, Distinct
<1>2. kept \in SUBSET Ids /\ kept \in SUBSET Nat /\ IsFiniteSet(kept)
  <2>1. Len(p) <= NumItems
    BY MiningAssumption, RouteLength DEF Ids
  <2>2. kept \in SUBSET (1 .. Len(p))
    BY <1>1
  <2>3. IsFiniteSet(Ids) /\ Ids \subseteq Nat
    BY MiningAssumption, FS_Interval DEF Ids
  <2> HIDE DEF kept
  <2>4. kept \in SUBSET Ids
    BY <1>1, <2>1, <2>2, MiningAssumption DEF Ids
  <2>5. QED
    BY <2>3, <2>4, FS_Subset
<1>3. \A j \in kept : j \in DOMAIN p /\ p[j] \in items
  OBVIOUS
<1>4. table \in [kept -> 0 .. MaxTxns]
  <2>1. \A j \in kept : freq[p[j]] \in 0 .. MaxTxns
    BY DEF On
  <2> HIDE DEF kept
  <2>2. QED
    BY <2>1
<1>5. \A j \in kept : table[j] = freq[p[j]] /\ table[j] \in Nat
  BY <1>4, MiningAssumption
<1>6. SortByFreq(p, items, freq) = r
  BY DEF SortByFreq
<1>7. On(p) \cap items = {p[j] : j \in kept}
  BY DEF On
<1> HIDE DEF kept, table
<1>8. /\ SortedPlaces(places, kept, table)
      /\ short => \A i, j \in DOMAIN places :
                    i < j /\ table[places[i]] = table[places[j]] => places[i] < places[j]
  <2>1. table \in [kept -> Nat]
    BY <1>4, <1>5
  <2>2. CASE short
    BY <1>2, <2>1, <2>2, ShortSort
  <2>3. CASE ~ short
    BY <1>2, <1>4, <2>3, LongSort
  <2>4. QED
    BY <2>2, <2>3
<1> HIDE DEF places
<1>9. /\ places \in Seq(Nat) /\ Len(places) \in Nat /\ DOMAIN places = 1 .. Len(places)
      /\ Distinct(places) /\ On(places) = kept
  BY <1>8, SeqIs DEF SortedPlaces
<1>10. \A k \in DOMAIN places : places[k] \in kept
  BY <1>9 DEF On
<1>11. r \in Routes
  <2>1. \A k \in DOMAIN places : p[places[k]] \in Nat
    BY <1>1, <1>3, <1>10
  <2>2. r \in Seq(Nat)
    BY <1>9, <2>1
  <2>3. Distinct(r)
    BY <1>1, <1>3, <1>9, <1>10 DEF Distinct
  <2>4. QED
    BY <2>2, <2>3 DEF Routes
<1>12. On(r) = On(p) \cap items
  <2>1. On(r) = {p[places[k]] : k \in DOMAIN places}
    BY DEF On
  <2>2. On(places) = {places[k] : k \in DOMAIN places}
    BY DEF On
  <2>3. On(r) = {p[j] : j \in kept}
    BY <1>9, <2>1, <2>2
  <2>4. QED
    BY <1>7, <2>3
<1>13. Cardinality(On(r)) = Cardinality(kept)
  <2> DEFINE f == [j \in kept |-> p[j]]
             items2 == {p[j] : j \in kept}
  <2>1. f \in Bijection(kept, items2)
    BY <1>1, <1>3 DEF Bijection, Injection, Surjection, IsInjective
  <2>2. ExistsBijection(kept, items2)
    BY <2>1 DEF ExistsBijection
  <2>3. Cardinality(items2) = Cardinality(kept)
    <3> HIDE DEF items2
    <3>1. QED
      BY <1>2, <2>2, FS_Bijection
  <2>4. QED
    BY <1>7, <1>12, <2>3
<1>14. ASSUME NEW a, NEW b, Before(r, a, b)
       PROVE  \/ freq[a] > freq[b]
              \/ freq[a] = freq[b] /\ (short => Before(p, a, b))
  <2>1. PICK i \in DOMAIN places, j \in DOMAIN places :
           i < j /\ p[places[i]] = a /\ p[places[j]] = b
    BY <1>14 DEF Before
  <2>2. /\ places[i] \in kept /\ places[j] \in kept
        /\ table[places[i]] = freq[a] /\ table[places[j]] = freq[b]
        /\ freq[a] \in Nat /\ freq[b] \in Nat
    BY <1>5, <1>10, <2>1
  <2>3. freq[a] >= freq[b]
    BY <1>8, <2>1, <2>2 DEF SortedPlaces
  <2>4. short /\ freq[a] = freq[b] => places[i] < places[j]
    BY <1>8, <2>1, <2>2
  <2>5. places[i] < places[j] => Before(p, a, b)
    BY <1>3, <2>1, <2>2 DEF Before
  <2>6. QED
    BY <2>2, <2>3, <2>4, <2>5
<1>15. Cardinality(On(r)) <= setup.stable => short
  BY <1>13
<1>16. QED
  <2> HIDE DEF r, short
  <2>1. QED
    BY <1>6, <1>11, <1>12, <1>14, <1>15

-----------------------------------------------------------------------------
(* Building a tree from the nodes of another: FoldSet with InsertPath.     *)

(* The trees for all subsets of S: one node's path at a time.              *)
Folded(g, route, num, S) ==
  g = [s \in SUBSET S |->
         IF s = {} THEN Empty
         ELSE InsertPath(g[s \ {CHOOSE x \in s : TRUE}], route[CHOOSE x \in s : TRUE], 0,
                         num[CHOOSE x \in s : TRUE])]

SmallFolded(g, route, num, S, n) ==
  g = [s \in Small(S, n) |->
         IF s = {} THEN Empty
         ELSE InsertPath(g[s \ {CHOOSE x \in s : TRUE}], route[CHOOSE x \in s : TRUE], 0,
                         num[CHOOSE x \in s : TRUE])]

(* There is such a function.                                               *)
LEMMA FoldExists ==
  ASSUME NEW S, IsFiniteSet(S), NEW route, NEW num
  PROVE  \E g : Folded(g, route, num, S)
<1> DEFINE pick(s) == CHOOSE x \in s : TRUE
           bad == {n \in Nat : ~ \E g : SmallFolded(g, route, num, S, n)}
<1>1. \A s \in SUBSET S : IsFiniteSet(s) /\ Cardinality(s) \in Nat
  BY FS_Subset, FS_CardinalityType
<1>2. \A s \in SUBSET S : s # {} => pick(s) \in s
  OBVIOUS
<1> HIDE DEF pick
<1>3. ASSUME NEW n \in Nat, NEW s \in Small(S, n + 1), s # {}
      PROVE  s \ {pick(s)} \in Small(S, n)
  <2>1. s \in SUBSET S /\ Cardinality(s) <= n + 1 /\ s \ {pick(s)} \in SUBSET S
    BY <1>3 DEF Small
  <2>2. Cardinality(s \ {pick(s)}) = Cardinality(s) - 1
    BY <1>1, <1>2, <1>3, <2>1, FS_RemoveElement
  <2>3. QED
    BY <1>1, <2>1, <2>2 DEF Small
<1>4. \E g : SmallFolded(g, route, num, S, 0)
  <2> DEFINE g == [s \in Small(S, 0) |-> Empty]
  <2>1. \A s \in Small(S, 0) : s = {}
    <3>1. ASSUME NEW s \in Small(S, 0) PROVE s = {}
      <4>1. s \in SUBSET S /\ Cardinality(s) = 0
        BY <1>1 DEF Small
      <4>2. QED
        BY <1>1, <4>1, FS_EmptySet
    <3>2. QED
      BY <3>1
  <2>2. SmallFolded(g, route, num, S, 0)
    BY <2>1 DEF SmallFolded
  <2>3. QED
    BY <2>2
<1>5. ASSUME NEW n \in Nat, NEW g, SmallFolded(g, route, num, S, n)
      PROVE  \E h : SmallFolded(h, route, num, S, n + 1)
  <2> DEFINE next(s) == IF s = {} THEN Empty
                        ELSE InsertPath(g[s \ {pick(s)}], route[pick(s)], 0, num[pick(s)])
             h == [s \in Small(S, n + 1) |-> next(s)]
  <2>1. g = [s \in Small(S, n) |-> next(s)]
    BY <1>5 DEF SmallFolded, pick
  <2>2. ASSUME NEW s \in Small(S, n) PROVE s \in Small(S, n + 1) /\ h[s] = g[s]
    <3>1. s \in Small(S, n + 1)
      BY <1>1 DEF Small
    <3>2. h[s] = next(s)
      BY <3>1
    <3>3. g[s] = next(s)
      <4> HIDE DEF next
      <4>1. QED
        BY <2>1
    <3>4. QED
      BY <3>1, <3>2, <3>3
  <2>3. ASSUME NEW s \in Small(S, n + 1)
        PROVE  h[s] = IF s = {} THEN Empty
                      ELSE InsertPath(h[s \ {pick(s)}], route[pick(s)], 0, num[pick(s)])
    <3>1. h[s] = next(s)
      OBVIOUS
    <3>2. CASE s = {}
      BY <3>1, <3>2
    <3>3. CASE s # {}
      <4>1. h[s \ {pick(s)}] = g[s \ {pick(s)}]
        BY <1>3, <2>2, <3>3
      <4> HIDE DEF h
      <4>2. QED
        BY <3>1, <3>3, <4>1
    <3>4. QED
      BY <3>2, <3>3
  <2>4. h = [s \in Small(S, n + 1) |->
               IF s = {} THEN Empty
               ELSE InsertPath(h[s \ {pick(s)}], route[pick(s)], 0, num[pick(s)])]
    <3>1. h = [s \in Small(S, n + 1) |-> h[s]]
      OBVIOUS
    <3> HIDE DEF h
    <3>2. QED
      BY <2>3, <3>1
  <2> HIDE DEF h
  <2>5. SmallFolded(h, route, num, S, n + 1)
    BY <2>4 DEF SmallFolded, pick
  <2>6. QED
    BY <2>5
<1>6. bad = {}
  <2>1. SUFFICES ASSUME bad # {} PROVE FALSE
    OBVIOUS
  <2>2. bad \in SUBSET Nat
    OBVIOUS
  <2> HIDE DEF bad
  <2>3. PICK n \in bad : \A m \in bad : n <= m
    BY <2>1, <2>2, LeastExists
  <2>4. n \in Nat /\ ~ \E g : SmallFolded(g, route, num, S, n)
    BY DEF bad
  <2>5. n # 0
    BY <1>4, <2>4
  <2>6. n - 1 \in Nat /\ ~ (n <= n - 1) /\ (n - 1) + 1 = n
    BY <2>4, <2>5
  <2>7. \E g : SmallFolded(g, route, num, S, n - 1)
    BY <2>3, <2>6 DEF bad
  <2>8. QED
    BY <1>5, <2>4, <2>6, <2>7
<1>7. Cardinality(S) \in Nat
  BY <1>1
<1>8. PICK g : SmallFolded(g, route, num, S, Cardinality(S))
  BY <1>6, <1>7
<1>9. Small(S, Cardinality(S)) = SUBSET S
  BY FS_Subset DEF Small
<1>10. Folded(g, route, num, S)
  BY <1>8, <1>9 DEF Folded, SmallFolded
<1>11. QED
  BY <1>10

(* The empty tree stands for empty paths.                                  *)
LEMMA EmptyStands ==
  ASSUME NEW D
  PROVE  Stands(Empty, [d \in D |-> << >>]) /\ Leafed(Empty) /\ Nodes(Empty) = {}
<1> DEFINE P == [d \in D |-> << >>]
<1>1. /\ Empty.count = << >> /\ Empty.leaves = << >> /\ Empty.next = 0 /\ Empty.freq = << >>
  BY DEF Empty, NoTable
<1>2. DOMAIN << >> = {} /\ << >> \in Seq(Routes) /\ Len(<< >>) = 0
  OBVIOUS
<1>3. IsTree(Empty)
  BY DEF IsTree, Empty, NoTable
<1>4. Nodes(Empty) = {}
  BY <1>1, <1>2 DEF Nodes
<1>5. Leafed(Empty)
  BY <1>1, <1>2, <1>4 DEF Leafed, IsList, Distinct, On, Childless
<1>6. AllWays(P) = {}
  BY NoPath DEF AllWays
<1>7. \A i \in DOMAIN P : On(P[i]) = {}
  BY NoPath
<1> HIDE DEF P
<1>8. \A f : << >> = [x \in {} |-> f[x]]
  OBVIOUS
<1>9. Empty.count = [q \in AllWays(P) |-> Cardinality(Hits(P, Through(q)))]
  BY <1>1, <1>6
<1>10. Empty.freq = [x \in DOMAIN Empty.freq |-> Cardinality(Hits(P, With(x)))]
  BY <1>1, <1>2
<1>11. Stands(Empty, P)
  BY <1>3, <1>7, <1>9, <1>10 DEF Stands
<1>12. QED
  BY <1>4, <1>5, <1>11 DEF P

(* How many of D the function F takes to x, and that there are some.       *)
CountsNodes(num, D, F, S) ==
  \A x \in S : num[x] = Cardinality({d \in D : F[d] = x}) /\ {d \in D : F[d] = x} # {}

(* The tree built from the nodes S stands for the path of each node, as    *)
(* often as the node counts.                                               *)
LEMMA FoldStands ==
  ASSUME NEW D, IsFiniteSet(D), NEW S, IsFiniteSet(S), NEW F \in [D -> S],
         NEW route \in [S -> Routes], NEW num, CountsNodes(num, D, F, S),
         NEW g, Folded(g, route, num, S)
  PROVE  Stands(g[S], [d \in D |-> route[F[d]]]) /\ Leafed(g[S])
<1> DEFINE At(s) == [d \in D |-> IF F[d] \in s THEN route[F[d]] ELSE << >>]
           Good(s) == Stands(g[s], At(s)) /\ Leafed(g[s])
           pick(s) == CHOOSE x \in s : TRUE
           bad == {n \in Nat : \E s \in SUBSET S : Cardinality(s) = n /\ ~ Good(s)}
<1>1. \A s \in SUBSET S : IsFiniteSet(s) /\ Cardinality(s) \in Nat
  BY FS_Subset, FS_CardinalityType
<1>2. \A s \in SUBSET S : s # {} => pick(s) \in s
  OBVIOUS
<1>3. g[{}] = Empty /\ \A s \in SUBSET S : s # {} =>
        g[s] = InsertPath(g[s \ {pick(s)}], route[pick(s)], 0, num[pick(s)])
  BY DEF Folded
<1> HIDE DEF pick
<1>4. \A s \in SUBSET S : At(s) \in [D -> Routes]
  BY NoPath
<1>5. Good({})
  <2>1. At({}) = [d \in D |-> << >>]
    OBVIOUS
  <2> HIDE DEF At
  <2>2. QED
    BY <1>3, <2>1, EmptyStands
<1>6. ASSUME NEW s \in SUBSET S, s # {}, Good(s \ {pick(s)}) PROVE Good(s)
  <2> DEFINE x == pick(s)
             r == s \ {x}
             I == {d \in D : F[d] = x}
             Q == At(r)
             t == g[r]
  <2>1. x \in s /\ x \in S /\ r \in SUBSET S /\ x \notin r /\ s = r \cup {x}
    BY <1>2, <1>6
  <2>2. I \in SUBSET D /\ I # {} /\ num[x] = Cardinality(I) /\ route[x] \in Routes
    BY <2>1 DEF CountsNodes
  <2>3. \A d \in I : Q[d] = Upto(route[x], 0)
    <3>1. Upto(route[x], 0) = << >>
      BY <2>2, NoPath
    <3>2. \A d \in I : d \in D /\ F[d] \notin r
      BY <2>1
    <3> HIDE DEF x, r, I
    <3>3. QED
      BY <3>1, <3>2
  <2>4. 0 \in 0 .. Len(route[x])
    BY <2>2, SeqIs DEF Routes
  <2>5. g[s] = InsertPath(t, route[x], 0, num[x])
    BY <1>3, <1>6
  <2>6. At(s) = Moved(Q, I, route[x])
    <3>1. \A d \in D : F[d] \in s <=> F[d] \in r \/ d \in I
      BY <2>1
    <3>2. \A d \in I : F[d] = x
      OBVIOUS
    <3> HIDE DEF x, r, I
    <3>3. \A d \in D : (IF F[d] \in s THEN route[F[d]] ELSE << >>)
                         = IF d \in I THEN route[x] ELSE Q[d]
      BY <3>1, <3>2
    <3>4. DOMAIN Q = D
      OBVIOUS
    <3> HIDE DEF Q
    <3>5. QED
      BY <3>3, <3>4 DEF Moved
  <2>7. Q \in [D -> Routes] /\ Stands(t, Q) /\ Leafed(t)
    BY <1>4, <1>6, <2>1
  <2> HIDE DEF x, r, I, Q, t, At
  <2>8. LET u == InsertPath(t, route[x], 0, Cardinality(I))
        IN Stands(u, Moved(Q, I, route[x])) /\ Leafed(u)
    BY <2>2, <2>3, <2>4, <2>7, InsertStands
  <2>9. QED
    BY <2>2, <2>5, <2>6, <2>8
<1> HIDE DEF Good
<1>7. bad = {}
  <2>1. SUFFICES ASSUME bad # {} PROVE FALSE
    OBVIOUS
  <2>2. bad \in SUBSET Nat
    OBVIOUS
  <2> HIDE DEF bad
  <2>3. PICK n \in bad : \A m \in bad : n <= m
    BY <2>1, <2>2, LeastExists
  <2>4. PICK s \in SUBSET S : Cardinality(s) = n /\ ~ Good(s)
    BY DEF bad
  <2>5. s # {}
    BY <1>5, <2>4
  <2>6. s \ {pick(s)} \in SUBSET S /\ Cardinality(s \ {pick(s)}) = n - 1 /\ n \in Nat
    BY <1>1, <1>2, <2>4, <2>5, FS_RemoveElement
  <2>7. n - 1 \in Nat /\ ~ (n <= n - 1)
    BY <1>1, <2>6
  <2>8. Good(s \ {pick(s)})
    BY <2>3, <2>6, <2>7 DEF bad
  <2>9. QED
    BY <1>6, <2>4, <2>5, <2>8
<1>8. Good(S)
  <2>1. Cardinality(S) \in Nat
    BY <1>1
  <2>2. QED
    BY <1>7, <2>1
<1>9. At(S) = [d \in D |-> route[F[d]]]
  OBVIOUS
<1>10. QED
  BY <1>8, <1>9 DEF Good

-----------------------------------------------------------------------------
(* Conditional trees.                                                      *)

(* Different nodes on one way have different items.                        *)
LEMMA NodeItems ==
  ASSUME NEW p \in Routes
  PROVE  /\ \A q \in Way(p) :
              /\ q \in Routes /\ q # << >> /\ ItemOf(q) \in On(p)
              /\ ParentOf(q) \in Routes
              /\ \A a : a \in On(ParentOf(q)) <=> Before(p, a, ItemOf(q))
              /\ \A a : a \in On(q) <=> a = ItemOf(q) \/ Before(p, a, ItemOf(q))
              /\ \A a, b : Before(ParentOf(q), a, b) => Before(p, a, b)
         /\ \A q, r \in Way(p) : ItemOf(q) = ItemOf(r) => q = r
         /\ \A x \in On(p) : \E q \in Way(p) : ItemOf(q) = x
<1>1. /\ p \in Seq(Nat) /\ Len(p) \in Nat /\ DOMAIN p = 1 .. Len(p)
      /\ \A i, j \in DOMAIN p : p[i] = p[j] => i = j
  BY SeqIs DEF Routes, Distinct
<1>2. ASSUME NEW q \in Way(p)
      PROVE  /\ q \in Routes /\ q # << >> /\ q \in Seq(Nat) /\ Len(q) \in 1 .. Len(p)
             /\ q = Upto(p, Len(q)) /\ DOMAIN q = 1 .. Len(q)
             /\ \A j \in 1 .. Len(q) : q[j] = p[j] /\ j \in DOMAIN p
             /\ ItemOf(q) = p[Len(q)]
  <2>1. q \in Routes /\ q # << >> /\ q \in Seq(Nat)
    BY RouteWay DEF Routes
  <2>2. Len(q) \in 1 .. Len(p) /\ q = Upto(p, Len(q))
    BY <1>1, WayIs
  <2>3. DOMAIN q = 1 .. Len(q)
    BY <2>1, SeqIs
  <2> DEFINE k == Len(q)
  <2>4. k \in 0 .. Len(p) /\ k \in 1 .. k
    BY <1>1, <2>2
  <2> HIDE DEF k
  <2>5. \A j \in 1 .. k : Upto(p, k)[j] = p[j]
    BY <1>1, <2>4, UptoIs
  <2>6. \A j \in 1 .. k : q[j] = p[j]
    BY <2>2, <2>5 DEF k
  <2>7. \A j \in 1 .. k : j \in 1 .. Len(p)
    BY <1>1, <2>4
  <2>8. ItemOf(q) = p[k]
    BY <2>4, <2>6 DEF ItemOf, k
  <2>9. QED
    BY <1>1, <2>1, <2>2, <2>3, <2>6, <2>7, <2>8 DEF k
<1>3. ASSUME NEW q \in Way(p)
      PROVE  /\ ParentOf(q) \in Routes /\ DOMAIN ParentOf(q) = 1 .. (Len(q) - 1)
             /\ \A j \in 1 .. (Len(q) - 1) : ParentOf(q)[j] = p[j] /\ j \in DOMAIN p
  <2> DEFINE k == Len(q)
  <2>1. q \in Routes /\ q \in Seq(Nat) /\ k \in 1 .. Len(p) /\ k - 1 \in 0 .. k
        /\ \A j \in 1 .. (k - 1) : j \in 1 .. k
    BY <1>1, <1>2
  <2>2. \A j \in 1 .. k : q[j] = p[j] /\ j \in DOMAIN p
    BY <1>2
  <2>3. /\ Upto(q, k - 1) \in Seq(Nat) /\ Len(Upto(q, k - 1)) = k - 1
        /\ \A j \in 1 .. (k - 1) : Upto(q, k - 1)[j] = q[j]
    BY <2>1, UptoIs
  <2>4. Upto(q, k - 1) \in Routes
    BY <2>1, RouteUpto
  <2>5. DOMAIN Upto(q, k - 1) = 1 .. (k - 1)
    BY <2>3, SeqIs
  <2> HIDE DEF k
  <2>6. \A j \in 1 .. (k - 1) : Upto(q, k - 1)[j] = p[j] /\ j \in DOMAIN p
    BY <2>1, <2>2, <2>3
  <2>7. QED
    BY <2>4, <2>5, <2>6 DEF ParentOf, k
<1>4. ASSUME NEW q \in Way(p), NEW a
      PROVE  /\ a \in On(ParentOf(q)) <=> Before(p, a, ItemOf(q))
             /\ a \in On(q) <=> a = ItemOf(q) \/ Before(p, a, ItemOf(q))
  <2> DEFINE k == Len(q)
  <2>1. k \in 1 .. Len(p) /\ k \in DOMAIN p /\ ItemOf(q) = p[k]
    BY <1>1, <1>2
  <2>2. Before(p, a, p[k]) <=> \E j \in 1 .. (k - 1) : p[j] = a
    <3>1. Before(p, a, p[k]) <=> \E j \in DOMAIN p : j < k /\ p[j] = a
      <4> HIDE DEF k
      <4>1. QED
        BY <1>1, <2>1 DEF Before
    <3>2. \A j \in DOMAIN p : j < k <=> j \in 1 .. (k - 1)
      BY <1>1, <2>1
    <3>3. \A j \in 1 .. (k - 1) : j \in DOMAIN p
      BY <1>3
    <3> HIDE DEF k
    <3>4. QED
      BY <3>1, <3>2, <3>3
  <2>3. a \in On(ParentOf(q)) <=> \E j \in 1 .. (k - 1) : p[j] = a
    <3>1. DOMAIN ParentOf(q) = 1 .. (k - 1) /\ \A j \in 1 .. (k - 1) : ParentOf(q)[j] = p[j]
      BY <1>3
    <3> HIDE DEF k
    <3>2. QED
      BY <3>1 DEF On
  <2>4. a \in On(q) <=> a = p[k] \/ \E j \in 1 .. (k - 1) : p[j] = a
    <3>1. DOMAIN q = 1 .. k /\ \A j \in 1 .. k : q[j] = p[j]
      BY <1>2
    <3>2. \A j \in 1 .. k : j = k \/ j \in 1 .. (k - 1)
      BY <1>1, <2>1
    <3>3. k \in 1 .. k /\ \A j \in 1 .. (k - 1) : j \in 1 .. k
      BY <1>1, <2>1
    <3> HIDE DEF k
    <3>4. QED
      BY <3>1, <3>2, <3>3 DEF On
  <2>5. QED
    BY <2>1, <2>2, <2>3, <2>4
<1>5. ASSUME NEW q \in Way(p), NEW a, NEW b, Before(ParentOf(q), a, b) PROVE Before(p, a, b)
  BY <1>3, <1>5 DEF Before
<1>6. ASSUME NEW q \in Way(p), NEW r \in Way(p), ItemOf(q) = ItemOf(r) PROVE q = r
  <2>1. Len(q) \in DOMAIN p /\ Len(r) \in DOMAIN p
    BY <1>1, <1>2
  <2>2. Len(q) = Len(r)
    <3>1. p[Len(q)] = p[Len(r)]
      BY <1>2, <1>6
    <3> DEFINE k == Len(q)
               l == Len(r)
    <3>2. k \in DOMAIN p /\ l \in DOMAIN p /\ p[k] = p[l]
      BY <2>1, <3>1
    <3> HIDE DEF k, l
    <3>3. k = l
      BY <1>1, <3>2
    <3>4. QED
      BY <3>3 DEF k, l
  <2>3. q = Upto(p, Len(q)) /\ r = Upto(p, Len(r))
    BY <1>2
  <2>4. QED
    BY <2>2, <2>3
<1>7. ASSUME NEW x \in On(p) PROVE \E q \in Way(p) : ItemOf(q) = x
  <2>1. PICK k \in DOMAIN p : p[k] = x
    BY DEF On
  <2>2. Upto(p, k) \in Way(p)
    BY <1>1, <2>1, WayIs
  <2>3. Len(Upto(p, k)) = k
    <3>1. k \in 0 .. Len(p)
      BY <1>1, <2>1
    <3>2. QED
      BY <1>1, <3>1, UptoIs
  <2>4. ItemOf(Upto(p, k)) = x
    BY <1>2, <2>1, <2>2, <2>3
  <2>5. QED
    BY <2>2, <2>4
<1>8. \A q \in Way(p) : ItemOf(q) \in On(p)
  BY <1>1, <1>2 DEF On
<1>9. QED
  BY <1>2, <1>3, <1>4, <1>5, <1>6, <1>7, <1>8

(* What ConditionalTree folds for the nodes S.                             *)
Projected(t, items, freq, S) ==
  LET iter[s \in SUBSET S] ==
        IF s = {} THEN Empty
        ELSE LET x == CHOOSE x \in s : TRUE
             IN InsertPath(iter[s \ {x}], SortByFreq(ParentOf(x), items, freq), 0, t.count[x])
  IN iter[S]

(* It is such a fold.                                                      *)
LEMMA ProjectedIs ==
  ASSUME NEW S, IsFiniteSet(S), NEW t, NEW items, NEW freq
  PROVE  \E g : /\ Folded(g, [p \in S |-> SortByFreq(ParentOf(p), items, freq)], t.count, S)
                /\ Projected(t, items, freq, S) = g[S]
<1> DEFINE path(p) == SortByFreq(ParentOf(p), items, freq)
           route == [p \in S |-> path(p)]
           pick(s) == CHOOSE x \in s : TRUE
           Adds(g) == g = [s \in SUBSET S |->
                             IF s = {} THEN Empty
                             ELSE InsertPath(g[s \ {pick(s)}], path(pick(s)), 0,
                                             t.count[pick(s)])]
           g == CHOOSE g : Adds(g)
<1>1. \A s \in SUBSET S : s # {} => route[pick(s)] = path(pick(s))
  <2>1. \A s \in SUBSET S : s # {} => pick(s) \in s
    OBVIOUS
  <2> HIDE DEF pick, path
  <2>2. QED
    BY <2>1
<1>2. \A h : Folded(h, route, t.count, S) <=> Adds(h)
  <2>1. ASSUME NEW h
        PROVE  Folded(h, route, t.count, S) <=>
                 h = [s \in SUBSET S |->
                        IF s = {} THEN Empty
                        ELSE InsertPath(h[s \ {pick(s)}], route[pick(s)], 0, t.count[pick(s)])]
    <3> HIDE DEF route
    <3>1. QED
      BY DEF Folded
  <2>2. ASSUME NEW h
        PROVE  [s \in SUBSET S |->
                  IF s = {} THEN Empty
                  ELSE InsertPath(h[s \ {pick(s)}], route[pick(s)], 0, t.count[pick(s)])]
                 = [s \in SUBSET S |->
                      IF s = {} THEN Empty
                      ELSE InsertPath(h[s \ {pick(s)}], path(pick(s)), 0, t.count[pick(s)])]
    <3> HIDE DEF pick, path, route
    <3>1. QED
      BY <1>1
  <2> HIDE DEF pick, path, route
  <2>3. QED
    BY <2>1, <2>2
<1>3. \E h : Folded(h, route, t.count, S)
  <2> HIDE DEF route
  <2>1. QED
    BY FoldExists
<1>4. Projected(t, items, freq, S) = g[S]
  BY DEF Projected
<1> HIDE DEF route, Adds
<1>5. Adds(g)
  BY <1>2, <1>3
<1>6. Folded(g, route, t.count, S)
  BY <1>2, <1>5
<1> HIDE DEF g
<1>7. QED
  BY <1>4, <1>6 DEF route

(* Of the transactions D, those with a node of base on their path.         *)
Passing(D, Q, base) == {d \in D : \E p \in base : p \in Way(Q[d])}

(* In how many of them a is above x.                                       *)
Weight(D, Q, a, x) == Cardinality({d \in D : Before(Q[d], a, x)})

(* The tree sub stands for the paths R of the transactions E: of those of  *)
(* D that hold the item, what is above it and often enough there, by that  *)
(* frequency.                                                              *)
Projects(D, Q, item, sub, E, R) ==
  /\ Stands(sub, R) /\ Leafed(sub)
  /\ \A d \in E : item \in On(Q[d])
  /\ setup.pruneDepth = Unpruned =>
       \A d \in D : item \in On(Q[d]) /\ On(Q[d]) \subseteq Ids => d \in E
  /\ \A d \in E : \A a :
       a \in On(R[d]) <=> Before(Q[d], a, item) /\ Weight(E, Q, a, item) >= minCount
  /\ \A d \in E : \A a, b : Before(R[d], a, b) =>
       \/ Weight(E, Q, a, item) > Weight(E, Q, b, item)
       \/ /\ Weight(E, Q, a, item) = Weight(E, Q, b, item)
          /\ Cardinality(On(R[d])) <= setup.stable => Before(Q[d], a, b)

(* The nodes of an item and the transactions that pass through them.       *)
LEMMA BaseIs ==
  ASSUME NEW D, IsFiniteSet(D), NEW Q \in [D -> Routes], NEW t, Stands(t, Q), NEW item
  PROVE  LET base == InstancesOf(t, item)
             E    == Passing(D, Q, base)
             F    == [d \in E |-> CHOOSE p \in base : p \in Way(Q[d])]
         IN /\ IsFiniteSet(base) /\ E \in SUBSET D /\ IsFiniteSet(E)
            /\ F \in [E -> base] /\ CountsNodes(t.count, E, F, base)
            /\ \A d \in E : F[d] \in Way(Q[d]) /\ ItemOf(F[d]) = item
<1> DEFINE base == InstancesOf(t, item)
           E    == Passing(D, Q, base)
           F    == [d \in E |-> CHOOSE p \in base : p \in Way(Q[d])]
<1>1. Nodes(t) = AllWays(Q) /\ DOMAIN Q = D
      /\ \A q \in AllWays(Q) : t.count[q] = Cardinality(Hits(Q, Through(q)))
  BY DEF Stands, Nodes
<1>2. base \subseteq AllWays(Q) /\ \A p \in base : ItemOf(p) = item
  BY <1>1 DEF InstancesOf
<1>3. IsFiniteSet(base)
  BY <1>2, NodesFinite, FS_Subset
<1>4. E \in SUBSET D /\ IsFiniteSet(E)
  <2>1. E \in SUBSET D
    BY DEF Passing
  <2>2. QED
    BY <2>1, FS_Subset
<1> HIDE DEF base
<1>5. \A d \in E : \E p \in base : p \in Way(Q[d])
  BY DEF Passing
<1> HIDE DEF E
<1>6. ASSUME NEW d \in E PROVE F[d] \in base /\ F[d] \in Way(Q[d])
  BY <1>5
<1> HIDE DEF F
<1>7. ASSUME NEW x \in base
      PROVE  t.count[x] = Cardinality({d \in E : F[d] = x}) /\ {d \in E : F[d] = x} # {}
  <2>1. Hits(Q, Through(x)) = {d \in D : x \in Way(Q[d])}
    BY <1>1 DEF Hits, Through
  <2>2. ASSUME NEW d \in D, x \in Way(Q[d]) PROVE d \in E /\ F[d] = x
    <3>1. d \in E
      BY <2>2 DEF E, Passing
    <3>2. F[d] \in Way(Q[d]) /\ ItemOf(F[d]) = ItemOf(x)
      BY <1>2, <1>6, <3>1
    <3>3. Q[d] \in Routes
      OBVIOUS
    <3>4. QED
      BY <2>2, <3>1, <3>2, <3>3, NodeItems
  <2>3. {d \in D : x \in Way(Q[d])} = {d \in E : F[d] = x}
    BY <1>4, <1>6, <2>2
  <2>4. {d \in D : x \in Way(Q[d])} # {}
    BY <1>1, <1>2 DEF AllWays
  <2>5. QED
    BY <1>1, <1>2, <2>1, <2>3, <2>4
<1>8. F \in [E -> base]
  BY <1>6 DEF F
<1>9. CountsNodes(t.count, E, F, base)
  BY <1>7 DEF CountsNodes
<1>10. \A d \in E : F[d] \in Way(Q[d]) /\ ItemOf(F[d]) = item
  BY <1>2, <1>6
<1>11. QED
  BY <1>3, <1>4, <1>8, <1>9, <1>10 DEF base, E, F

(* What the counts of some nodes add up to.                                *)
LEMMA NodesCount ==
  ASSUME NEW E, IsFiniteSet(E), NEW F, NEW S, IsFiniteSet(S), NEW num,
         CountsValues(num, E, F, S)
  PROVE  Total(num, S) = Cardinality({d \in E : F[d] \in S})
<1>1. PICK g : Sums(g, num, S) /\ Total(num, S) = g[S]
  BY TotalIs
<1>2. QED
  BY <1>1, SumFibers

(* ConditionalTree is the projection of its tree on the item.              *)
LEMMA ConditionalIs ==
  ASSUME NEW D, IsFiniteSet(D), NEW Q \in [D -> Routes], NEW t, Stands(t, Q), NEW item,
         minCount \in Nat, NumItems \in Nat,
         \A d \in D : On(Q[d]) \subseteq Ids, Cardinality(D) <= MaxTxns
  PROVE  \E E \in SUBSET D : \E R \in [E -> Routes] :
            Projects(D, Q, item, ConditionalTree(t, item), E, R)
<1> DEFINE base  == InstancesOf(t, item)
           above == UNION {ItemsOf(ParentOf(p)) : p \in base}
           freq  == [i \in above |->
                       MapThenSumSet(LAMBDA p : t.count[p],
                                     {p \in base : i \in ItemsOf(ParentOf(p))})]
           kept  == FrequentIn(freq)
           E     == Passing(D, Q, base)
           F     == [d \in E |-> CHOOSE p \in base : p \in Way(Q[d])]
           route == [p \in base |-> SortByFreq(ParentOf(p), kept, freq)]
           R     == [d \in E |-> route[F[d]]]
           sub   == ConditionalTree(t, item)
<1>1. sub = Projected(t, kept, freq, base)
  BY DEF ConditionalTree, FoldSet, MapThenFoldSet, Projected
<1>2. \A i \in above : freq[i] = Total(t.count, {p \in base : i \in ItemsOf(ParentOf(p))})
  BY DEF MapThenSumSet, MapThenFoldSet, Total
<1>3. DOMAIN freq = above
  OBVIOUS
<1>4. /\ IsFiniteSet(base) /\ E \in SUBSET D /\ IsFiniteSet(E)
      /\ F \in [E -> base] /\ CountsNodes(t.count, E, F, base)
      /\ \A d \in E : F[d] \in Way(Q[d]) /\ ItemOf(F[d]) = item
  BY BaseIs
<1>5. \A d \in D : (\E p \in base : p \in Way(Q[d])) => d \in E
  BY DEF Passing
<1>6. \A p : ItemsOf(p) = On(p)
  BY DEF ItemsOf, On
<1> HIDE DEF freq, E, F, sub
<1>7. kept = {i \in above : freq[i] >= minCount}
  BY <1>3 DEF FrequentIn
<1> HIDE DEF kept
<1>8. \A d \in E : /\ ParentOf(F[d]) \in Routes
                   /\ \A a : a \in On(ParentOf(F[d])) <=> Before(Q[d], a, item)
                   /\ \A a, b : Before(ParentOf(F[d]), a, b) => Before(Q[d], a, b)
  <2>1. ASSUME NEW d \in E
        PROVE  /\ ParentOf(F[d]) \in Routes
               /\ \A a : a \in On(ParentOf(F[d])) <=> Before(Q[d], a, item)
               /\ \A a, b : Before(ParentOf(F[d]), a, b) => Before(Q[d], a, b)
    <3>1. Q[d] \in Routes /\ F[d] \in Way(Q[d]) /\ ItemOf(F[d]) = item
      BY <1>4
    <3>2. QED
      BY <3>1, NodeItems
  <2>2. QED
    BY <2>1
<1>9. \A x \in base : t.count[x] = Cardinality({d \in E : F[d] = x}) /\ \E d \in E : F[d] = x
  <2>1. \A x \in base : {d \in E : F[d] = x} # {}
    BY <1>4 DEF CountsNodes
  <2>2. QED
    BY <1>4, <2>1 DEF CountsNodes
<1>10. ASSUME NEW i \in above PROVE freq[i] = Weight(E, Q, i, item) /\ freq[i] \in 0 .. MaxTxns
  <2> DEFINE S == {p \in base : i \in ItemsOf(ParentOf(p))}
  <2>1. IsFiniteSet(S)
    BY <1>4, FS_Subset
  <2>2. CountsValues(t.count, E, F, S)
    BY <1>9 DEF CountsValues
  <2>3. \A d \in E : F[d] \in S <=> Before(Q[d], i, item)
    BY <1>4, <1>6, <1>8
  <2>4. freq[i] = Total(t.count, S)
    BY <1>2
  <2> HIDE DEF S
  <2>5. Total(t.count, S) = Cardinality({d \in E : F[d] \in S})
    BY <1>4, <2>1, <2>2, NodesCount
  <2>6. {d \in E : F[d] \in S} = {d \in E : Before(Q[d], i, item)}
    BY <2>3
  <2>7. Cardinality({d \in E : Before(Q[d], i, item)}) \in 0 .. MaxTxns
    <3> DEFINE over == {d \in E : Before(Q[d], i, item)}
    <3>1. over \in SUBSET D
      BY <1>4
    <3> HIDE DEF over
    <3>2. Cardinality(over) <= Cardinality(D) /\ Cardinality(over) \in Nat
      BY <3>1, FS_Subset, FS_CardinalityType
    <3>3. Cardinality(D) \in Nat
      BY FS_CardinalityType
    <3>4. QED
      BY <3>2, <3>3, MiningAssumption DEF over
  <2>8. QED
    BY <2>4, <2>5, <2>6, <2>7 DEF Weight
<1>11. \A p \in base : /\ ParentOf(p) \in Routes /\ On(ParentOf(p)) \subseteq above
                       /\ On(ParentOf(p)) \subseteq Ids
  <2>1. \A p \in base : ParentOf(p) \in Routes /\ On(ParentOf(p)) \subseteq Ids
    <3>1. ASSUME NEW d \in E PROVE On(ParentOf(F[d])) \subseteq Ids
      <4>1. d \in D /\ Q[d] \in Routes /\ On(Q[d]) \subseteq Ids
        BY <1>4
      <4>2. \A a : Before(Q[d], a, item) => a \in On(Q[d])
        BY <4>1, BeforeIs
      <4>3. QED
        BY <1>8, <4>1, <4>2
    <3>2. QED
      BY <1>8, <1>9, <3>1
  <2>2. QED
    BY <1>6, <2>1
<1> HIDE DEF base, above
<1>12. ASSUME NEW p \in base
       PROVE  /\ route[p] \in Routes /\ On(route[p]) = On(ParentOf(p)) \cap kept
              /\ \A a, b : Before(route[p], a, b) =>
                   \/ freq[a] > freq[b]
                   \/ /\ freq[a] = freq[b]
                      /\ Cardinality(On(route[p])) <= setup.stable => Before(ParentOf(p), a, b)
  <2>1. /\ ParentOf(p) \in Routes /\ On(ParentOf(p)) \subseteq Ids
        /\ \A a \in On(ParentOf(p)) \cap kept : freq[a] \in 0 .. MaxTxns
    BY <1>10, <1>11
  <2>2. route[p] = SortByFreq(ParentOf(p), kept, freq)
    OBVIOUS
  <2> HIDE DEF route
  <2>3. QED
    BY <2>1, <2>2, SortByFreqIs
<1>13. route \in [base -> Routes]
  BY <1>12
<1>14. PICK g : Folded(g, route, t.count, base) /\ Projected(t, kept, freq, base) = g[base]
  BY <1>4, ProjectedIs
<1> HIDE DEF route
<1>15. Stands(sub, R) /\ Leafed(sub)
  BY <1>1, <1>4, <1>13, <1>14, FoldStands
<1>16. R \in [E -> Routes] /\ \A d \in E : R[d] = route[F[d]]
  BY <1>4, <1>13
<1> HIDE DEF R
<1>17. \A d \in E : item \in On(Q[d])
  <2>1. ASSUME NEW d \in E PROVE item \in On(Q[d])
    <3>1. Q[d] \in Routes /\ F[d] \in Way(Q[d]) /\ ItemOf(F[d]) = item
      BY <1>4
    <3>2. QED
      BY <3>1, NodeItems
  <2>2. QED
    BY <2>1
<1>18. ASSUME setup.pruneDepth = Unpruned, NEW d \in D, item \in On(Q[d]),
              On(Q[d]) \subseteq Ids
       PROVE  d \in E
  <2>1. Q[d] \in Routes
    OBVIOUS
  <2>2. PICK p \in Way(Q[d]) : ItemOf(p) = item
    BY <1>18, <2>1, NodeItems
  <2>3. Len(Q[d]) <= NumItems
    BY <1>18, <2>1, RouteLength DEF Ids
  <2>4. Len(p) < Unpruned
    <3>1. Len(p) \in 1 .. Len(Q[d]) /\ Len(Q[d]) \in Nat
      BY <2>1, <2>2, WayIs, SeqIs DEF Routes
    <3>2. QED
      BY <2>3, <3>1 DEF Unpruned
  <2>5. p \in Nodes(t)
    BY <2>2 DEF Stands, Nodes, AllWays
  <2>6. p \in base
    BY <1>18, <2>2, <2>4, <2>5 DEF base, InstancesOf
  <2>7. QED
    BY <1>5, <2>2, <2>6
<1>19. ASSUME NEW d \in E, NEW a
       PROVE  a \in On(R[d]) <=> Before(Q[d], a, item) /\ Weight(E, Q, a, item) >= minCount
  <2>1. On(R[d]) = On(ParentOf(F[d])) \cap kept /\ F[d] \in base
    BY <1>4, <1>12, <1>16
  <2>2. a \in On(ParentOf(F[d])) <=> Before(Q[d], a, item)
    BY <1>8
  <2>3. a \in On(ParentOf(F[d])) => a \in above
    BY <1>11, <2>1
  <2>4. QED
    BY <1>7, <1>10, <2>1, <2>2, <2>3
<1>20. ASSUME NEW d \in E, NEW a, NEW b, Before(R[d], a, b)
       PROVE  \/ Weight(E, Q, a, item) > Weight(E, Q, b, item)
              \/ /\ Weight(E, Q, a, item) = Weight(E, Q, b, item)
                 /\ Cardinality(On(R[d])) <= setup.stable => Before(Q[d], a, b)
  <2>1. F[d] \in base /\ R[d] = route[F[d]] /\ R[d] \in Routes
    BY <1>4, <1>16
  <2>2. a \in On(R[d]) /\ b \in On(R[d])
    BY <1>20, <2>1, BeforeIs
  <2>3. a \in above /\ b \in above
    BY <1>7, <1>12, <2>1, <2>2
  <2>4. freq[a] = Weight(E, Q, a, item) /\ freq[b] = Weight(E, Q, b, item)
    BY <1>10, <2>3
  <2>5. \/ freq[a] > freq[b]
        \/ /\ freq[a] = freq[b]
           /\ Cardinality(On(R[d])) <= setup.stable => Before(ParentOf(F[d]), a, b)
    BY <1>12, <1>20, <2>1
  <2>6. QED
    BY <1>8, <2>4, <2>5
<1>21. Projects(D, Q, item, sub, E, R)
  BY <1>15, <1>17, <1>18, <1>19, <1>20 DEF Projects
<1>22. QED
  BY <1>4, <1>16, <1>21 DEF sub

-----------------------------------------------------------------------------
(* The items of a tree.                                                    *)

TreeItems(t) == {ItemOf(p) : p \in Nodes(t)}

(* The items above item x, on whatever path.                               *)
Over(t, x) == UNION {On(ParentOf(p)) : p \in {q \in Nodes(t) : ItemOf(q) = x}}

(* They are those of the paths the tree stands for.                        *)
LEMMA TreeItemsAre ==
  ASSUME NEW D, IsFiniteSet(D), NEW Q \in [D -> Routes], NEW t, Stands(t, Q)
  PROVE  /\ \A x : x \in TreeItems(t) <=> \E d \in D : x \in On(Q[d])
         /\ \A a, x : a \in Over(t, x) <=> \E d \in D : Before(Q[d], a, x)
         /\ Nodes(t) = {} <=> TreeItems(t) = {}
<1>1. \A p : p \in Nodes(t) <=> \E d \in D : p \in Way(Q[d])
  BY DEF Stands, Nodes, AllWays
<1>2. \A d \in D : Q[d] \in Routes
  OBVIOUS
<1>3. ASSUME NEW x PROVE x \in TreeItems(t) <=> \E d \in D : x \in On(Q[d])
  <2>1. ASSUME NEW d \in D, x \in On(Q[d]) PROVE x \in TreeItems(t)
    <3>1. PICK q \in Way(Q[d]) : ItemOf(q) = x
      BY <1>2, <2>1, NodeItems
    <3>2. QED
      BY <1>1, <3>1 DEF TreeItems
  <2>2. ASSUME x \in TreeItems(t) PROVE \E d \in D : x \in On(Q[d])
    <3>1. PICK p \in Nodes(t) : ItemOf(p) = x
      BY <2>2 DEF TreeItems
    <3>2. PICK d \in D : p \in Way(Q[d])
      BY <1>1
    <3>3. ItemOf(p) \in On(Q[d])
      BY <1>2, <3>2, NodeItems
    <3>4. QED
      BY <3>1, <3>3
  <2>3. QED
    BY <2>1, <2>2
<1>4. ASSUME NEW a, NEW x PROVE a \in Over(t, x) <=> \E d \in D : Before(Q[d], a, x)
  <2>1. ASSUME NEW d \in D, Before(Q[d], a, x) PROVE a \in Over(t, x)
    <3>1. x \in On(Q[d])
      BY <1>2, <2>1, BeforeIs
    <3>2. PICK q \in Way(Q[d]) : ItemOf(q) = x
      BY <1>2, <3>1, NodeItems
    <3>3. a \in On(ParentOf(q))
      BY <1>2, <2>1, <3>2, NodeItems
    <3>4. QED
      BY <1>1, <3>2, <3>3 DEF Over
  <2>2. ASSUME a \in Over(t, x) PROVE \E d \in D : Before(Q[d], a, x)
    <3>1. PICK p \in Nodes(t) : ItemOf(p) = x /\ a \in On(ParentOf(p))
      BY <2>2 DEF Over
    <3>2. PICK d \in D : p \in Way(Q[d])
      BY <1>1
    <3>3. Before(Q[d], a, ItemOf(p))
      BY <1>2, <3>1, <3>2, NodeItems
    <3>4. QED
      BY <3>1, <3>3
  <2>3. QED
    BY <2>1, <2>2
<1>5. Nodes(t) = {} <=> TreeItems(t) = {}
  BY DEF TreeItems
<1>6. QED
  BY <1>3, <1>4, <1>5

(* CountInTree is the number of transactions with all of S.                *)
LEMMA CountInTreeIs ==
  ASSUME NEW D, IsFiniteSet(D), NEW Q \in [D -> Routes], NEW t, Stands(t, Q),
         NEW S, S # {}
  PROVE  CountInTree(t, S) = Cardinality({d \in D : S \subseteq On(Q[d])})
<1> DEFINE ends == {p \in Nodes(t) : ItemOf(p) \in S /\ S \subseteq ItemsOf(p)}
           E    == {d \in D : S \subseteq On(Q[d])}
           F    == [d \in E |-> CHOOSE p \in ends : p \in Way(Q[d])]
<1>1. CountInTree(t, S) = Total(t.count, ends)
  BY DEF CountInTree, MapThenSumSet, MapThenFoldSet, Total
<1>2. Nodes(t) = AllWays(Q) /\ DOMAIN Q = D
      /\ \A q \in AllWays(Q) : t.count[q] = Cardinality(Hits(Q, Through(q)))
  BY DEF Stands, Nodes
<1>3. IsFiniteSet(ends) /\ IsFiniteSet(E)
  <2>1. IsFiniteSet(Nodes(t))
    BY <1>2, NodesFinite
  <2>2. QED
    BY <2>1, FS_Subset
<1>4. \A p : ItemsOf(p) = On(p)
  BY DEF ItemsOf, On
<1>5. \A p : p \in ends <=> p \in AllWays(Q) /\ ItemOf(p) \in S /\ S \subseteq On(p)
  BY <1>2, <1>4
<1> HIDE DEF ends
<1>6. ASSUME NEW d \in D, NEW p \in ends, p \in Way(Q[d])
      PROVE  S \subseteq On(Q[d]) /\ \A q \in ends : q \in Way(Q[d]) => q = p
  <2>1. Q[d] \in Routes
    OBVIOUS
  <2>2. \A a \in On(p) : a \in On(Q[d])
    <3>1. \A a \in On(p) : a = ItemOf(p) \/ Before(Q[d], a, ItemOf(p))
      BY <1>6, <2>1, NodeItems
    <3>2. ItemOf(p) \in On(Q[d])
      BY <1>6, <2>1, NodeItems
    <3>3. QED
      BY <2>1, <3>1, <3>2, BeforeIs
  <2>3. ASSUME NEW q \in ends, q \in Way(Q[d]) PROVE q = p
    <3>1. ItemOf(p) \in On(q) /\ ItemOf(q) \in On(p)
      BY <1>5
    <3>2. ItemOf(p) = ItemOf(q) \/ Before(Q[d], ItemOf(p), ItemOf(q))
      BY <2>1, <2>3, <3>1, NodeItems
    <3>3. ItemOf(q) = ItemOf(p) \/ Before(Q[d], ItemOf(q), ItemOf(p))
      BY <1>6, <2>1, <3>1, NodeItems
    <3>4. ItemOf(p) = ItemOf(q)
      BY <2>1, <3>2, <3>3, BeforeIs
    <3>5. QED
      BY <1>6, <2>1, <2>3, <3>4, NodeItems
  <2>4. QED
    BY <1>5, <2>2, <2>3
<1>7. ASSUME NEW d \in E PROVE F[d] \in ends /\ F[d] \in Way(Q[d])
  <2>1. d \in D /\ Q[d] \in Routes /\ S \in SUBSET On(Q[d])
    OBVIOUS
  <2>2. PICK b \in S : \A a \in S : a = b \/ Before(Q[d], a, b)
    BY <2>1, LowestIs
  <2>3. PICK p \in Way(Q[d]) : ItemOf(p) = b
    BY <2>1, <2>2, NodeItems
  <2>4. S \subseteq On(p)
    BY <2>1, <2>2, <2>3, NodeItems
  <2>5. p \in ends
    BY <1>2, <1>5, <2>1, <2>3, <2>4 DEF AllWays
  <2>6. F[d] = CHOOSE q \in ends : q \in Way(Q[d])
    OBVIOUS
  <2> HIDE DEF F
  <2>7. QED
    BY <2>3, <2>5, <2>6
<1>8. \A d \in D : (\E p \in ends : p \in Way(Q[d])) => d \in E
  BY <1>6
<1>9. \A d \in E : d \in D
  OBVIOUS
<1> HIDE DEF E, F
<1>10. ASSUME NEW x \in ends PROVE t.count[x] = Cardinality({d \in E : F[d] = x})
  <2>1. Hits(Q, Through(x)) = {d \in D : x \in Way(Q[d])}
    BY <1>2 DEF Hits, Through
  <2>2. \A d \in D : x \in Way(Q[d]) => d \in E /\ F[d] = x
    BY <1>6, <1>7, <1>8
  <2>3. {d \in D : x \in Way(Q[d])} = {d \in E : F[d] = x}
    BY <1>7, <1>9, <2>2
  <2>4. QED
    BY <1>2, <1>5, <2>1, <2>3
<1>11. CountsValues(t.count, E, F, ends)
  BY <1>10 DEF CountsValues
<1>12. Total(t.count, ends) = Cardinality({d \in E : F[d] \in ends})
  BY <1>3, <1>11, NodesCount
<1>13. {d \in E : F[d] \in ends} = E
  BY <1>7
<1>14. QED
  BY <1>1, <1>12, <1>13 DEF E

(* On a single path the lowest of some items has the others above it,      *)
(* wherever it is.                                                         *)
LEMMA SinglePath ==
  ASSUME NEW D, IsFiniteSet(D), NEW Q \in [D -> Routes], NEW t, Stands(t, Q),
         HasSinglePath(t), NEW N \in Nat, \A d \in D : On(Q[d]) \subseteq 1 .. N,
         NEW X \in SUBSET TreeItems(t), X # {}
  PROVE  \E x \in X : \A d \in D : x \in On(Q[d]) =>
            \A a \in X : a = x \/ Before(Q[d], a, x)
<1>1. \A p : p \in Nodes(t) <=> \E d \in D : p \in Way(Q[d])
  BY DEF Stands, Nodes, AllWays
<1>2. Closed(Nodes(t))
  <2>1. Nodes(t) = AllWays(Q)
    BY DEF Stands, Nodes
  <2>2. QED
    BY <2>1, AllWaysIs
<1>3. \A p, q \in Nodes(t) : Len(p) = Len(q) => p = q
  BY DEF HasSinglePath
<1>4. ASSUME NEW p \in Nodes(t) PROVE p \in Routes /\ p # << >> /\ Len(p) \in 1 .. N
  <2>1. PICK d \in D : p \in Way(Q[d])
    BY <1>1
  <2>2. Q[d] \in Routes /\ Q[d] \in Seq(Nat) /\ Len(Q[d]) <= N
    BY RouteLength DEF Routes
  <2>3. Len(p) \in 1 .. Len(Q[d]) /\ Len(Q[d]) \in Nat
    BY <2>1, <2>2, WayIs, SeqIs
  <2>4. QED
    BY <1>2, <2>2, <2>3 DEF Closed
<1>5. ASSUME NEW p \in Nodes(t), NEW q \in Nodes(t), Len(p) <= Len(q) PROVE p \in Way(q)
  <2>1. q \in Seq(Nat) /\ Len(p) \in 1 .. Len(q) /\ Len(p) \in 0 .. Len(q)
    BY <1>4, <1>5 DEF Routes
  <2>2. Upto(q, Len(p)) \in Way(q)
    BY <2>1, WayIs
  <2>3. Upto(q, Len(p)) \in Nodes(t)
    BY <1>2, <2>2 DEF Closed
  <2>4. Len(Upto(q, Len(p))) = Len(p)
    BY <2>1, UptoIs
  <2>5. QED
    BY <1>3, <2>2, <2>3, <2>4
<1> DEFINE mine == {p \in Nodes(t) : ItemOf(p) \in X}
           depths == {Len(p) : p \in mine}
<1>6. depths \in SUBSET (0 .. N) /\ depths # {}
  <2>1. mine # {}
    BY DEF TreeItems
  <2>2. QED
    BY <1>4, <2>1
<1> HIDE DEF depths
<1>7. PICK k \in depths : \A m \in depths : m <= k
  BY <1>6, GreatestExists
<1>8. PICK q \in mine : k = Len(q)
  BY DEF depths
<1>9. \A p \in mine : Len(p) <= Len(q)
  BY <1>7, <1>8 DEF depths
<1>10. \A p \in mine : p \in Way(q)
  BY <1>5, <1>9
<1>11. q \in Routes /\ q # << >> /\ q \in Nodes(t) /\ ItemOf(q) \in X
  BY <1>4
<1>12. ASSUME NEW d \in D, ItemOf(q) \in On(Q[d]) PROVE q \in Way(Q[d])
  <2>1. Q[d] \in Routes
    OBVIOUS
  <2>2. PICK r \in Way(Q[d]) : ItemOf(r) = ItemOf(q)
    BY <1>12, <2>1, NodeItems
  <2>3. r \in mine
    BY <1>1, <1>11, <2>2
  <2>4. r \in Way(q) /\ q \in Way(q)
    BY <1>10, <1>11, <2>3
  <2>5. r = q
    BY <1>11, <2>2, <2>4, NodeItems
  <2>6. QED
    BY <2>2, <2>5
<1>13. ASSUME NEW d \in D, ItemOf(q) \in On(Q[d]), NEW a \in X
       PROVE  a = ItemOf(q) \/ Before(Q[d], a, ItemOf(q))
  <2>1. PICK p \in mine : ItemOf(p) = a
    BY DEF TreeItems
  <2>2. p \in Way(q)
    BY <1>10
  <2>3. a \in On(q)
    BY <1>11, <2>1, <2>2, NodeItems
  <2>4. Q[d] \in Routes /\ q \in Way(Q[d])
    BY <1>12, <1>13
  <2>5. QED
    BY <2>3, <2>4, NodeItems
<1>14. QED
  BY <1>11, <1>13

-----------------------------------------------------------------------------
(* What a frame stands for.  The record w is what does not change while a  *)
(* tree is mined: the items of each line, the items to keep, the minimum   *)
(* count, the depth and how many items std::sort leaves in order.          *)

(* How many lines have all of S.                                           *)
Support(w, S) == Cardinality({d \in DOMAIN w.sets : S \subseteq w.sets[d]})

IsData(w) ==
  /\ \E n \in 0 .. MaxTxns : DOMAIN w.sets = 1 .. n
  /\ \A d \in DOMAIN w.sets : w.sets[d] \subseteq Ids
  /\ w.min \in Nat \ {0} /\ w.stable \in Nat

(* The frequent items of a line, and that they are few.                    *)
Frequent(w, d) == {i \in w.sets[d] : Support(w, {i}) >= w.min}

Short(w) == \A d \in DOMAIN w.sets : Cardinality(Frequent(w, d)) <= w.stable + 1

(* The tree of frame f stands for the paths Q of the lines D, which have   *)
(* the pattern.  Below the outermost frame its items are frequent there    *)
(* and kept, and above an item that is kept nothing is filtered out.       *)
Sound(f, D, Q, w) ==
  /\ Stands(f.tree, Q)
  /\ \A d \in D : On(Q[d]) \subseteq w.sets[d] \ f.pattern /\ f.pattern \subseteq w.sets[d]
  /\ f.pattern \subseteq w.kept
  /\ f.pattern # {} =>
       \A x \in TreeItems(f.tree) :
         x \in w.kept /\ Cardinality({d \in D : x \in On(Q[d])}) >= w.min
  /\ \A d \in D : \A a, b : Before(Q[d], a, b) /\ b \in w.kept => a \in w.kept

(* No two paths have items in opposite orders, none lacks an item of the   *)
(* tree that its line has, and, unless nodes are pruned, no line is left   *)
(* out; and none has too many items to stay in one order below.            *)
Exact(f, D, Q, w) ==
  /\ Short(w)
  /\ \A d, e \in D : \A a, b : Before(Q[d], a, b) => ~ Before(Q[e], b, a)
  /\ \A d \in D : w.sets[d] \cap TreeItems(f.tree) \subseteq On(Q[d])
  /\ w.depth = Unpruned =>
       \A d \in DOMAIN w.sets : f.pattern \subseteq w.sets[d] => d \in D

(* The lines are finitely many.                                            *)
LEMMA LinesFinite ==
  ASSUME NEW w, IsData(w), NEW D \in SUBSET (DOMAIN w.sets)
  PROVE  IsFiniteSet(D) /\ IsFiniteSet(DOMAIN w.sets) /\ Cardinality(D) <= MaxTxns
<1>1. PICK n \in 0 .. MaxTxns : DOMAIN w.sets = 1 .. n
  BY DEF IsData
<1>2. n \in Nat
  OBVIOUS
<1>3. IsFiniteSet(1 .. n) /\ Cardinality(1 .. n) = n
  BY <1>2, FS_Interval
<1>4. D \in SUBSET (1 .. n)
  BY <1>1
<1>5. IsFiniteSet(D) /\ Cardinality(D) <= n
  BY <1>3, <1>4, FS_Subset
<1>6. Cardinality(D) \in Nat
  BY <1>5, FS_CardinalityType
<1>7. QED
  BY <1>1, <1>3, <1>5, <1>6, MiningAssumption

(* A path of a projection has only items that are frequent, and not the    *)
(* item itself.                                                            *)
LEMMA ProjectionShort ==
  ASSUME NEW w, IsData(w), w.min = minCount, Short(w),
         NEW D \in SUBSET (DOMAIN w.sets), NEW Q \in [D -> Routes], NEW f, Sound(f, D, Q, w),
         NEW item, NEW E \in SUBSET D, NEW R \in [E -> Routes], NEW sub,
         Projects(D, Q, item, sub, E, R), NEW d \in E, NEW x \in On(R[d])
  PROVE  Cardinality(On(R[d])) <= w.stable
<1> DEFINE few == Frequent(w, d)
<1>1. /\ \A e \in E : item \in On(Q[e]) /\ On(Q[e]) \subseteq w.sets[e]
      /\ \A e \in E : \A a :
           a \in On(R[e]) <=> Before(Q[e], a, item) /\ Weight(E, Q, a, item) >= minCount
  BY DEF Sound, Projects
<1>2. \A e \in E : \A a : Before(Q[e], a, item) => a \in w.sets[e] /\ a # item
  <2>1. \A e \in E : Q[e] \in Routes
    OBVIOUS
  <2>2. QED
    BY <1>1, <2>1, BeforeIs
<1>3. IsFiniteSet(DOMAIN w.sets) /\ IsFiniteSet(E)
  BY LinesFinite, FS_Subset
<1>4. ASSUME NEW a, NEW i, Weight(E, Q, a, item) >= minCount,
             \A e \in E : Before(Q[e], a, item) => i \in w.sets[e]
      PROVE  Support(w, {i}) >= w.min
  <2> DEFINE over == {e \in E : Before(Q[e], a, item)}
             lines == {e \in DOMAIN w.sets : {i} \subseteq w.sets[e]}
  <2>1. over \in SUBSET lines
    BY <1>4
  <2>2. IsFiniteSet(lines)
    BY <1>3, FS_Subset
  <2>3. Weight(E, Q, a, item) = Cardinality(over) /\ Support(w, {i}) = Cardinality(lines)
    BY DEF Weight, Support
  <2> HIDE DEF over, lines
  <2>4. /\ Cardinality(over) <= Cardinality(lines)
        /\ Cardinality(over) \in Nat /\ Cardinality(lines) \in Nat
    BY <2>1, <2>2, FS_Subset, FS_CardinalityType
  <2>5. w.min \in Nat
    BY DEF IsData
  <2>6. QED
    BY <1>4, <2>3, <2>4, <2>5
<1>5. d \in DOMAIN w.sets
  OBVIOUS
<1>6. item \in few
  <2>1. Weight(E, Q, x, item) >= minCount /\ \A e \in E : item \in w.sets[e]
    BY <1>1
  <2>2. QED
    BY <1>4, <2>1 DEF Frequent
<1>7. On(R[d]) \in SUBSET (few \ {item})
  <2>1. ASSUME NEW a \in On(R[d]) PROVE a \in few /\ a # item
    <3>1. Before(Q[d], a, item) /\ Weight(E, Q, a, item) >= minCount
      BY <1>1
    <3>2. a \in w.sets[d] /\ a # item
      BY <1>2, <3>1
    <3>3. Support(w, {a}) >= w.min
      BY <1>2, <1>4, <3>1
    <3>4. QED
      BY <3>2, <3>3 DEF Frequent
  <2>2. QED
    BY <2>1
<1>8. IsFiniteSet(few)
  <2>1. few \in SUBSET Ids
    BY <1>5 DEF IsData, Frequent
  <2>2. IsFiniteSet(Ids)
    BY MiningAssumption, FS_Interval DEF Ids
  <2> HIDE DEF few
  <2>3. QED
    BY <2>1, <2>2, FS_Subset
<1>9. Cardinality(few) <= w.stable + 1 /\ w.stable \in Nat
  BY <1>5 DEF Short, IsData
<1> HIDE DEF few
<1>10. IsFiniteSet(few \ {item}) /\ Cardinality(few \ {item}) = Cardinality(few) - 1
  BY <1>6, <1>8, FS_RemoveElement
<1>11. /\ Cardinality(On(R[d])) <= Cardinality(few \ {item})
       /\ Cardinality(On(R[d])) \in Nat /\ Cardinality(few) \in Nat
  BY <1>7, <1>8, <1>10, FS_Subset, FS_CardinalityType
<1>12. QED
  BY <1>9, <1>10, <1>11

(* The frame of a conditional tree is sound, and exact if the one it is    *)
(* taken from is.                                                          *)
LEMMA ProjectionHolds ==
  ASSUME NEW w, IsData(w), w.min = minCount, w.depth = setup.pruneDepth, w.stable = setup.stable,
         NEW D \in SUBSET (DOMAIN w.sets), NEW Q \in [D -> Routes], NEW f, Sound(f, D, Q, w),
         NEW item \in w.kept, item \in TreeItems(f.tree), NEW E \in SUBSET D, NEW R \in [E -> Routes], NEW g,
         Projects(D, Q, item, g.tree, E, R), g.pattern = f.pattern \cup {item}
  PROVE  /\ Sound(g, E, R, w)
         /\ Exact(f, D, Q, w) => Exact(g, E, R, w)
         /\ TreeItems(g.tree) \subseteq Over(f.tree, item)
<1>1. IsFiniteSet(D) /\ IsFiniteSet(E)
  BY LinesFinite, FS_Subset
<1>2. /\ Stands(f.tree, Q) /\ f.pattern \subseteq w.kept
      /\ \A d \in D : On(Q[d]) \subseteq w.sets[d] \ f.pattern /\ f.pattern \subseteq w.sets[d]
      /\ \A d \in D : \A a, b : Before(Q[d], a, b) /\ b \in w.kept => a \in w.kept
  BY DEF Sound
<1>3. /\ Stands(g.tree, R)
      /\ \A d \in E : item \in On(Q[d])
      /\ \A d \in E : \A a :
           a \in On(R[d]) <=> Before(Q[d], a, item) /\ Weight(E, Q, a, item) >= minCount
      /\ \A d \in E : \A a, b : Before(R[d], a, b) =>
           \/ Weight(E, Q, a, item) > Weight(E, Q, b, item)
           \/ /\ Weight(E, Q, a, item) = Weight(E, Q, b, item)
              /\ Cardinality(On(R[d])) <= setup.stable => Before(Q[d], a, b)
  BY DEF Projects
<1>4. /\ \A x : x \in TreeItems(f.tree) <=> \E d \in D : x \in On(Q[d])
      /\ \A a, x : a \in Over(f.tree, x) <=> \E d \in D : Before(Q[d], a, x)
  BY <1>1, <1>2, TreeItemsAre
<1>5. \A x : x \in TreeItems(g.tree) <=> \E d \in E : x \in On(R[d])
  BY <1>1, <1>3, TreeItemsAre
<1>6. \A d \in D : Q[d] \in Routes
  OBVIOUS
<1>7. \A d \in E : R[d] \in Routes
  OBVIOUS
<1>8. \A d \in D : \A a, b : Before(Q[d], a, b) => a \in On(Q[d]) /\ b \in On(Q[d]) /\ a # b
  BY <1>6, BeforeIs
<1>9. \A d \in E : \A a, b : Before(R[d], a, b) => a \in On(R[d]) /\ b \in On(R[d])
  BY <1>7, BeforeIs
<1>10. \A x : Weight(E, Q, x, item) \in Nat
  <2>1. ASSUME NEW x PROVE Weight(E, Q, x, item) \in Nat
    BY <1>1, FS_Subset, FS_CardinalityType DEF Weight
  <2>2. QED
    BY <2>1
<1>11. TreeItems(g.tree) \subseteq Over(f.tree, item)
  BY <1>3, <1>4, <1>5
<1>12. Sound(g, E, R, w)
  <2>1. ASSUME NEW d \in E
        PROVE  On(R[d]) \subseteq w.sets[d] \ g.pattern /\ g.pattern \subseteq w.sets[d]
    BY <1>2, <1>3, <1>8
  <2>2. g.pattern \subseteq w.kept
    BY <1>2
  <2>3. ASSUME NEW x \in TreeItems(g.tree)
        PROVE  x \in w.kept /\ Cardinality({d \in E : x \in On(R[d])}) >= w.min
    <3>1. PICK d \in E : x \in On(R[d])
      BY <1>5
    <3>2. Before(Q[d], x, item) /\ Weight(E, Q, x, item) >= minCount
      BY <1>3, <3>1
    <3>3. \A e \in E : x \in On(R[e]) <=> Before(Q[e], x, item)
      BY <1>3, <3>2
    <3>4. {e \in E : x \in On(R[e])} = {e \in E : Before(Q[e], x, item)}
      BY <3>3
    <3>5. QED
      BY <1>2, <3>2, <3>4 DEF Weight
  <2>4. ASSUME NEW d \in E, NEW a, NEW b, Before(R[d], a, b), b \in w.kept PROVE a \in w.kept
    <3>1. a \in TreeItems(g.tree)
      BY <1>5, <1>9, <2>4
    <3>2. QED
      BY <2>3, <3>1
  <2>5. QED
    BY <1>3, <2>1, <2>2, <2>3, <2>4 DEF Sound
<1>13. ASSUME Exact(f, D, Q, w) PROVE Exact(g, E, R, w)
  <2>1. /\ \A d, e \in D : \A a, b : Before(Q[d], a, b) => ~ Before(Q[e], b, a)
        /\ \A d \in D : w.sets[d] \cap TreeItems(f.tree) \subseteq On(Q[d])
        /\ w.depth = Unpruned =>
             \A d \in DOMAIN w.sets : f.pattern \subseteq w.sets[d] => d \in D
    BY <1>13 DEF Exact
  <2>2. Short(w)
    BY <1>13 DEF Exact
  <2>3. ASSUME NEW d \in E, NEW e \in E, NEW a, NEW b, Before(R[d], a, b), Before(R[e], b, a)
        PROVE  FALSE
    <3> DEFINE m == Weight(E, Q, a, item)
               n == Weight(E, Q, b, item)
    <3>1. m > n \/ (m = n /\ Before(Q[d], a, b))
      <4>1. Cardinality(On(R[d])) <= setup.stable
        BY <1>9, <2>3, <2>2, ProjectionShort
      <4>2. QED
        BY <1>3, <2>3, <4>1
    <3>2. n > m \/ (n = m /\ Before(Q[e], b, a))
      <4>1. Cardinality(On(R[e])) <= setup.stable
        BY <1>9, <2>3, <2>2, ProjectionShort
      <4>2. QED
        BY <1>3, <2>3, <4>1
    <3>3. m \in Nat /\ n \in Nat
      BY <1>10
    <3> HIDE DEF m, n
    <3>4. Before(Q[d], a, b) /\ Before(Q[e], b, a)
      BY <3>1, <3>2, <3>3
    <3>5. QED
      BY <2>1, <3>4
  <2>4. ASSUME NEW d \in E, NEW x \in w.sets[d], x \in TreeItems(g.tree) PROVE x \in On(R[d])
    <3>1. PICK e \in E : x \in On(R[e])
      BY <1>5, <2>4
    <3>2. Before(Q[e], x, item) /\ Weight(E, Q, x, item) >= minCount
      BY <1>3, <3>1
    <3>3. x \in TreeItems(f.tree) /\ x # item
      BY <1>4, <1>8, <3>2
    <3>4. x \in On(Q[d]) /\ item \in On(Q[d]) /\ Q[d] \in Routes
      BY <1>3, <2>1, <2>4, <3>3
    <3>5. Before(Q[d], x, item) \/ Before(Q[d], item, x)
      BY <3>3, <3>4, BeforeIs
    <3>6. Before(Q[d], x, item)
      BY <2>1, <3>2, <3>5
    <3>7. QED
      BY <1>3, <3>2, <3>6
  <2>5. ASSUME w.depth = Unpruned, NEW d \in DOMAIN w.sets, g.pattern \subseteq w.sets[d]
        PROVE  d \in E
    <3>1. d \in D
      BY <2>1, <2>5
    <3>2. On(Q[d]) \subseteq Ids
      BY <1>2, <3>1 DEF IsData
    <3>3. \A e \in D : item \in On(Q[e]) /\ On(Q[e]) \subseteq Ids => e \in E
      BY <2>5 DEF Projects
    <3>4. item \in On(Q[d])
      <4>1. item \in w.sets[d]
        BY <2>5
      <4>2. QED
        BY <2>1, <3>1, <4>1
    <3>5. QED
      BY <3>1, <3>2, <3>3, <3>4
  <2>6. QED
    BY <2>3, <2>4, <2>5, <2>2 DEF Exact
<1>14. QED
  BY <1>11, <1>12, <1>13

(* How many of the paths have all of S.                                    *)
Shared(D, Q, S) == Cardinality({d \in D : S \subseteq On(Q[d])})

(* What the tree of a frame counts, the lines have with the pattern.       *)
LEMMA TreeSupport ==
  ASSUME NEW w, IsData(w), NEW D \in SUBSET (DOMAIN w.sets), NEW Q \in [D -> Routes],
         NEW f, Sound(f, D, Q, w), NEW S
  PROVE  /\ Shared(D, Q, S) \in Nat /\ Support(w, f.pattern \cup S) \in Nat
         /\ Shared(D, Q, S) <= Support(w, f.pattern \cup S)
         /\ Exact(f, D, Q, w) /\ w.depth = Unpruned /\ S \subseteq TreeItems(f.tree) =>
              Shared(D, Q, S) = Support(w, f.pattern \cup S)
<1> DEFINE with == {d \in D : S \subseteq On(Q[d])}
           lines == {d \in DOMAIN w.sets : f.pattern \cup S \subseteq w.sets[d]}
<1>1. \A d \in D : On(Q[d]) \subseteq w.sets[d] \ f.pattern /\ f.pattern \subseteq w.sets[d]
  BY DEF Sound
<1>2. with \subseteq lines
  BY <1>1
<1>3. IsFiniteSet(lines)
  BY LinesFinite, FS_Subset
<1>4. Exact(f, D, Q, w) /\ w.depth = Unpruned /\ S \subseteq TreeItems(f.tree) => with = lines
  BY <1>2 DEF Exact
<1>5. Support(w, f.pattern \cup S) = Cardinality(lines)
  BY DEF Support
<1> HIDE DEF with, lines
<1>6. IsFiniteSet(with) /\ Cardinality(with) <= Cardinality(lines)
  BY <1>2, <1>3, FS_Subset
<1>7. Cardinality(with) \in Nat /\ Cardinality(lines) \in Nat
  BY <1>3, <1>6, FS_CardinalityType
<1>8. QED
  BY <1>4, <1>5, <1>6, <1>7 DEF with, Shared

(* Fewer items are in at least as many lines.                              *)
LEMMA SupportFalls ==
  ASSUME NEW w, IsData(w), NEW S, NEW X, X \subseteq S
  PROVE  Support(w, S) \in Nat /\ Support(w, X) \in Nat /\ Support(w, S) <= Support(w, X)
<1> DEFINE a == {d \in DOMAIN w.sets : S \subseteq w.sets[d]}
           b == {d \in DOMAIN w.sets : X \subseteq w.sets[d]}
<1>1. a \subseteq b
  OBVIOUS
<1>2. IsFiniteSet(a) /\ IsFiniteSet(b)
  BY LinesFinite, FS_Subset
<1> HIDE DEF a, b
<1>3. Cardinality(a) <= Cardinality(b) /\ Cardinality(a) \in Nat /\ Cardinality(b) \in Nat
  BY <1>1, <1>2, FS_Subset, FS_CardinalityType
<1>4. QED
  BY <1>3 DEF Support, a, b

(* A frequent itemset that goes on above the item is found in the tree of  *)
(* the projection, below one of its items there.                           *)
LEMMA Descends ==
  ASSUME NEW w, IsData(w), w.min = minCount, w.depth = setup.pruneDepth, w.stable = setup.stable, w.depth = Unpruned,
         NEW D \in SUBSET (DOMAIN w.sets), NEW Q \in [D -> Routes], NEW f,
         Sound(f, D, Q, w), Exact(f, D, Q, w),
         NEW item \in w.kept, item \in TreeItems(f.tree), NEW E \in SUBSET D,
         NEW R \in [E -> Routes], NEW sub, Projects(D, Q, item, sub, E, R),
         NEW S, f.pattern \cup {item} \subseteq S, S # f.pattern \cup {item},
         S \ (f.pattern \cup {item}) \subseteq Over(f.tree, item), Support(w, S) >= w.min
  PROVE  \E j \in S \ (f.pattern \cup {item}) :
            j \in TreeItems(sub) /\ S \ (f.pattern \cup {item} \cup {j}) \subseteq Over(sub, j)
<1> DEFINE g == [tree |-> sub, pattern |-> f.pattern \cup {item}]
           X == S \ (f.pattern \cup {item})
           lines == {d \in DOMAIN w.sets : S \subseteq w.sets[d]}
<1>1. IsFiniteSet(D) /\ IsFiniteSet(E)
  BY LinesFinite, FS_Subset
<1>2. /\ Stands(f.tree, Q) /\ Stands(sub, R)
      /\ \A d \in D : On(Q[d]) \subseteq w.sets[d] \ f.pattern
  BY DEF Sound, Projects
<1>3. Exact(g, E, R, w)
  <2>1. g.tree = sub /\ g.pattern = f.pattern \cup {item}
    OBVIOUS
  <2> HIDE DEF g
  <2>2. QED
    BY <2>1, ProjectionHolds
<1>4. \A d \in lines : d \in E
  BY <1>3 DEF Exact
<1>5. \A d, e \in D : \A a, b : Before(Q[d], a, b) => ~ Before(Q[e], b, a)
  BY DEF Exact
<1>6. \A d \in D : w.sets[d] \cap TreeItems(f.tree) \subseteq On(Q[d])
  BY DEF Exact
<1>7. /\ \A x : x \in TreeItems(f.tree) <=> \E d \in D : x \in On(Q[d])
      /\ \A a, x : a \in Over(f.tree, x) <=> \E d \in D : Before(Q[d], a, x)
  BY <1>1, <1>2, TreeItemsAre
<1>8. \A d \in D : Q[d] \in Routes
  OBVIOUS
<1>9. ASSUME NEW d \in lines, NEW a \in X PROVE Before(Q[d], a, item)
  <2>1. d \in E /\ d \in D /\ a \in w.sets[d] /\ item \in w.sets[d] /\ a # item
    BY <1>4
  <2>2. PICK e \in D : Before(Q[e], a, item)
    BY <1>7
  <2>3. a \in TreeItems(f.tree)
    BY <1>7, <1>8, <2>2, BeforeIs
  <2>4. a \in On(Q[d]) /\ item \in On(Q[d])
    BY <1>6, <2>1, <2>3
  <2>5. Before(Q[d], a, item) \/ Before(Q[d], item, a)
    BY <1>8, <2>1, <2>4, BeforeIs
  <2>6. QED
    BY <1>5, <2>1, <2>2, <2>5
<1>10. Support(w, S) = Cardinality(lines)
  BY DEF Support
<1>11. IsFiniteSet(lines) /\ Cardinality(lines) \in Nat
  BY LinesFinite, FS_Subset, FS_CardinalityType
<1>12. lines # {}
  <2>1. Cardinality(lines) >= w.min /\ w.min \in Nat \ {0}
    BY <1>10 DEF IsData
  <2> HIDE DEF lines
  <2>2. QED
    BY <1>11, <2>1, FS_EmptySet
<1>13. ASSUME NEW a \in X PROVE Weight(E, Q, a, item) >= minCount
  <2> DEFINE over == {d \in E : Before(Q[d], a, item)}
  <2>1. lines \subseteq over
    BY <1>4, <1>9
  <2>2. IsFiniteSet(over)
    BY <1>1, FS_Subset
  <2>3. Weight(E, Q, a, item) = Cardinality(over)
    BY DEF Weight
  <2> HIDE DEF over, lines
  <2>4. Cardinality(lines) <= Cardinality(over) /\ Cardinality(over) \in Nat
    BY <2>1, <2>2, FS_Subset, FS_CardinalityType
  <2>5. minCount \in Nat
    BY DEF IsData
  <2>6. QED
    BY <1>10, <1>11, <2>3, <2>4, <2>5
<1>14. PICK d \in lines : TRUE
  BY <1>12
<1>15. d \in E /\ R[d] \in Routes /\ X \subseteq On(R[d]) /\ X # {}
  <2>1. d \in E
    BY <1>4
  <2>2. \A a : a \in On(R[d]) <=> Before(Q[d], a, item) /\ Weight(E, Q, a, item) >= minCount
    BY <2>1 DEF Projects
  <2>3. \A a \in X : a \in On(R[d])
    <3> HIDE DEF X, lines
    <3>1. QED
      BY <1>9, <1>13, <2>2
  <2>4. QED
    BY <2>1, <2>3
<1> HIDE DEF X, lines
<1>16. PICK j \in X : \A a \in X : a = j \/ Before(R[d], a, j)
  BY <1>15, LowestIs
<1>17. j \in TreeItems(sub) /\ \A a \in X : a = j \/ a \in Over(sub, j)
  <2>1. /\ \A x : x \in TreeItems(sub) <=> \E e \in E : x \in On(R[e])
        /\ \A a, x : a \in Over(sub, x) <=> \E e \in E : Before(R[e], a, x)
    BY <1>1, <1>2, TreeItemsAre
  <2>2. QED
    BY <1>15, <1>16, <2>1
<1>18. QED
  BY <1>16, <1>17 DEF X

-----------------------------------------------------------------------------
(* The file and the tree it is loaded into.                                *)

(* The data of this file and setup.                                        *)
Data == [sets   |-> [d \in 1 .. Len(file) |-> ItemsOf(file[d])],
         kept   |-> {i \in Ids : ShouldKeep(i)},
         min    |-> minCount,
         depth  |-> setup.pruneDepth,
         stable |-> setup.stable]

(* The variables that do not change have their types.                      *)
SetupType ==
  /\ setup \in Setups /\ order \in Orders
  /\ file \in Files /\ minCount \in 1 .. Len(file)

(* The paths of the lines loaded so far.                                   *)
LoadedPaths == [d \in 1 .. loaded |-> Sorted(file[d])]

(* A line is a route.                                                      *)
LEMMA LineIs ==
  ASSUME NEW line \in Lines
  PROVE  /\ line \in Routes /\ line # << >>
         /\ ItemsOf(line) = On(line) /\ ItemsOf(line) \subseteq Ids
<1>1. PICK n \in Ids : line \in [1 .. n -> Ids]
  BY DEF Lines
<1>2. n \in Nat /\ n # 0 /\ Ids \subseteq Nat
  BY MiningAssumption DEF Ids
<1>3. line \in Seq(Nat) /\ line # << >>
  <2>1. line \in [1 .. n -> Nat]
    BY <1>1, <1>2
  <2>2. line \in Seq(Nat) /\ Len(line) = n
    BY <1>2, <2>1
  <2>3. QED
    BY <1>2, <2>2
<1>4. Distinct(line)
  BY DEF Lines, Distinct
<1>5. QED
  BY <1>1, <1>3, <1>4 DEF Routes, ItemsOf, On

(* A route through items is a line.                                        *)
LEMMA RouteIsLine ==
  ASSUME NEW p \in Routes, p # << >>, On(p) \subseteq Ids
  PROVE  p \in Lines
<1>1. p \in Seq(Nat) /\ Len(p) \in Nat /\ DOMAIN p = 1 .. Len(p) /\ Len(p) # 0
  BY SeqIs DEF Routes
<1>2. Len(p) <= NumItems
  BY MiningAssumption, RouteLength DEF Ids
<1>3. Len(p) \in Ids
  BY <1>1, <1>2, MiningAssumption DEF Ids
<1>4. p \in [1 .. Len(p) -> Ids]
  <2>1. \A j \in 1 .. Len(p) : p[j] \in Ids
    BY <1>1 DEF On
  <2>2. p = [j \in 1 .. Len(p) |-> p[j]]
    BY <1>1
  <2>3. QED
    BY <2>1, <2>2
<1>5. \A j, k \in DOMAIN p : p[j] = p[k] => j = k
  BY DEF Routes, Distinct
<1>6. QED
  BY <1>3, <1>4, <1>5 DEF Lines

(* What the file and the data are.                                         *)
LEMMA FileIs ==
  ASSUME SetupType
  PROVE  /\ Len(file) \in Nat /\ DOMAIN file = 1 .. Len(file) /\ Len(file) <= MaxTxns
         /\ \A d \in 1 .. Len(file) : file[d] \in Lines
         /\ minCount \in Nat \ {0}
         /\ IsData(Data) /\ DOMAIN Data.sets = 1 .. Len(file)
         /\ \A d \in 1 .. Len(file) : Data.sets[d] = ItemsOf(file[d])
         /\ Data.kept = {i \in Ids : ShouldKeep(i)}
         /\ Data.min = minCount /\ Data.depth = setup.pruneDepth /\ Data.stable = setup.stable
         /\ \A S : Count(S) = Support(Data, S)
<1>1. PICK n \in 1 .. MaxTxns : file \in [1 .. n -> Lines]
  BY DEF SetupType, Files
<1>2. n \in Nat
  OBVIOUS
<1>3. Len(file) = n
  BY <1>1, <1>2
<1>4. /\ Len(file) \in Nat /\ DOMAIN file = 1 .. Len(file) /\ Len(file) <= MaxTxns
      /\ \A d \in 1 .. Len(file) : file[d] \in Lines
  BY <1>1, <1>2, <1>3, MiningAssumption
<1>5. minCount \in Nat \ {0}
  BY <1>4 DEF SetupType
<1> DEFINE sets == [d \in 1 .. Len(file) |-> ItemsOf(file[d])]
<1>6. /\ Data.sets = sets /\ Data.kept = {i \in Ids : ShouldKeep(i)}
      /\ Data.min = minCount /\ Data.depth = setup.pruneDepth /\ Data.stable = setup.stable
  BY DEF Data
<1>7. DOMAIN sets = 1 .. Len(file) /\ \A d \in 1 .. Len(file) : sets[d] = ItemsOf(file[d])
  OBVIOUS
<1> HIDE DEF sets
<1>8. IsData(Data)
  <2>1. \A d \in 1 .. Len(file) : sets[d] \subseteq Ids
    BY <1>4, <1>7, LineIs
  <2>2. Len(file) \in 0 .. MaxTxns /\ setup.stable \in Nat
    BY <1>4, MiningAssumption DEF SetupType
  <2>3. QED
    BY <1>5, <1>6, <1>7, <2>1, <2>2 DEF IsData
<1>9. ASSUME NEW S PROVE Count(S) = Support(Data, S)
  <2>1. {j \in 1 .. Len(file) : S \subseteq ItemsOf(file[j])} = {d \in 1 .. Len(file) : S \subseteq sets[d]}
    BY <1>7
  <2>2. QED
    BY <1>6, <1>7, <2>1 DEF Count, CountUpTo, Support
<1>10. QED
  BY <1>4, <1>5, <1>6, <1>7, <1>8, <1>9

(* A count is at most that of all lines.                                   *)
LEMMA CountsAre ==
  ASSUME NEW k \in Nat, NEW S
  PROVE  CountUpTo(k, S) \in 0 .. k
<1> DEFINE those == {j \in 1 .. k : S \subseteq ItemsOf(file[j])}
<1>1. IsFiniteSet(1 .. k) /\ Cardinality(1 .. k) = k
  BY FS_Interval
<1>2. those \in SUBSET (1 .. k) /\ CountUpTo(k, S) = Cardinality(those)
  BY DEF CountUpTo
<1> HIDE DEF those
<1>3. Cardinality(those) \in Nat /\ Cardinality(those) <= k
  BY <1>1, <1>2, FS_Subset, FS_CardinalityType
<1>4. QED
  BY <1>2, <1>3

(* The order is a table; in fptree mode, of the counts.                    *)
LEMMA OrderIs ==
  ASSUME SetupType
  PROVE  /\ IsTable(order)
         /\ setup.mode = "fptree" =>
              \A d \in 1 .. Len(file) : \A a \in ItemsOf(file[d]) :
                order[a] = Count({a}) /\ order[a] \in Nat /\ order[a] <= MaxTxns
         /\ setup.mode = "disctree" => \A i \in DOMAIN order : order[i] \in Nat
<1>1. setup.mode \in AllModes /\ \A i \in DOMAIN setup.scores : setup.scores[i] \in Nat
  BY MiningAssumption DEF SetupType
<1>2. Len(file) \in Nat /\ Len(file) <= MaxTxns /\ MaxTxns \in Nat
  BY FileIs, MiningAssumption
<1>3. ASSUME NEW k \in Nat, order = TableAfter(k)
      PROVE  /\ DOMAIN order = UNION {ItemsOf(file[j]) : j \in 1 .. k}
             /\ \A i \in DOMAIN order :
                  order[i] = CountUpTo(k, {i}) /\ order[i] \in Nat /\ order[i] <= k
  <2> DEFINE items == UNION {ItemsOf(file[j]) : j \in 1 .. k}
  <2>1. order = [i \in items |-> CountUpTo(k, {i})]
    BY <1>3 DEF TableAfter
  <2> HIDE DEF items
  <2>2. DOMAIN order = items /\ \A i \in items : order[i] = CountUpTo(k, {i})
    BY <2>1
  <2>3. \A i \in items : CountUpTo(k, {i}) \in Nat /\ CountUpTo(k, {i}) <= k
    BY CountsAre
  <2>4. QED
    BY <2>2, <2>3 DEF items
<1>4. CASE setup.mode = "fptree"
  <2>1. order = TableAfter(Len(file))
    BY <1>4 DEF SetupType, Orders
  <2>2. /\ DOMAIN order = UNION {ItemsOf(file[j]) : j \in 1 .. Len(file)}
        /\ \A i \in DOMAIN order :
             /\ order[i] = CountUpTo(Len(file), {i})
             /\ order[i] \in Nat /\ order[i] <= Len(file)
    BY <1>2, <1>3, <2>1
  <2>3. \A d \in 1 .. Len(file) : \A a \in ItemsOf(file[d]) : a \in DOMAIN order
    BY <2>2
  <2>4. IsTable(order)
    <3>1. \A i \in DOMAIN order : order[i] \in Nat
      BY <2>2
    <3>2. QED
      BY <3>1 DEF IsTable
  <2>5. \A a : Count({a}) = CountUpTo(Len(file), {a})
    BY DEF Count
  <2>6. ASSUME NEW i \in DOMAIN order PROVE order[i] <= MaxTxns
    <3>1. order[i] \in Nat /\ order[i] <= Len(file)
      BY <2>2
    <3>2. QED
      BY <1>2, <3>1
  <2>7. QED
    BY <1>4, <2>2, <2>3, <2>4, <2>5, <2>6
<1>5. CASE setup.mode = "cantree"
  <2>1. order = NoTable
    BY <1>5 DEF SetupType, Orders
  <2>2. QED
    BY <1>5, <2>1 DEF IsTable, NoTable
<1>6. CASE setup.mode = "cptree"
  <2>1. PICK k \in LastSorts : order = TableAfter(k)
    BY <1>6 DEF SetupType, Orders
  <2>2. k \in Nat
    <3>1. PICK i \in 1 .. (Len(file) + 1) : k = i * (Len(file) \div i)
      BY DEF LastSorts
    <3> DEFINE n == Len(file)
    <3>2. n \in Nat /\ i \in Nat \ {0} /\ k = i * (n \div i)
      BY <1>2, <3>1
    <3> HIDE DEF n
    <3>3. n \div i \in Nat
      BY <3>2
    <3>4. QED
      BY <3>2, <3>3
  <2>3. \A i \in DOMAIN order : order[i] \in Nat
    BY <1>3, <2>1, <2>2
  <2>4. IsTable(order)
    BY <2>3 DEF IsTable
  <2>5. QED
    BY <1>6, <2>4
<1>7. CASE setup.mode = "disctree"
  <2>1. order = setup.scores
    BY <1>7 DEF SetupType, Orders
  <2>2. QED
    BY <1>1, <1>7, <2>1 DEF IsTable
<1>8. QED
  BY <1>1, <1>4, <1>5, <1>6, <1>7 DEF AllModes

(* A sorted line has its items in an order that is the same for all lines  *)
(* or, in fptree mode, by count and then, if it is short, as in the line.  *)
LEMMA SortedIs ==
  ASSUME SetupType, NEW d \in 1 .. Len(file)
  PROVE  /\ Sorted(file[d]) \in Routes /\ On(Sorted(file[d])) = ItemsOf(file[d])
         /\ \A a, b : Before(Sorted(file[d]), a, b) =>
              IF setup.mode = "fptree"
              THEN \/ order[a] > order[b]
                   \/ /\ order[a] = order[b]
                      /\ Cardinality(ItemsOf(file[d])) <= setup.stable => Before(file[d], a, b)
              ELSE ItemMapCmp(order, a, b)
<1> DEFINE line == file[d]
<1>1. /\ line \in Routes /\ ItemsOf(line) = On(line) /\ ItemsOf(line) \subseteq Ids
      /\ ItemsOf(line) \in SUBSET Nat
  <2>1. line \in Lines
    BY FileIs
  <2>2. Ids \subseteq Nat
    BY MiningAssumption DEF Ids
  <2>3. QED
    BY <2>1, <2>2, LineIs
<1>2. IsTable(order)
  BY OrderIs
<1>3. CASE setup.mode = "fptree"
  <2>1. Sorted(line) = SortByFreq(line, ItemsOf(line), order)
    BY <1>3 DEF Sorted
  <2>2. /\ \A a \in ItemsOf(line) : order[a] \in Nat /\ order[a] <= MaxTxns
        /\ MaxTxns \in Nat
    BY <1>3, OrderIs, MiningAssumption
  <2> HIDE DEF line
  <2>3. \A a \in On(line) \cap ItemsOf(line) : order[a] \in 0 .. MaxTxns
    BY <2>2
  <2> DEFINE r == SortByFreq(line, ItemsOf(line), order)
  <2>4. /\ r \in Routes /\ On(r) = On(line) \cap ItemsOf(line)
        /\ \A a, b : Before(r, a, b) =>
             \/ order[a] > order[b]
             \/ /\ order[a] = order[b]
                /\ Cardinality(On(r)) <= setup.stable => Before(line, a, b)
    BY <1>1, <2>3, SortByFreqIs
  <2> HIDE DEF r
  <2>5. r = Sorted(line) /\ On(r) = ItemsOf(line)
    BY <1>1, <2>1, <2>4 DEF r
  <2>6. QED
    BY <1>3, <2>4, <2>5 DEF line
<1>4. CASE setup.mode # "fptree"
  <2>1. Sorted(line) = SortItems(ItemsOf(line), order)
    BY <1>4 DEF Sorted
  <2>2. IsFiniteSet(ItemsOf(line))
    <3>1. IsFiniteSet(Ids)
      BY MiningAssumption, FS_Interval DEF Ids
    <3>2. QED
      BY <1>1, <3>1, FS_Subset
  <2> HIDE DEF line
  <2>3. Sorted(line) \in Routes /\ On(Sorted(line)) = ItemsOf(line) /\ Ordered(Sorted(line), order)
    BY <1>1, <1>2, <2>1, <2>2, SortItemsIs
  <2>4. ASSUME NEW a, NEW b, Before(Sorted(line), a, b) PROVE ItemMapCmp(order, a, b)
    <3> DEFINE p == Sorted(line)
    <3>1. p \in Seq(Nat) /\ DOMAIN p = 1 .. Len(p)
      BY <2>3, SeqIs DEF Routes
    <3>2. PICK i \in DOMAIN p, j \in DOMAIN p : i < j /\ p[i] = a /\ p[j] = b
      BY <2>4 DEF Before
    <3> HIDE DEF p
    <3>3. ItemMapCmp(order, p[i], p[j])
      BY <1>2, <2>3, <3>1, <3>2, OrderedPairs DEF p
    <3>4. QED
      BY <3>2, <3>3
  <2>5. QED
    BY <1>4, <2>3, <2>4 DEF line
<1>5. QED
  BY <1>3, <1>4

(* The outermost frame stands for all lines.                               *)
LEMMA RootHolds ==
  ASSUME SetupType, loaded = Len(file), Stands(tree, LoadedPaths),
         NEW f, f.tree = tree, f.pattern = {}
  PROVE  LET D == 1 .. Len(file)
         IN /\ D \in SUBSET (1 .. Len(file)) /\ LoadedPaths \in [D -> Routes]
            /\ Sound(f, D, LoadedPaths, Data)
            /\ OneOrder => Exact(f, D, LoadedPaths, Data)
<1> DEFINE D == 1 .. Len(file)
           Q == LoadedPaths
<1>1. /\ DOMAIN file = D /\ DOMAIN Data.sets = D
      /\ \A d \in D : file[d] \in Lines
      /\ \A d \in D : Data.sets[d] = ItemsOf(file[d])
      /\ Data.kept = {i \in Ids : ShouldKeep(i)}
  BY FileIs
<1>2. \A d \in D : Q[d] = Sorted(file[d])
  BY DEF LoadedPaths
<1>3. Q \in [D -> Routes]
  <2>1. \A d \in D : Sorted(file[d]) \in Routes
    BY SortedIs
  <2>2. QED
    BY <2>1 DEF LoadedPaths
<1> HIDE DEF Q
<1>4. \A d \in D : On(Q[d]) = ItemsOf(file[d])
  BY <1>2, SortedIs
<1>5. \A d \in D : \A a, b : Before(Q[d], a, b) =>
              IF setup.mode = "fptree"
              THEN \/ order[a] > order[b]
                   \/ /\ order[a] = order[b]
                      /\ Cardinality(ItemsOf(file[d])) <= setup.stable => Before(file[d], a, b)
              ELSE ItemMapCmp(order, a, b)
  BY <1>2, SortedIs
<1>6. \A d \in D : \A a, b : Before(Q[d], a, b) =>
        /\ a \in ItemsOf(file[d]) /\ b \in ItemsOf(file[d]) /\ a \in Ids /\ b \in Ids
        /\ a \in Nat /\ b \in Nat /\ a # b
  <2>1. ASSUME NEW d \in D, NEW a, NEW b, Before(Q[d], a, b)
        PROVE  /\ a \in ItemsOf(file[d]) /\ b \in ItemsOf(file[d]) /\ a \in Ids /\ b \in Ids
               /\ a \in Nat /\ b \in Nat /\ a # b
    <3>1. Q[d] \in Routes
      BY <1>3
    <3>2. a \in On(Q[d]) /\ b \in On(Q[d]) /\ a # b
      BY <2>1, <3>1, BeforeIs
    <3>3. ItemsOf(file[d]) \subseteq Ids
      BY <1>1, LineIs
    <3>4. Ids \subseteq Nat
      BY MiningAssumption DEF Ids
    <3>5. QED
      BY <1>4, <3>2, <3>3, <3>4
  <2>2. QED
    BY <2>1
<1>7. ASSUME NEW d \in D, NEW a, NEW b, Before(Q[d], a, b), b \in Data.kept
      PROVE  a \in Data.kept
  <2>1. a \in Ids /\ ShouldKeep(b)
    BY <1>1, <1>6, <1>7
  <2>2. ASSUME setup.mode = "disctree", order # NoTable PROVE ShouldKeep(a)
    <3>1. ItemMapCmp(order, a, b)
      BY <1>5, <1>7, <2>2
    <3>2. (IF b \in DOMAIN order THEN order[b] ELSE 0) > setup.min_disc
      BY <2>1, <2>2 DEF ShouldKeep
    <3>3. \A i \in DOMAIN order : order[i] \in Nat
      BY <2>2, OrderIs
    <3>4. setup.min_disc \in Int
      BY MiningAssumption DEF SetupType
    <3>5. (IF a \in DOMAIN order THEN order[a] ELSE 0) > setup.min_disc
      BY <3>1, <3>2, <3>3, <3>4 DEF ItemMapCmp
    <3>6. QED
      BY <3>5 DEF ShouldKeep
  <2>3. ASSUME ~ (setup.mode = "disctree" /\ order # NoTable) PROVE ShouldKeep(a)
    BY <2>3 DEF ShouldKeep
  <2>4. QED
    BY <1>1, <2>1, <2>2, <2>3
<1>8. Sound(f, D, Q, Data)
  <2>1. \A d \in D : On(Q[d]) \subseteq Data.sets[d] \ f.pattern /\ f.pattern \subseteq Data.sets[d]
    BY <1>1, <1>4
  <2>2. QED
    BY <1>7, <2>1 DEF Sound, Q
<1>9. ASSUME OneOrder, NEW d \in D, NEW e \in D, NEW a, NEW b,
             Before(Q[d], a, b), Before(Q[e], b, a)
      PROVE  FALSE
  <2>1. a \in Nat /\ b \in Nat /\ a # b
        /\ a \in ItemsOf(file[d]) /\ b \in ItemsOf(file[d])
        /\ a \in ItemsOf(file[e]) /\ b \in ItemsOf(file[e])
    BY <1>6, <1>9
  <2>2. CASE setup.mode = "fptree"
    <3>1. order[a] = Count({a}) /\ order[b] = Count({b}) /\ order[a] \in Nat /\ order[b] \in Nat
      BY <2>1, <2>2, OrderIs
    <3>10. /\ Cardinality(ItemsOf(file[d])) <= setup.stable
           /\ Cardinality(ItemsOf(file[e])) <= setup.stable
      BY <1>1, <1>9, <2>2 DEF OneOrder, ShortLines
    <3>2. order[a] > order[b] \/ (order[a] = order[b] /\ Before(file[d], a, b))
      BY <1>5, <1>9, <2>2, <3>10
    <3>3. order[b] > order[a] \/ (order[b] = order[a] /\ Before(file[e], b, a))
      BY <1>5, <1>9, <2>2, <3>10
    <3>4. Count({a}) = Count({b}) /\ Before(file[d], a, b) /\ Before(file[e], b, a)
      BY <3>1, <3>2, <3>3
    <3>5. PICK i \in DOMAIN file[d], j \in DOMAIN file[d] :
             i < j /\ file[d][i] = a /\ file[d][j] = b
      BY <3>4 DEF Before
    <3>6. PICK n \in DOMAIN file[e], m \in DOMAIN file[e] :
             n < m /\ file[e][n] = b /\ file[e][m] = a
      BY <3>4 DEF Before
    <3>7. i < j <=> m < n
      <4>1. \A g, h \in DOMAIN file[d], k, l \in DOMAIN file[e] :
              file[d][g] = a /\ file[d][h] = b /\ file[e][k] = a /\ file[e][l] = b
                => (g < h <=> k < l)
        <5>1. /\ d \in DOMAIN file /\ e \in DOMAIN file
              /\ a \in ItemsOf(file[d]) \cap ItemsOf(file[e])
              /\ b \in ItemsOf(file[d]) \cap ItemsOf(file[e])
          BY <1>1, <2>1
        <5>2. QED
          BY <1>9, <2>1, <2>2, <3>4, <5>1 DEF OneOrder, TiesAgree
      <4>2. QED
        BY <3>5, <3>6, <4>1
    <3>8. n \in Nat /\ m \in Nat
      <4>1. file[e] \in Routes
        BY <1>1, LineIs
      <4>2. DOMAIN file[e] \subseteq Nat
        BY <4>1, SeqIs DEF Routes
      <4>3. QED
        BY <4>2
    <3>9. QED
      BY <3>5, <3>6, <3>7, <3>8
  <2>3. CASE setup.mode # "fptree"
    <3>1. ItemMapCmp(order, a, b) /\ ItemMapCmp(order, b, a)
      BY <1>5, <1>9, <2>3
    <3>2. ItemMapCmp(order, a, a)
      BY <2>1, <3>1, OrderIs, CmpTransitive
    <3>3. QED
      BY <2>1, <3>2, OrderIs, CmpIrreflexive
  <2>4. QED
    BY <2>2, <2>3
<1>10. ASSUME OneOrder PROVE Exact(f, D, Q, Data)
  <2>1. \A d, e \in D : \A a, b : Before(Q[d], a, b) => ~ Before(Q[e], b, a)
    BY <1>9, <1>10
  <2>2. \A d \in D : Data.sets[d] \cap TreeItems(f.tree) \subseteq On(Q[d])
    BY <1>1, <1>4
  <2>3. Short(Data)
    <3>1. /\ Data.min = minCount /\ Data.stable = setup.stable
          /\ \A S : Count(S) = Support(Data, S)
      BY FileIs
    <3>2. \A e \in D :
            Frequent(Data, e) = {i \in ItemsOf(file[e]) : Count({i}) >= minCount}
      BY <1>1, <3>1 DEF Frequent
    <3>3. QED
      BY <1>1, <1>10, <3>1, <3>2 DEF OneOrder, ShortLines, Short
  <2>4. QED
    BY <1>1, <2>1, <2>2, <2>3 DEF Exact
<1>11. QED
  BY <1>3, <1>8, <1>10 DEF Q

-----------------------------------------------------------------------------
(* The stack of frames.                                                    *)

IsStack(s) == \E T : s \in Seq(T)

(* What a stack is.                                                        *)
LEMMA StackIs ==
  ASSUME NEW s, IsStack(s)
  PROVE  Len(s) \in Nat /\ DOMAIN s = 1 .. Len(s) /\ (s = << >> <=> Len(s) = 0)
<1>1. PICK T : s \in Seq(T)
  BY DEF IsStack
<1>2. QED
  BY <1>1, SeqIs

(* A frame more.                                                           *)
LEMMA StackPush ==
  ASSUME NEW s, IsStack(s), NEW e
  PROVE  /\ IsStack(Append(s, e)) /\ Len(Append(s, e)) = Len(s) + 1
         /\ \A k \in 1 .. (Len(s) + 1) : Append(s, e)[k] = IF k <= Len(s) THEN s[k] ELSE e
<1>1. PICK T : s \in Seq(T)
  BY DEF IsStack
<1> DEFINE U == T \cup {e}
<1>2. s \in Seq(U)
  BY <1>1
<1>3. e \in U
  OBVIOUS
<1> HIDE DEF U
<1>4. /\ Append(s, e) \in Seq(U) /\ Len(Append(s, e)) = Len(s) + 1
      /\ \A k \in 1 .. (Len(s) + 1) : Append(s, e)[k] = IF k <= Len(s) THEN s[k] ELSE e
  BY <1>2, <1>3, Appended
<1>5. QED
  BY <1>4 DEF IsStack

(* A frame less.                                                           *)
LEMMA StackPop ==
  ASSUME NEW s, IsStack(s), s # << >>
  PROVE  LET r == SubSeq(s, 1, Len(s) - 1)
         IN IsStack(r) /\ Len(r) = Len(s) - 1 /\ \A k \in 1 .. (Len(s) - 1) : r[k] = s[k]
<1>1. PICK T : s \in Seq(T)
  BY DEF IsStack
<1>2. Len(s) \in Nat /\ Len(s) # 0
  BY StackIs
<1>3. Len(s) - 1 \in 0 .. Len(s)
  BY <1>2
<1>4. LET r == Upto(s, Len(s) - 1)
      IN r \in Seq(T) /\ Len(r) = Len(s) - 1 /\ \A k \in 1 .. (Len(s) - 1) : r[k] = s[k]
  BY <1>1, <1>3, UptoIs
<1>5. QED
  BY <1>4 DEF Upto, IsStack

(* The turns of the loop that are left in frame k of a stack and lead to   *)
(* pattern S: that of item i, if all else of S is above i in the tree.     *)
Pends(s, k, i, S) ==
  /\ k \in 1 .. Len(s) /\ i \in s[k].rest
  /\ s[k].pattern \cup {i} \subseteq S
  /\ S \ (s[k].pattern \cup {i}) \subseteq Over(s[k].tree, i)

-----------------------------------------------------------------------------
(* The inductive invariant.                                                *)

(* How the phases and the counters go together.                            *)
Flow ==
  /\ pc \in {"load", "mine", "done"}
  /\ loaded \in 0 .. Len(file)
  /\ emitted \in [Patterns -> Nat]
  /\ pc # "mine" => frames = << >>
  /\ pc = "load" => \A S \in Patterns : emitted[S] = 0
  /\ pc # "load" => loaded = Len(file)

(* The k-th frame, counted from the outermost: a pattern of k - 1 items    *)
(* and items of its tree that are still to come.                           *)
Shaped(f, k, root) ==
  /\ f = [tree |-> f.tree, pattern |-> f.pattern, rest |-> f.rest]
  /\ f.pattern \subseteq Ids /\ Cardinality(f.pattern) = k - 1
  /\ f.rest \subseteq TreeItems(f.tree)
  /\ k > 1 => Nodes(f.tree) # {}
  /\ f.pattern = {} => f.tree = root
  /\ HasSinglePath(f.tree) => f.rest = TreeItems(f.tree)

(* A frame stands for lines of the file.                                   *)
Holding(f, n, w) == \E D \in SUBSET (1 .. n) : \E Q \in [D -> Routes] : Sound(f, D, Q, w)

(* It stands for just those that have its pattern.                         *)
HoldingAll(f, n, w) ==
  \E D \in SUBSET (1 .. n) : \E Q \in [D -> Routes] : Sound(f, D, Q, w) /\ Exact(f, D, Q, w)

FramesInv ==
  /\ IsStack(frames)
  /\ \A k \in 1 .. Len(frames) :
       /\ Shaped(frames[k], k, tree)
       /\ Holding(frames[k], Len(file), Data)
       /\ OneOrder => HoldingAll(frames[k], Len(file), Data)

(* EmittedAreWanted in terms of the data.                                  *)
Wrote ==
  \A S \in Patterns : emitted[S] > 0 =>
    /\ S \subseteq Data.kept
    /\ ~ HasSinglePath(tree) => Support(Data, S) >= minCount

IInv ==
  /\ SetupType /\ Flow
  /\ Stands(tree, LoadedPaths) /\ Leafed(tree)
  /\ FramesInv
  /\ Wrote

(* The data stay what they are.                                            *)
LEMMA DataKept ==
  ASSUME UNCHANGED <<setup, file, order, minCount>>
  PROVE  /\ Data' = Data /\ (OneOrder' <=> OneOrder) /\ (SetupType' <=> SetupType)
<1>1. \A i : ShouldKeep(i)' <=> ShouldKeep(i)
  BY DEF ShouldKeep
<1>2. Data' = Data
  BY <1>1 DEF Data
<1>3. \A S : Count(S)' = Count(S)
  BY DEF Count, CountUpTo
<1>4. OneOrder' <=> OneOrder
  <2>1. TiesAgree' <=> TiesAgree
    BY <1>3 DEF TiesAgree
  <2>2. \A k : {i \in ItemsOf(file[k]) : Count({i}) >= minCount}' =
               {i \in ItemsOf(file[k]) : Count({i}) >= minCount}
    BY <1>3
  <2>3. ShortLines' <=> ShortLines
    BY <2>2 DEF ShortLines
  <2>4. QED
    BY <2>1, <2>3 DEF OneOrder
<1>5. SetupType' <=> SetupType
  <2>1. \A k : TableAfter(k)' = TableAfter(k)
    BY DEF TableAfter, CountUpTo
  <2>2. LastSorts' = LastSorts
    BY DEF LastSorts
  <2>3. Orders' = Orders
    BY <2>1, <2>2 DEF Orders
  <2>4. QED
    BY <2>3 DEF SetupType
<1>6. QED
  BY <1>2, <1>4, <1>5

(* Only the tree and the pattern of a frame say what it stands for.        *)
LEMMA SameHolding ==
  ASSUME NEW f, NEW g, f.tree = g.tree, f.pattern = g.pattern, NEW n, NEW w
  PROVE  /\ Holding(f, n, w) => Holding(g, n, w)
         /\ HoldingAll(f, n, w) => HoldingAll(g, n, w)
<1>1. \A D, Q : Sound(f, D, Q, w) => Sound(g, D, Q, w)
  BY DEF Sound
<1>2. \A D, Q : Exact(f, D, Q, w) => Exact(g, D, Q, w)
  BY DEF Exact
<1>3. QED
  BY <1>1, <1>2 DEF Holding, HoldingAll

(* The items of a sound frame are of the lines, and not in its pattern.    *)
LEMMA SoundItems ==
  ASSUME NEW w, IsData(w), NEW D \in SUBSET (DOMAIN w.sets), NEW Q \in [D -> Routes],
         NEW f, Sound(f, D, Q, w)
  PROVE  TreeItems(f.tree) \subseteq Ids /\ TreeItems(f.tree) \cap f.pattern = {}
         /\ Nodes(f.tree) \subseteq Lines
<1>1. /\ Stands(f.tree, Q)
      /\ \A d \in D : On(Q[d]) \subseteq w.sets[d] \ f.pattern
  BY DEF Sound
<1>2. \A d \in D : w.sets[d] \subseteq Ids
  BY DEF IsData
<1>3. IsFiniteSet(D)
  BY LinesFinite
<1>4. \A x : x \in TreeItems(f.tree) <=> \E d \in D : x \in On(Q[d])
  BY <1>1, <1>3, TreeItemsAre
<1>5. TreeItems(f.tree) \subseteq Ids /\ TreeItems(f.tree) \cap f.pattern = {}
  <2>1. ASSUME NEW x \in TreeItems(f.tree) PROVE x \in Ids /\ x \notin f.pattern
    <3>1. PICK d \in D : x \in On(Q[d])
      BY <1>4
    <3>2. QED
      BY <1>1, <1>2, <3>1
  <2>2. QED
    BY <2>1
<1>6. ASSUME NEW p \in Nodes(f.tree) PROVE p \in Lines
  <2>1. PICK d \in D : p \in Way(Q[d])
    BY <1>1 DEF Stands, Nodes, AllWays
  <2>2. Q[d] \in Routes
    OBVIOUS
  <2>3. p \in Routes /\ p # << >> /\ ItemOf(p) \in On(Q[d])
    BY <2>1, <2>2, NodeItems
  <2>4. On(p) \subseteq On(Q[d])
    <3>1. \A a \in On(p) : a = ItemOf(p) \/ Before(Q[d], a, ItemOf(p))
      BY <2>1, <2>2, NodeItems
    <3>2. QED
      BY <2>2, <2>3, <3>1, BeforeIs
  <2>5. On(p) \subseteq Ids
    BY <1>1, <1>2, <2>4
  <2>6. QED
    BY <2>3, <2>5, RouteIsLine
<1>7. QED
  BY <1>5, <1>6

(* So are those of any frame.                                              *)
LEMMA FrameItems ==
  ASSUME SetupType, NEW f, Holding(f, Len(file), Data)
  PROVE  TreeItems(f.tree) \subseteq Ids /\ TreeItems(f.tree) \cap f.pattern = {}
         /\ Nodes(f.tree) \subseteq Lines /\ f.pattern \subseteq Data.kept
<1>1. IsData(Data) /\ DOMAIN Data.sets = 1 .. Len(file)
  BY FileIs
<1>2. \E D \in SUBSET (DOMAIN Data.sets) : \E Q \in [D -> Routes] : Sound(f, D, Q, Data)
  BY <1>1 DEF Holding
<1>3. f.pattern \subseteq Data.kept
  BY <1>2 DEF Sound
<1>4. QED
  BY <1>1, <1>2, <1>3, SoundItems

(* The frame of a conditional tree, as MineItem makes it.                  *)
LEMMA SoundChild ==
  ASSUME NEW w, IsData(w), w.min = minCount, w.depth = setup.pruneDepth, w.stable = setup.stable,
         NEW D \in SUBSET (DOMAIN w.sets), NEW Q \in [D -> Routes], NEW f, Sound(f, D, Q, w),
         NEW item \in w.kept, item \in TreeItems(f.tree),
         NEW g, g.tree = ConditionalTree(f.tree, item), g.pattern = f.pattern \cup {item}
  PROVE  /\ \E E \in SUBSET (DOMAIN w.sets) : \E R \in [E -> Routes] :
              Sound(g, E, R, w) /\ (Exact(f, D, Q, w) => Exact(g, E, R, w))
         /\ TreeItems(g.tree) \subseteq Over(f.tree, item)
<1>1. /\ IsFiniteSet(D) /\ Stands(f.tree, Q) /\ Cardinality(D) <= MaxTxns
      /\ \A d \in D : On(Q[d]) \subseteq Ids
  <2>1. IsFiniteSet(D) /\ Cardinality(D) <= MaxTxns
    BY LinesFinite
  <2>2. QED
    BY <2>1 DEF Sound, IsData
<1>2. minCount \in Nat /\ NumItems \in Nat
  BY MiningAssumption DEF IsData
<1>3. \E E \in SUBSET D : \E R \in [E -> Routes] :
         Projects(D, Q, item, ConditionalTree(f.tree, item), E, R)
  BY <1>1, <1>2, ConditionalIs
<1>4. ASSUME NEW E \in SUBSET D, NEW R \in [E -> Routes],
             Projects(D, Q, item, ConditionalTree(f.tree, item), E, R)
      PROVE  /\ Sound(g, E, R, w) /\ (Exact(f, D, Q, w) => Exact(g, E, R, w))
             /\ TreeItems(g.tree) \subseteq Over(f.tree, item) /\ E \in SUBSET (DOMAIN w.sets)
  <2>1. Projects(D, Q, item, g.tree, E, R)
    BY <1>4
  <2>2. E \in SUBSET (DOMAIN w.sets)
    OBVIOUS
  <2>3. /\ Sound(g, E, R, w) /\ (Exact(f, D, Q, w) => Exact(g, E, R, w))
        /\ TreeItems(g.tree) \subseteq Over(f.tree, item)
    BY <2>1, ProjectionHolds
  <2>4. QED
    BY <2>2, <2>3
<1>5. QED
  BY <1>3, <1>4

(* It stands for lines of the file if the frame it is taken from does.     *)
LEMMA ChildHolds ==
  ASSUME SetupType, NEW f, NEW item \in Data.kept, item \in TreeItems(f.tree),
         NEW g, g.tree = ConditionalTree(f.tree, item), g.pattern = f.pattern \cup {item}
  PROVE  /\ Holding(f, Len(file), Data) =>
              Holding(g, Len(file), Data) /\ TreeItems(g.tree) \subseteq Over(f.tree, item)
         /\ HoldingAll(f, Len(file), Data) => HoldingAll(g, Len(file), Data)
<1>1. /\ IsData(Data) /\ DOMAIN Data.sets = 1 .. Len(file)
      /\ Data.min = minCount /\ Data.depth = setup.pruneDepth /\ Data.stable = setup.stable
  BY FileIs
<1>2. ASSUME NEW D \in SUBSET (DOMAIN Data.sets), NEW Q \in [D -> Routes], Sound(f, D, Q, Data)
      PROVE  /\ \E E \in SUBSET (DOMAIN Data.sets) : \E R \in [E -> Routes] :
                   /\ Sound(g, E, R, Data)
                   /\ Exact(f, D, Q, Data) => Exact(g, E, R, Data)
             /\ TreeItems(g.tree) \subseteq Over(f.tree, item)
  BY <1>1, <1>2, SoundChild
<1>3. QED
  BY <1>1, <1>2 DEF Holding, HoldingAll

(* What a frame below the outermost has is frequent with its pattern.      *)
LEMMA SoundWanted ==
  ASSUME NEW w, IsData(w), NEW D \in SUBSET (DOMAIN w.sets), NEW Q \in [D -> Routes],
         NEW f, Sound(f, D, Q, w), f.pattern # {}
  PROVE  /\ \A x \in TreeItems(f.tree) :
              x \in w.kept /\ Support(w, f.pattern \cup {x}) >= w.min
         /\ HasSinglePath(f.tree) =>
              \A X \in SUBSET TreeItems(f.tree) : X # {} => Support(w, f.pattern \cup X) >= w.min
<1>1. /\ IsFiniteSet(D) /\ Stands(f.tree, Q)
      /\ \A x \in TreeItems(f.tree) :
           x \in w.kept /\ Cardinality({d \in D : x \in On(Q[d])}) >= w.min
      /\ w.min \in Nat
  BY LinesFinite DEF Sound, IsData
<1> DEFINE has(S) == Shared(D, Q, S)
           sup(S) == Support(w, f.pattern \cup S)
<1>2. ASSUME NEW S PROVE has(S) \in Nat /\ sup(S) \in Nat /\ has(S) <= sup(S)
  BY TreeSupport
<1>3. ASSUME NEW x \in TreeItems(f.tree)
      PROVE  x \in w.kept /\ sup({x}) >= w.min
  <2>1. {d \in D : {x} \subseteq On(Q[d])} = {d \in D : x \in On(Q[d])}
    OBVIOUS
  <2>2. has({x}) >= w.min /\ x \in w.kept
    BY <1>1, <2>1 DEF Shared
  <2> HIDE DEF has, sup
  <2>3. QED
    BY <1>1, <1>2, <2>2
<1>4. ASSUME HasSinglePath(f.tree), NEW X \in SUBSET TreeItems(f.tree), X # {}
      PROVE  Support(w, f.pattern \cup X) >= w.min
  <2>1. \A d \in D : On(Q[d]) \subseteq 1 .. NumItems
    BY DEF Sound, IsData, Ids
  <2>2. NumItems \in Nat
    BY MiningAssumption
  <2>3. \E x \in X : \A d \in D : x \in On(Q[d]) => \A a \in X : a = x \/ Before(Q[d], a, x)
    BY <1>1, <1>4, <2>1, <2>2, SinglePath
  <2>4. PICK x \in X : \A d \in D : x \in On(Q[d]) => \A a \in X : a = x \/ Before(Q[d], a, x)
    BY <2>3
  <2>5. ASSUME NEW d \in D, x \in On(Q[d]) PROVE X \subseteq On(Q[d])
    <3>1. Q[d] \in Routes
      OBVIOUS
    <3>2. QED
      BY <2>4, <2>5, <3>1, BeforeIs
  <2>6. {d \in D : X \subseteq On(Q[d])} = {d \in D : x \in On(Q[d])}
    BY <2>5
  <2>7. has(X) >= w.min
    BY <1>1, <2>6 DEF Shared
  <2> HIDE DEF has
  <2>8. sup(X) >= w.min
    <3> HIDE DEF sup
    <3>1. QED
      BY <1>1, <1>2, <2>7
  <2>9. QED
    BY <2>8
<1>5. QED
  BY <1>3, <1>4

(* So it is in the file.                                                   *)
LEMMA FrameWanted ==
  ASSUME SetupType, NEW f, Holding(f, Len(file), Data), f.pattern # {}
  PROVE  /\ \A x \in TreeItems(f.tree) :
              x \in Data.kept /\ Support(Data, f.pattern \cup {x}) >= minCount
         /\ HasSinglePath(f.tree) =>
              \A X \in SUBSET TreeItems(f.tree) :
                 X # {} => Support(Data, f.pattern \cup X) >= minCount
<1>1. IsData(Data) /\ DOMAIN Data.sets = 1 .. Len(file) /\ Data.min = minCount
  BY FileIs
<1>2. \E D \in SUBSET (DOMAIN Data.sets) : \E Q \in [D -> Routes] : Sound(f, D, Q, Data)
  BY <1>1 DEF Holding
<1>3. QED
  BY <1>1, <1>2, SoundWanted

-----------------------------------------------------------------------------
(* The steps keep the inductive invariant.                                 *)

(* A new frame has all items of its tree to come.                          *)
LEMMA FrameIs ==
  ASSUME NEW t, NEW pattern
  PROVE  Frame(t, pattern) = [tree |-> t, pattern |-> pattern, rest |-> TreeItems(t)]
BY DEF Frame, TreeItems

(* Frame f when the turn of the item is taken; the stack then.             *)
Turned(f, item) == [tree |-> f.tree, pattern |-> f.pattern, rest |-> f.rest \ {item}]
Turn(s, item) == Append(SubSeq(s, 1, Len(s) - 1), Turned(s[Len(s)], item))

(* What that stack is.                                                     *)
LEMMA TurnIs ==
  ASSUME NEW s, IsStack(s), s # << >>, NEW item
  PROVE  /\ IsStack(Turn(s, item)) /\ Len(Turn(s, item)) = Len(s)
         /\ \A k \in 1 .. Len(s) :
              Turn(s, item)[k] = IF k < Len(s) THEN s[k] ELSE Turned(s[Len(s)], item)
<1> DEFINE r == SubSeq(s, 1, Len(s) - 1)
           e == Turned(s[Len(s)], item)
<1>1. Len(s) \in Nat /\ Len(s) # 0
  BY StackIs
<1>2. IsStack(r) /\ Len(r) = Len(s) - 1 /\ \A k \in 1 .. (Len(s) - 1) : r[k] = s[k]
  BY StackPop
<1>3. Turn(s, item) = Append(r, e)
  BY DEF Turn
<1> HIDE DEF r, e
<1>4. /\ IsStack(Append(r, e)) /\ Len(Append(r, e)) = Len(r) + 1
      /\ \A k \in 1 .. (Len(r) + 1) : Append(r, e)[k] = IF k <= Len(r) THEN r[k] ELSE e
  BY <1>2, StackPush
<1>5. \A k \in 1 .. Len(s) : Turn(s, item)[k] = IF k < Len(s) THEN s[k] ELSE e
  BY <1>1, <1>2, <1>3, <1>4
<1>6. QED
  BY <1>1, <1>2, <1>3, <1>4, <1>5 DEF e

(* The loop takes the turn of this item.                                   *)
Turns(item) ==
  LET f       == frames[Len(frames)]
      sub     == ConditionalTree(f.tree, item)
      pattern == f.pattern \cup {item}
  IN /\ frames # << >> /\ item \in f.rest /\ ~ HasSinglePath(f.tree)
     /\ IF item \in Data.kept /\ Support(Data, {item}) >= minCount
        THEN /\ emitted' = [emitted EXCEPT ![pattern] = @ + 1]
             /\ frames' = IF Nodes(sub) = {} THEN Turn(frames, item)
                          ELSE Append(Turn(frames, item), Frame(sub, pattern))
        ELSE emitted' = emitted /\ frames' = Turn(frames, item)

(* The innermost frame.                                                    *)
LEMMA TopIs ==
  ASSUME SetupType, FramesInv, frames # << >>
  PROVE  LET n == Len(frames)
             f == frames[n]
         IN /\ n \in Nat \ {0} /\ Top = f
            /\ Shaped(f, n, tree) /\ Holding(f, Len(file), Data)
            /\ OneOrder => HoldingAll(f, Len(file), Data)
            /\ f.rest \subseteq Ids /\ TreeItems(f.tree) \subseteq Ids
            /\ TreeItems(f.tree) \cap f.pattern = {}
            /\ f.pattern \subseteq Data.kept
<1> DEFINE n == Len(frames)
           f == frames[n]
<1>1. n \in Nat \ {0} /\ n \in 1 .. Len(frames)
  BY StackIs DEF FramesInv
<1>2. /\ Shaped(f, n, tree) /\ Holding(f, Len(file), Data)
      /\ OneOrder => HoldingAll(f, Len(file), Data)
  BY <1>1 DEF FramesInv
<1> HIDE DEF f
<1>3. TreeItems(f.tree) \subseteq Ids /\ TreeItems(f.tree) \cap f.pattern = {}
      /\ f.pattern \subseteq Data.kept
  BY <1>2, FrameItems
<1>4. f.rest \subseteq TreeItems(f.tree)
  BY <1>2 DEF Shaped
<1>5. QED
  BY <1>1, <1>2, <1>3, <1>4 DEF f, Top

(* MineItem is such a turn.                                                *)
LEMMA MineItemIs ==
  ASSUME SetupType, FramesInv, MineItem
  PROVE  \E item \in Ids : Turns(item)
<1> DEFINE f       == frames[Len(frames)]
           item    == Min(f.rest)
           sub     == ConditionalTree(f.tree, item)
           pattern == f.pattern \cup {item}
           here    == Append(Caller, [f EXCEPT !.rest = @ \ {item}])
<1>1. frames # << >> /\ ~ HasSinglePath(Top.tree) /\ Top.rest # {}
  BY DEF MineItem
<1>2. /\ Top = f /\ Shaped(f, Len(frames), tree) /\ f.rest \subseteq Ids
  BY <1>1, TopIs
<1>3. IF ~ ShouldKeep(item) \/ Count({item}) < minCount
      THEN /\ frames' = here
           /\ UNCHANGED emitted
      ELSE /\ emitted' = [emitted EXCEPT ![pattern] = @ + 1]
           /\ frames' = IF Nodes(sub) = {} THEN here
                        ELSE Append(here, Frame(sub, pattern))
  BY <1>2 DEF MineItem
<1>4. here = Turn(frames, item)
  <2>1. f = [tree |-> f.tree, pattern |-> f.pattern, rest |-> f.rest]
    BY <1>2 DEF Shaped
  <2>2. [f EXCEPT !.rest = @ \ {item}] = Turned(f, item)
    <3> HIDE DEF f, item
    <3>1. QED
      BY <2>1 DEF Turned
  <2>3. QED
    BY <2>2 DEF Turn, Caller
<1>5. item \in f.rest
  <2>1. f.rest \in SUBSET Nat /\ f.rest # {}
    BY <1>1, <1>2, MiningAssumption DEF Ids
  <2>2. \E m \in f.rest : \A l \in f.rest : m <= l
    <3> HIDE DEF f
    <3>1. QED
      BY <2>1, LeastExists
  <2>3. QED
    BY <2>2 DEF Min
<1>6. item \in Ids
  BY <1>2, <1>5
<1> HIDE DEF f, item, here
<1>7. (item \in Data.kept <=> ShouldKeep(item)) /\ Count({item}) = Support(Data, {item})
      /\ minCount \in Nat /\ Support(Data, {item}) \in Nat
  <2>1. IsData(Data)
    BY FileIs
  <2>2. Support(Data, {item}) \in Nat
    BY <2>1, SupportFalls
  <2>3. QED
    BY <1>6, <2>2, FileIs
<1>8. Turns(item)
  <2>1. frames # << >> /\ item \in f.rest /\ ~ HasSinglePath(f.tree)
    BY <1>1, <1>2, <1>5
  <2>2. ~ ShouldKeep(item) \/ Count({item}) < minCount
          <=> ~ (item \in Data.kept /\ Support(Data, {item}) >= minCount)
    BY <1>7
  <2>3. IF item \in Data.kept /\ Support(Data, {item}) >= minCount
        THEN /\ emitted' = [emitted EXCEPT ![pattern] = @ + 1]
             /\ frames' = IF Nodes(sub) = {} THEN Turn(frames, item)
                          ELSE Append(Turn(frames, item), Frame(sub, pattern))
        ELSE emitted' = emitted /\ frames' = Turn(frames, item)
    BY <1>3, <1>4, <2>2
  <2>4. QED
    BY <2>1, <2>3 DEF Turns, f
<1>9. QED
  BY <1>6, <1>8

(* The empty stack.                                                        *)
LEMMA NoFrames == IsStack(<< >>) /\ Len(<< >>) = 0 /\ 1 .. Len(<< >>) = {}
<1>1. << >> \in Seq({}) /\ Len(<< >>) = 0
  OBVIOUS
<1>2. 1 .. 0 = {}
  OBVIOUS
<1>3. QED
  BY <1>1, <1>2 DEF IsStack

(* Initially it holds.                                                     *)
LEMMA InitHolds ==
  ASSUME Init
  PROVE  IInv
<1>1. SetupType
  BY DEF Init, SetupType
<1>2. Len(file) \in Nat
  BY <1>1, FileIs
<1>3. Flow
  BY <1>2 DEF Init, Flow
<1>4. Stands(tree, LoadedPaths) /\ Leafed(tree)
  <2>1. 1 .. loaded = {}
    BY DEF Init
  <2>2. LoadedPaths = [d \in {} |-> << >>]
    BY <2>1 DEF LoadedPaths
  <2>3. QED
    BY <2>2, EmptyStands DEF Init
<1>5. FramesInv
  BY NoFrames DEF Init, FramesInv
<1>6. Wrote
  BY DEF Init, Wrote
<1>7. QED
  BY <1>1, <1>3, <1>4, <1>5, <1>6 DEF IInv

(* The paths of the lines.                                                 *)
LEMMA LoadedPathsAre ==
  ASSUME SetupType, loaded \in 0 .. Len(file)
  PROVE  LoadedPaths \in Seq(Routes) /\ Len(LoadedPaths) = loaded
<1>1. Len(file) \in Nat
  BY FileIs
<1>2. \A d \in 1 .. loaded : Sorted(file[d]) \in Routes
  BY <1>1, SortedIs
<1>3. LoadedPaths \in [1 .. loaded -> Routes]
  BY <1>2 DEF LoadedPaths
<1>4. loaded \in Nat
  BY <1>1
<1>5. QED
  BY <1>3, <1>4

(* Loading a line inserts its path.                                        *)
LEMMA LoadHolds ==
  ASSUME IInv, OnLoad
  PROVE  IInv'
<1>1. /\ pc = "load" /\ loaded < Len(file) /\ loaded' = loaded + 1
      /\ tree' = Insert(tree, Sorted(file[loaded + 1]))
      /\ UNCHANGED <<pc, setup, file, order, minCount, frames, emitted>>
  BY DEF OnLoad
<1>2. /\ SetupType /\ Flow /\ Stands(tree, LoadedPaths) /\ Leafed(tree) /\ Wrote
      /\ frames = << >> /\ loaded \in 0 .. Len(file)
  BY <1>1 DEF IInv, Flow
<1>3. Data' = Data /\ SetupType'
  BY <1>1, <1>2, DataKept
<1>4. loaded + 1 \in 1 .. Len(file) /\ Len(file) \in Nat /\ loaded \in Nat
  BY <1>1, <1>2, FileIs
<1>5. Flow'
  BY <1>1, <1>2, <1>4 DEF Flow
<1> DEFINE line == Sorted(file[loaded + 1])
<1>6. LoadedPaths \in Seq(Routes) /\ Len(LoadedPaths) = loaded /\ line \in Routes
  BY <1>2, <1>4, LoadedPathsAre, SortedIs
<1>7. LoadedPaths' = Append(LoadedPaths, line)
  <2>1. /\ Append(LoadedPaths, line) \in Seq(Routes)
        /\ Len(Append(LoadedPaths, line)) = loaded + 1
        /\ \A d \in 1 .. (loaded + 1) :
             Append(LoadedPaths, line)[d] = IF d <= loaded THEN LoadedPaths[d] ELSE line
    <3> HIDE DEF line
    <3>1. QED
      BY <1>6, Appended
  <2>2. \A d \in 1 .. (loaded + 1) : Append(LoadedPaths, line)[d] = Sorted(file[d])
    <3>1. ASSUME NEW d \in 1 .. (loaded + 1)
          PROVE  Append(LoadedPaths, line)[d] = Sorted(file[d])
      <4>1. CASE d <= loaded
        <5>1. d \in 1 .. loaded
          BY <1>4, <4>1
        <5>2. LoadedPaths[d] = Sorted(file[d])
          BY <5>1 DEF LoadedPaths
        <5>3. QED
          BY <2>1, <4>1, <5>2
      <4>2. CASE ~ (d <= loaded)
        <5>1. d = loaded + 1
          BY <1>4, <4>2
        <5>2. QED
          BY <2>1, <4>2, <5>1
      <4>3. QED
        BY <4>1, <4>2
    <3>2. QED
      BY <3>1
  <2>3. LoadedPaths' = [d \in 1 .. (loaded + 1) |-> Sorted(file[d])]
    <3>1. \A d : Sorted(file[d])' = Sorted(file[d])
      <4>1. \A path, items, table :
              SortByFreq(path, items, table)' = SortByFreq(path, items, table)
        BY <1>1 DEF SortByFreq
      <4>2. QED
        BY <1>1, <4>1 DEF Sorted
    <3>2. QED
      BY <1>1, <3>1 DEF LoadedPaths
  <2> DEFINE both == Append(LoadedPaths, line)
  <2>4. both = [d \in 1 .. (loaded + 1) |-> both[d]]
    <3>1. both \in Seq(Routes) /\ Len(both) = loaded + 1
      BY <2>1
    <3> HIDE DEF both
    <3>2. both \in [1 .. (loaded + 1) -> Routes]
      BY <1>4, <3>1
    <3>3. QED
      BY <3>2
  <2> HIDE DEF line
  <2>5. QED
    BY <2>2, <2>3, <2>4
<1>8. Stands(tree', LoadedPaths') /\ Leafed(tree')
  <2> HIDE DEF line
  <2>1. Stands(Insert(tree, line), Append(LoadedPaths, line)) /\ Leafed(Insert(tree, line))
    BY <1>2, <1>6, InsertTree
  <2>2. QED
    BY <1>1, <1>7, <2>1 DEF line
<1>9. FramesInv'
  BY <1>1, <1>2, NoFrames DEF FramesInv
<1>10. Wrote'
  BY <1>1, <1>2 DEF Flow, Wrote
<1>11. QED
  BY <1>3, <1>5, <1>8, <1>9, <1>10 DEF IInv

(* While the tree is mined it stays what it is.                            *)
LEMMA MiningKept ==
  ASSUME IInv, UNCHANGED <<setup, file, order, minCount, loaded, tree>>
  PROVE  /\ Data' = Data /\ (OneOrder' <=> OneOrder) /\ SetupType'
         /\ Stands(tree', LoadedPaths') /\ Leafed(tree')
<1>1. Data' = Data /\ (OneOrder' <=> OneOrder) /\ SetupType'
  BY DataKept DEF IInv
<1>2. LoadedPaths' = LoadedPaths
  <2>1. \A d : Sorted(file[d])' = Sorted(file[d])
    BY DEF Sorted, SortByFreq
  <2>2. QED
    BY <2>1 DEF LoadedPaths
<1>3. QED
  BY <1>1, <1>2 DEF IInv

(* The first frame is that of the whole tree.                              *)
LEMMA MineHolds ==
  ASSUME IInv, MineFPTree
  PROVE  IInv'
<1> DEFINE f == Frame(tree, {})
<1>1. /\ pc = "load" /\ loaded = Len(file) /\ pc' = "mine" /\ frames' = <<f>>
      /\ UNCHANGED <<setup, file, order, minCount, loaded, tree, emitted>>
  BY DEF MineFPTree
<1>2. SetupType /\ Flow /\ Stands(tree, LoadedPaths) /\ Wrote
  BY DEF IInv
<1>3. /\ Data' = Data /\ (OneOrder' <=> OneOrder) /\ SetupType'
      /\ Stands(tree', LoadedPaths') /\ Leafed(tree')
  BY <1>1, MiningKept
<1>4. Flow'
  BY <1>1, <1>2 DEF Flow
<1>5. f = [tree |-> tree, pattern |-> {}, rest |-> TreeItems(tree)]
  BY FrameIs
<1>6. Shaped(f, 1, tree)
  <2>1. Cardinality({}) = 0
    BY FS_EmptySet
  <2>2. 1 - 1 = 0 /\ ~ (1 > 1)
    OBVIOUS
  <2> HIDE DEF f
  <2>3. QED
    BY <1>5, <2>1, <2>2 DEF Shaped
<1>7. Holding(f, Len(file), Data) /\ (OneOrder => HoldingAll(f, Len(file), Data))
  <2>1. f.tree = tree /\ f.pattern = {}
    BY <1>5
  <2> HIDE DEF f
  <2> DEFINE D == 1 .. Len(file)
  <2>2. /\ D \in SUBSET (1 .. Len(file)) /\ LoadedPaths \in [D -> Routes]
        /\ Sound(f, D, LoadedPaths, Data)
        /\ OneOrder => Exact(f, D, LoadedPaths, Data)
    BY <1>1, <1>2, <2>1, RootHolds
  <2> HIDE DEF D
  <2>3. QED
    BY <2>2 DEF Holding, HoldingAll
<1> HIDE DEF f
<1>8. IsStack(<<f>>) /\ Len(<<f>>) = 1 /\ <<f>>[1] = f
  <2>1. <<f>> \in Seq({f}) /\ Len(<<f>>) = 1 /\ <<f>>[1] = f
    OBVIOUS
  <2>2. QED
    BY <2>1 DEF IsStack
<1>9. FramesInv'
  <2>1. 1 .. 1 = {1}
    OBVIOUS
  <2>2. QED
    BY <1>1, <1>3, <1>6, <1>7, <1>8, <2>1 DEF FramesInv
<1>10. Wrote'
  BY <1>1, <1>2, <1>3 DEF Wrote
<1>11. QED
  BY <1>3, <1>4, <1>9, <1>10 DEF IInv

(* Frame f after the turn of an item.                                      *)
LEMMA TurnedHolds ==
  ASSUME SetupType, NEW f, NEW n, NEW item, Shaped(f, n, tree), ~ HasSinglePath(f.tree),
         Holding(f, Len(file), Data), OneOrder => HoldingAll(f, Len(file), Data)
  PROVE  /\ Shaped(Turned(f, item), n, tree) /\ Holding(Turned(f, item), Len(file), Data)
         /\ OneOrder => HoldingAll(Turned(f, item), Len(file), Data)
<1> DEFINE g == Turned(f, item)
<1>1. /\ g = [tree |-> f.tree, pattern |-> f.pattern, rest |-> f.rest \ {item}]
      /\ g.tree = f.tree /\ g.pattern = f.pattern /\ g.rest = f.rest \ {item}
  BY DEF Turned
<1> HIDE DEF g
<1>2. Shaped(g, n, tree)
  <2>1. g = [tree |-> g.tree, pattern |-> g.pattern, rest |-> g.rest]
    BY <1>1
  <2>2. QED
    BY <1>1, <2>1 DEF Shaped
<1>3. Holding(g, Len(file), Data) /\ (OneOrder => HoldingAll(g, Len(file), Data))
  BY <1>1, SameHolding
<1>4. QED
  BY <1>2, <1>3 DEF g

(* The frame of the projection on an item.                                 *)
LEMMA ChildShaped ==
  ASSUME SetupType, NEW f, NEW n \in Nat \ {0}, NEW item \in Data.kept,
         item \in TreeItems(f.tree), Shaped(f, n, tree),
         Holding(f, Len(file), Data), OneOrder => HoldingAll(f, Len(file), Data),
         NEW sub, sub = ConditionalTree(f.tree, item), Nodes(sub) # {},
         NEW g, g = Frame(sub, f.pattern \cup {item})
  PROVE  /\ Shaped(g, n + 1, tree) /\ Holding(g, Len(file), Data)
         /\ OneOrder => HoldingAll(g, Len(file), Data)
         /\ TreeItems(g.tree) \subseteq Over(f.tree, item)
<1>1. /\ g = [tree |-> sub, pattern |-> f.pattern \cup {item}, rest |-> TreeItems(sub)]
      /\ g.tree = sub /\ g.pattern = f.pattern \cup {item} /\ g.rest = TreeItems(sub)
  BY FrameIs
<1>2. item \in Ids /\ item \notin f.pattern
  BY FrameItems
<1>3. f.pattern \subseteq Ids /\ Cardinality(f.pattern) = n - 1
  BY DEF Shaped
<1>4. Cardinality(g.pattern) = (n + 1) - 1
  <2>1. IsFiniteSet(Ids)
    BY MiningAssumption, FS_Interval DEF Ids
  <2>2. IsFiniteSet(f.pattern)
    BY <1>3, <2>1, FS_Subset
  <2>3. Cardinality(f.pattern \cup {item}) = Cardinality(f.pattern) + 1
    BY <1>2, <2>2, FS_AddElement
  <2>4. g.pattern = f.pattern \cup {item}
    BY <1>1
  <2>5. Cardinality(g.pattern) = (n - 1) + 1
    BY <1>3, <2>3, <2>4, Zenon
  <2>6. (n - 1) + 1 = (n + 1) - 1
    OBVIOUS
  <2>7. QED
    BY <2>5, <2>6, Zenon
<1>5. Shaped(g, n + 1, tree)
  <2>1. g = [tree |-> g.tree, pattern |-> g.pattern, rest |-> g.rest]
    BY <1>1
  <2>2. g.pattern \subseteq Ids /\ g.pattern # {}
    BY <1>1, <1>2, <1>3
  <2>3. QED
    BY <1>1, <1>4, <2>1, <2>2 DEF Shaped
<1>6. /\ Holding(g, Len(file), Data) /\ TreeItems(g.tree) \subseteq Over(f.tree, item)
      /\ HoldingAll(f, Len(file), Data) => HoldingAll(g, Len(file), Data)
  BY <1>1, ChildHolds
<1>7. QED
  BY <1>5, <1>6

(* What becomes of the frames in a turn of the loop.                       *)
LEMMA TurnsFrames ==
  ASSUME SetupType, FramesInv, NEW item \in Ids, Turns(item)
  PROVE  /\ IsStack(frames')
         /\ \A k \in 1 .. Len(frames') :
              /\ Shaped(frames'[k], k, tree) /\ Holding(frames'[k], Len(file), Data)
              /\ OneOrder => HoldingAll(frames'[k], Len(file), Data)
<1> DEFINE n       == Len(frames)
           f       == frames[n]
           sub     == ConditionalTree(f.tree, item)
           g       == Frame(sub, f.pattern \cup {item})
           here    == Turn(frames, item)
           Good(h, k) == /\ Shaped(h, k, tree) /\ Holding(h, Len(file), Data)
                         /\ OneOrder => HoldingAll(h, Len(file), Data)
<1>1. /\ frames # << >> /\ item \in f.rest /\ ~ HasSinglePath(f.tree)
      /\ \/ frames' = here
         \/ item \in Data.kept /\ Nodes(sub) # {} /\ frames' = Append(here, g)
  BY DEF Turns
<1>2. n \in Nat \ {0} /\ Good(f, n)
  BY <1>1, TopIs
<1>3. \A k \in 1 .. n : Good(frames[k], k)
  BY DEF FramesInv
<1>4. item \in TreeItems(f.tree)
  BY <1>1, <1>2 DEF Shaped
<1>5. /\ IsStack(here) /\ Len(here) = n
      /\ \A k \in 1 .. n : here[k] = IF k < n THEN frames[k] ELSE Turned(f, item)
  BY <1>1, TurnIs DEF FramesInv
<1> HIDE DEF here, f
<1>6. Good(Turned(f, item), n)
  BY <1>1, <1>2, TurnedHolds
<1>7. ASSUME item \in Data.kept, Nodes(sub) # {} PROVE Good(g, n + 1)
  <2> HIDE DEF n
  <2>1. QED
    BY <1>2, <1>4, <1>7, ChildShaped
<1> HIDE DEF n, g, sub, Good
<1>8. \A k \in 1 .. n : Good(here[k], k)
  <2>1. ASSUME NEW k \in 1 .. n PROVE Good(here[k], k)
    <3>1. CASE k < n
      BY <1>3, <1>5, <3>1
    <3>2. CASE ~ (k < n)
      <4>1. k = n
        BY <1>2, <3>2
      <4>2. QED
        BY <1>2, <1>5, <1>6, <3>2, <4>1
    <3>3. QED
      BY <3>1, <3>2
  <2>2. QED
    BY <2>1
<1>9. ASSUME frames' = here
      PROVE  IsStack(frames') /\ \A k \in 1 .. Len(frames') : Good(frames'[k], k)
  BY <1>5, <1>8, <1>9
<1>10. ASSUME item \in Data.kept, Nodes(sub) # {}, frames' = Append(here, g)
       PROVE  IsStack(frames') /\ \A k \in 1 .. Len(frames') : Good(frames'[k], k)
  <2>1. /\ IsStack(Append(here, g)) /\ Len(Append(here, g)) = n + 1
        /\ \A k \in 1 .. (n + 1) : Append(here, g)[k] = IF k <= n THEN here[k] ELSE g
    BY <1>5, StackPush
  <2>2. ASSUME NEW k \in 1 .. (n + 1) PROVE Good(Append(here, g)[k], k)
    <3>1. CASE k <= n
      <4>1. k \in 1 .. n
        BY <1>2, <3>1
      <4>2. QED
        BY <1>8, <2>1, <3>1, <4>1
    <3>2. CASE ~ (k <= n)
      <4>1. k = n + 1
        BY <1>2, <3>2
      <4>2. QED
        BY <1>7, <1>10, <2>1, <3>2, <4>1
    <3>3. QED
      BY <3>1, <3>2
  <2>3. QED
    BY <1>10, <2>1, <2>2
<1>11. QED
  BY <1>1, <1>9, <1>10 DEF Good

(* What a turn writes.                                                     *)
LEMMA TurnsWrites ==
  ASSUME SetupType, FramesInv, emitted \in [Patterns -> Nat], Wrote,
         NEW item \in Ids, Turns(item)
  PROVE  /\ emitted' \in [Patterns -> Nat]
         /\ \A S \in Patterns : emitted'[S] > 0 =>
              /\ S \subseteq Data.kept
              /\ ~ HasSinglePath(tree) => Support(Data, S) >= minCount
<1> DEFINE f       == frames[Len(frames)]
           pattern == f.pattern \cup {item}
<1>1. /\ frames # << >> /\ item \in f.rest
      /\ \/ emitted' = emitted
         \/ /\ item \in Data.kept /\ Support(Data, {item}) >= minCount
            /\ emitted' = [emitted EXCEPT ![pattern] = @ + 1]
  BY DEF Turns
<1>2. /\ Shaped(f, Len(frames), tree) /\ Holding(f, Len(file), Data) /\ f.pattern \subseteq Data.kept
  BY <1>1, TopIs
<1> HIDE DEF f
<1>3. item \in TreeItems(f.tree) /\ pattern \in Patterns
  BY <1>1, <1>2 DEF Shaped, Patterns
<1>4. ASSUME item \in Data.kept, Support(Data, {item}) >= minCount
      PROVE  pattern \subseteq Data.kept /\ Support(Data, pattern) >= minCount
  <2>1. CASE f.pattern = {}
    <3>1. pattern = {item}
      BY <2>1
    <3>2. QED
      BY <1>4, <3>1
  <2>2. CASE f.pattern # {}
    BY <1>2, <1>3, <1>4, <2>2, FrameWanted
  <2>3. QED
    BY <2>1, <2>2
<1> HIDE DEF pattern
<1>5. CASE emitted' = emitted
  BY <1>5 DEF Wrote
<1>6. CASE /\ item \in Data.kept /\ Support(Data, {item}) >= minCount
           /\ emitted' = [emitted EXCEPT ![pattern] = @ + 1]
  <2>1. emitted' \in [Patterns -> Nat]
    BY <1>3, <1>6
  <2>2. \A S \in Patterns : emitted'[S] = IF S = pattern THEN emitted[S] + 1 ELSE emitted[S]
    BY <1>3, <1>6
  <2>3. ASSUME NEW S \in Patterns, emitted'[S] > 0
        PROVE  /\ S \subseteq Data.kept
               /\ ~ HasSinglePath(tree) => Support(Data, S) >= minCount
    <3>1. CASE S = pattern
      BY <1>4, <1>6, <3>1
    <3>2. CASE S # pattern
      BY <2>2, <2>3, <3>2 DEF Wrote
    <3>3. QED
      BY <3>1, <3>2
  <2>4. QED
    BY <2>1, <2>3
<1>7. QED
  BY <1>1, <1>5, <1>6

(* A turn of the loop keeps the invariant.                                 *)
LEMMA MineItemHolds ==
  ASSUME IInv, MineItem
  PROVE  IInv'
<1>1. /\ pc = "mine" /\ UNCHANGED <<pc, setup, file, order, minCount, loaded, tree>>
  BY DEF MineItem
<1>2. SetupType /\ Flow /\ FramesInv /\ Wrote /\ emitted \in [Patterns -> Nat]
  BY DEF IInv, Flow
<1>3. PICK item \in Ids : Turns(item)
  BY <1>2, MineItemIs
<1>4. /\ Data' = Data /\ (OneOrder' <=> OneOrder) /\ SetupType'
      /\ Stands(tree', LoadedPaths') /\ Leafed(tree')
  BY <1>1, MiningKept
<1>5. /\ emitted' \in [Patterns -> Nat]
      /\ \A S \in Patterns : emitted'[S] > 0 =>
           /\ S \subseteq Data.kept
           /\ ~ HasSinglePath(tree) => Support(Data, S) >= minCount
  BY <1>2, <1>3, TurnsWrites
<1>6. Flow'
  BY <1>1, <1>2, <1>5 DEF Flow
<1>7. Wrote'
  BY <1>1, <1>4, <1>5 DEF Wrote
<1>8. FramesInv'
  <2>1. /\ IsStack(frames')
        /\ \A k \in 1 .. Len(frames') :
             /\ Shaped(frames'[k], k, tree) /\ Holding(frames'[k], Len(file), Data)
             /\ OneOrder => HoldingAll(frames'[k], Len(file), Data)
    BY <1>2, <1>3, TurnsFrames
  <2>2. QED
    BY <1>1, <1>4, <2>1 DEF FramesInv
<1>9. QED
  BY <1>4, <1>6, <1>7, <1>8 DEF IInv

(* What the calling frames are.                                            *)
LEMMA CallerIs ==
  ASSUME IsStack(frames), frames # << >>
  PROVE  /\ IsStack(Caller) /\ Len(Caller) = Len(frames) - 1
         /\ \A k \in 1 .. Len(Caller) : Caller[k] = frames[k] /\ k \in 1 .. Len(frames)
<1>1. Len(frames) \in Nat /\ Len(frames) # 0
  BY StackIs
<1>2. /\ IsStack(Caller) /\ Len(Caller) = Len(frames) - 1
      /\ \A k \in 1 .. (Len(frames) - 1) : Caller[k] = frames[k]
  BY StackPop DEF Caller
<1>3. \A k \in 1 .. (Len(frames) - 1) : k \in 1 .. Len(frames)
  BY <1>1
<1>4. QED
  BY <1>2, <1>3

(* A call that ends leaves the others as they are.                         *)
LEMMA CallerHolds ==
  ASSUME IInv, frames # << >>, frames' = Caller,
         UNCHANGED <<setup, file, order, minCount, loaded, tree>>
  PROVE  FramesInv'
<1>1. /\ Data' = Data /\ (OneOrder' <=> OneOrder)
  BY MiningKept
<1>2. FramesInv
  BY DEF IInv
<1>3. /\ IsStack(frames') /\ \A k \in 1 .. Len(frames') : frames'[k] = frames[k]
                                                            /\ k \in 1 .. Len(frames)
  BY <1>2, CallerIs DEF FramesInv
<1>4. QED
  BY <1>1, <1>2, <1>3 DEF FramesInv

(* The items of a single path that make patterns.                          *)
LEMMA KeptInPathIs ==
  ASSUME NEW t, TreeItems(t) \subseteq Ids, SetupType
  PROVE  /\ KeptInPath(t) \subseteq TreeItems(t) \cap Data.kept
         /\ setup.pruneDepth = Unpruned /\ (\A p \in Nodes(t) : Len(p) <= NumItems) =>
              KeptInPath(t) = TreeItems(t) \cap Data.kept
<1>1. Data.kept = {i \in Ids : ShouldKeep(i)}
  BY FileIs
<1>2. KeptInPath(t) \subseteq TreeItems(t) \cap Data.kept
  BY <1>1 DEF KeptInPath, TreeItems
<1>3. ASSUME setup.pruneDepth = Unpruned, \A p \in Nodes(t) : Len(p) <= NumItems,
             NEW i \in TreeItems(t) \cap Data.kept
      PROVE  i \in KeptInPath(t)
  <2>1. PICK p \in Nodes(t) : ItemOf(p) = i
    BY DEF TreeItems
  <2>2. Len(p) <= NumItems /\ setup.pruneDepth = NumItems + 1 /\ NumItems \in Nat
    BY <1>3, MiningAssumption DEF Unpruned
  <2>3. Len(p) \in Int => Len(p) < setup.pruneDepth
    BY <2>2
  <2>4. QED
    BY <1>1, <2>1, <2>3 DEF KeptInPath
<1>4. QED
  BY <1>2, <1>3

(* The short cut writes choices of the items of its path.                  *)
LEMMA PathWrites ==
  ASSUME SetupType, FramesInv, emitted \in [Patterns -> Nat], Wrote, AddPatternsInPath
  PROVE  /\ emitted' \in [Patterns -> Nat]
         /\ \A S \in Patterns : emitted'[S] > 0 =>
              /\ S \subseteq Data.kept
              /\ ~ HasSinglePath(tree) => Support(Data, S) >= minCount
<1> DEFINE f     == frames[Len(frames)]
           items == KeptInPath(f.tree)
           found == {f.pattern \cup S : S \in (SUBSET items) \ {{}}}
<1>1. frames # << >> /\ HasSinglePath(Top.tree)
  BY DEF AddPatternsInPath
<1>2. /\ Top = f /\ Shaped(f, Len(frames), tree) /\ Holding(f, Len(file), Data)
      /\ f.pattern \subseteq Data.kept /\ TreeItems(f.tree) \subseteq Ids
  BY <1>1, TopIs
<1>3. emitted' = [pattern \in Patterns |->
                    emitted[pattern] + (IF pattern \in found THEN 1 ELSE 0)]
  BY <1>2 DEF AddPatternsInPath
<1> HIDE DEF f
<1>4. items \subseteq TreeItems(f.tree) \cap Data.kept
  BY <1>2, KeptInPathIs
<1>5. ASSUME NEW S \in found
      PROVE  S \subseteq Data.kept /\ (~ HasSinglePath(tree) => Support(Data, S) >= minCount)
  <2>1. PICK X \in (SUBSET items) \ {{}} : S = f.pattern \cup X
    OBVIOUS
  <2>2. X \in SUBSET TreeItems(f.tree) /\ X # {} /\ X \subseteq Data.kept
    BY <1>4
  <2>3. CASE f.pattern = {}
    BY <1>1, <1>2, <2>1, <2>2, <2>3 DEF Shaped
  <2>4. CASE f.pattern # {}
    <3>1. Support(Data, f.pattern \cup X) >= minCount
      BY <1>1, <1>2, <2>2, <2>4, FrameWanted
    <3>2. QED
      BY <1>2, <2>1, <2>2, <3>1
  <2>5. QED
    BY <2>3, <2>4
<1> HIDE DEF found
<1>6. emitted' \in [Patterns -> Nat]
  <2>1. \A S \in Patterns : emitted[S] + (IF S \in found THEN 1 ELSE 0) \in Nat
    OBVIOUS
  <2>2. QED
    BY <1>3, <2>1
<1>7. \A S \in Patterns : S \notin found => emitted'[S] = emitted[S]
  BY <1>3
<1>8. QED
  BY <1>5, <1>6, <1>7 DEF Wrote

(* The short cut keeps the invariant.                                      *)
LEMMA PathHolds ==
  ASSUME IInv, AddPatternsInPath
  PROVE  IInv'
<1>1. /\ pc = "mine" /\ frames # << >> /\ frames' = Caller
      /\ UNCHANGED <<pc, setup, file, order, minCount, loaded, tree>>
  BY DEF AddPatternsInPath
<1>2. SetupType /\ Flow /\ FramesInv /\ Wrote /\ emitted \in [Patterns -> Nat]
  BY DEF IInv, Flow
<1>3. /\ Data' = Data /\ SetupType' /\ Stands(tree', LoadedPaths') /\ Leafed(tree')
  BY <1>1, MiningKept
<1>4. /\ emitted' \in [Patterns -> Nat]
      /\ \A S \in Patterns : emitted'[S] > 0 =>
           /\ S \subseteq Data.kept
           /\ ~ HasSinglePath(tree) => Support(Data, S) >= minCount
  BY <1>2, PathWrites
<1>5. Flow'
  BY <1>1, <1>2, <1>4 DEF Flow
<1>6. Wrote'
  BY <1>1, <1>3, <1>4 DEF Wrote
<1>7. FramesInv'
  BY <1>1, CallerHolds
<1>8. QED
  BY <1>3, <1>5, <1>6, <1>7 DEF IInv

(* So do the return and the end.                                           *)
LEMMA ReturnHolds ==
  ASSUME IInv, Return \/ Close \/ UNCHANGED vars
  PROVE  IInv'
<1>1. /\ UNCHANGED <<setup, file, order, minCount, loaded, tree, emitted>>
      /\ \/ pc = "mine" /\ pc' = pc /\ frames # << >> /\ frames' = Caller
         \/ pc = "mine" /\ pc' = "done" /\ frames = << >> /\ frames' = frames
         \/ pc' = pc /\ frames' = frames
  BY DEF Return, Close, vars
<1>2. SetupType /\ Flow /\ FramesInv /\ Wrote
  BY DEF IInv
<1>3. /\ Data' = Data /\ (OneOrder' <=> OneOrder) /\ SetupType'
      /\ Stands(tree', LoadedPaths') /\ Leafed(tree')
  BY <1>1, MiningKept
<1>4. Flow'
  BY <1>1, <1>2 DEF Flow
<1>5. Wrote'
  BY <1>1, <1>2, <1>3 DEF Wrote
<1>6. FramesInv'
  <2>1. CASE frames # << >> /\ frames' = Caller
    BY <1>1, <2>1, CallerHolds
  <2>2. CASE frames' = frames
    BY <1>1, <1>2, <1>3, <2>2 DEF FramesInv
  <2>3. QED
    BY <1>1, <2>1, <2>2
<1>7. QED
  BY <1>3, <1>4, <1>5, <1>6 DEF IInv

(* The invariant holds.                                                    *)
THEOREM IInvHolds == Spec => []IInv
<1>1. Init => IInv
  BY InitHolds
<1>2. IInv /\ [Next]_vars => IInv'
  <2> SUFFICES ASSUME IInv, [Next]_vars PROVE IInv'
    OBVIOUS
  <2>1. CASE OnLoad
    BY <2>1, LoadHolds
  <2>2. CASE MineFPTree
    BY <2>2, MineHolds
  <2>3. CASE MineItem
    BY <2>3, MineItemHolds
  <2>4. CASE AddPatternsInPath
    BY <2>4, PathHolds
  <2>5. CASE Return \/ Close \/ UNCHANGED vars
    BY <2>5, ReturnHolds
  <2>6. CASE Terminated
    BY <2>6, ReturnHolds DEF Terminated
  <2>7. QED
    BY <2>1, <2>2, <2>3, <2>4, <2>5, <2>6 DEF Next
<1>3. QED
  BY <1>1, <1>2, PTL DEF Spec

-----------------------------------------------------------------------------
(* What the invariant shows.                                               *)

(* The nodes of the tree are lines.                                        *)
LEMMA RootNodes ==
  ASSUME IInv
  PROVE  Nodes(tree) \subseteq Lines
<1>1. SetupType /\ Stands(tree, LoadedPaths) /\ loaded \in 0 .. Len(file)
  BY DEF IInv, Flow
<1>2. ASSUME NEW p \in Nodes(tree) PROVE p \in Lines
  <2>1. DOMAIN LoadedPaths = 1 .. loaded /\ \A d \in 1 .. loaded : LoadedPaths[d] = Sorted(file[d])
    BY DEF LoadedPaths
  <2>2. \E d \in DOMAIN LoadedPaths : p \in Way(LoadedPaths[d])
    BY <1>1 DEF Stands, Nodes, AllWays
  <2>3. PICK d \in 1 .. loaded : p \in Way(Sorted(file[d]))
    BY <2>1, <2>2
  <2>4. d \in 1 .. Len(file)
    BY <1>1, FileIs
  <2> DEFINE q == Sorted(file[d])
  <2>5. q \in Routes /\ On(q) \subseteq Ids
    <3>1. q \in Routes /\ On(q) = ItemsOf(file[d])
      BY <1>1, <2>4, SortedIs
    <3>2. file[d] \in Lines
      BY <1>1, <2>4, FileIs
    <3>3. QED
      BY <3>1, <3>2, LineIs
  <2>6. p \in Way(q)
    BY <2>3
  <2> HIDE DEF q
  <2>7. p \in Routes /\ p # << >> /\ ItemOf(p) \in On(q)
    BY <2>5, <2>6, NodeItems
  <2>8. On(p) \subseteq On(q)
    <3>1. \A a \in On(p) : a = ItemOf(p) \/ Before(q, a, ItemOf(p))
      BY <2>5, <2>6, NodeItems
    <3>2. QED
      BY <2>5, <2>7, <3>1, BeforeIs
  <2>9. QED
    BY <2>5, <2>7, <2>8, RouteIsLine
<1>3. QED
  BY <1>2

(* There are not more frames than items.                                   *)
LEMMA DepthIs ==
  ASSUME SetupType, FramesInv
  PROVE  Len(frames) <= NumItems
<1>1. NumItems \in Nat /\ NumItems >= 1 /\ Len(frames) \in Nat
  BY MiningAssumption, StackIs DEF FramesInv
<1>2. CASE Len(frames) <= 1
  BY <1>1, <1>2
<1>3. CASE Len(frames) > 1
  <2> DEFINE f == frames[Len(frames)]
             n == Len(frames)
  <2>1. frames # << >>
    BY <1>3, StackIs DEF FramesInv
  <2>2. /\ Shaped(f, n, tree) /\ TreeItems(f.tree) \subseteq Ids
        /\ TreeItems(f.tree) \cap f.pattern = {}
    BY <2>1, TopIs
  <2> HIDE DEF f
  <2>3. /\ f.pattern \subseteq Ids /\ Cardinality(f.pattern) = n - 1 /\ Nodes(f.tree) # {}
    BY <1>3, <2>2 DEF Shaped
  <2>4. \E x : x \in TreeItems(f.tree)
    BY <2>3 DEF TreeItems
  <2>5. PICK x : x \in Ids /\ x \notin f.pattern
    BY <2>2, <2>4
  <2>6. IsFiniteSet(Ids) /\ Cardinality(Ids) = NumItems
    BY <1>1, FS_Interval DEF Ids
  <2> DEFINE all == f.pattern \cup {x}
  <2>7. all \in SUBSET Ids
    BY <2>3, <2>5
  <2>8. IsFiniteSet(f.pattern)
    BY <2>3, <2>6, FS_Subset
  <2>9. Cardinality(all) = Cardinality(f.pattern) + 1
    BY <2>5, <2>8, FS_AddElement
  <2> HIDE DEF all
  <2>10. Cardinality(all) <= Cardinality(Ids)
    BY <2>6, <2>7, FS_Subset
  <2>11. n \in Nat /\ Cardinality(all) = (n - 1) + 1
    BY <1>1, <2>3, <2>9
  <2>12. QED
    BY <1>1, <2>6, <2>10, <2>11
<1>4. QED
  BY <1>1, <1>2, <1>3

(* Every variable has its type, and the recursion is never deeper than     *)
(* there are items.                                                        *)
THEOREM TypeHolds == Spec => []TypeOK
<1>1. IInv => TypeOK
  <2> SUFFICES ASSUME IInv PROVE TypeOK
    OBVIOUS
  <2>1. SetupType /\ Flow /\ FramesInv
    BY DEF IInv
  <2>2. \A k \in 1 .. Len(frames) :
          /\ Nodes(frames[k].tree) \subseteq Lines
          /\ frames[k].pattern \cup frames[k].rest \subseteq Ids
          /\ frames[k].pattern \cap frames[k].rest = {}
    <3>1. ASSUME NEW f, NEW k, Shaped(f, k, tree), Holding(f, Len(file), Data)
          PROVE  /\ Nodes(f.tree) \subseteq Lines
                 /\ f.pattern \cup f.rest \subseteq Ids /\ f.pattern \cap f.rest = {}
      <4>1. /\ TreeItems(f.tree) \subseteq Ids /\ TreeItems(f.tree) \cap f.pattern = {}
            /\ Nodes(f.tree) \subseteq Lines
        BY <2>1, <3>1, FrameItems
      <4>2. f.pattern \subseteq Ids /\ f.rest \subseteq TreeItems(f.tree)
        BY <3>1 DEF Shaped
      <4>3. QED
        BY <4>1, <4>2
    <3>2. QED
      BY <2>1, <3>1 DEF FramesInv
  <2>3. DOMAIN frames = 1 .. Len(frames)
    BY <2>1, StackIs DEF FramesInv
  <2>4. Nodes(tree) \subseteq Lines
    BY RootNodes
  <2>5. Len(frames) <= NumItems
    BY <2>1, DepthIs
  <2>6. QED
    BY <2>1, <2>2, <2>3, <2>4, <2>5 DEF TypeOK, Flow, SetupType
<1>2. QED
  BY <1>1, IInvHolds, PTL

(* No pattern with an item that is filtered out is written; and, unless    *)
(* the whole tree is one path, only frequent itemsets are.                 *)
THEOREM WrittenAreWanted == Spec => []EmittedAreWanted
<1>1. IInv => EmittedAreWanted
  <2> SUFFICES ASSUME IInv PROVE EmittedAreWanted
    OBVIOUS
  <2>1. SetupType /\ Wrote
    BY DEF IInv
  <2>2. /\ Data.kept = {i \in Ids : ShouldKeep(i)}
        /\ \A S : Count(S) = Support(Data, S)
    BY <2>1, FileIs
  <2>3. QED
    BY <2>1, <2>2 DEF Wrote, EmittedAreWanted
<1>2. QED
  BY <1>1, IInvHolds, PTL

(* What the tree of a frame counts.                                        *)
LEMMA FrameCounts ==
  ASSUME NEW w, IsData(w), NEW D \in SUBSET (DOMAIN w.sets), NEW Q \in [D -> Routes],
         NEW f, Sound(f, D, Q, w), NEW S \in SUBSET TreeItems(f.tree), S # {}
  PROVE  /\ CountInTree(f.tree, S) <= Support(w, f.pattern \cup S)
         /\ Exact(f, D, Q, w) /\ w.depth = Unpruned =>
              CountInTree(f.tree, S) = Support(w, f.pattern \cup S)
<1>1. IsFiniteSet(D) /\ Stands(f.tree, Q)
  BY LinesFinite DEF Sound
<1>2. CountInTree(f.tree, S) = Shared(D, Q, S)
  BY <1>1, CountInTreeIs DEF Shared
<1>3. /\ Shared(D, Q, S) <= Support(w, f.pattern \cup S)
      /\ Exact(f, D, Q, w) /\ w.depth = Unpruned =>
           Shared(D, Q, S) = Support(w, f.pattern \cup S)
  BY TreeSupport
<1>4. QED
  BY <1>2, <1>3

(* The tree of every activation is the projection of the file on its       *)
(* pattern: whatever std::sort does with equal items, no set of its items  *)
(* is counted more often than in the file, and none is filtered out; and   *)
(* if equal items have one order, no node being pruned, sets are counted   *)
(* just as often.                                                          *)
THEOREM FramesProject == Spec => []FramesAreProjections
<1>1. IInv => FramesAreProjections
  <2> SUFFICES ASSUME IInv, NEW k \in DOMAIN frames
               PROVE  LET f     == frames[k]
                          items == {ItemOf(p) : p \in Nodes(f.tree)}
                      IN /\ \A S \in (SUBSET items) \ {{}} :
                              /\ CountInTree(f.tree, S) <= Count(f.pattern \cup S)
                              /\ OneOrder /\ setup.pruneDepth = Unpruned =>
                                   CountInTree(f.tree, S) = Count(f.pattern \cup S)
                         /\ f.pattern # {} => \A i \in items : ShouldKeep(i)
    BY DEF FramesAreProjections
  <2> DEFINE f == frames[k]
  <2>1. SetupType /\ FramesInv
    BY DEF IInv
  <2>2. k \in 1 .. Len(frames)
    BY <2>1, StackIs DEF FramesInv
  <2>3. Holding(f, Len(file), Data) /\ (OneOrder => HoldingAll(f, Len(file), Data))
    BY <2>1, <2>2 DEF FramesInv
  <2> HIDE DEF f
  <2>4. /\ IsData(Data) /\ DOMAIN Data.sets = 1 .. Len(file)
        /\ Data.kept = {i \in Ids : ShouldKeep(i)} /\ Data.depth = setup.pruneDepth
        /\ \A S : Count(S) = Support(Data, S)
    BY <2>1, FileIs
  <2>5. ASSUME NEW S \in SUBSET TreeItems(f.tree), S # {}
        PROVE  CountInTree(f.tree, S) <= Support(Data, f.pattern \cup S)
    <3>1. \E D \in SUBSET (DOMAIN Data.sets) : \E Q \in [D -> Routes] : Sound(f, D, Q, Data)
      BY <2>3, <2>4 DEF Holding
    <3>2. QED
      BY <2>4, <2>5, <3>1, FrameCounts
  <2>6. ASSUME NEW S \in SUBSET TreeItems(f.tree), S # {}, OneOrder, Data.depth = Unpruned
        PROVE  CountInTree(f.tree, S) = Support(Data, f.pattern \cup S)
    <3>1. \E D \in SUBSET (DOMAIN Data.sets) : \E Q \in [D -> Routes] :
            Sound(f, D, Q, Data) /\ Exact(f, D, Q, Data)
      BY <2>3, <2>4, <2>6 DEF HoldingAll
    <3>2. QED
      BY <2>4, <2>6, <3>1, FrameCounts
  <2>7. f.pattern # {} => \A i \in TreeItems(f.tree) : ShouldKeep(i)
    BY <2>1, <2>3, <2>4, FrameWanted
  <2>8. ASSUME NEW S \in (SUBSET TreeItems(f.tree)) \ {{}}
        PROVE  /\ CountInTree(f.tree, S) <= Count(f.pattern \cup S)
               /\ OneOrder /\ setup.pruneDepth = Unpruned =>
                    CountInTree(f.tree, S) = Count(f.pattern \cup S)
    BY <2>4, <2>5, <2>6
  <2>9. QED
    BY <2>7, <2>8 DEF f, TreeItems
<1>2. QED
  BY <1>1, IInvHolds, PTL

-----------------------------------------------------------------------------
(* Each pattern in one turn of the loop: the turns that are left.          *)

(* No pattern is written twice: what is still pending has not been         *)
(* written, and is pending in one place.                                   *)
Once(s, em) ==
  \A S \in Patterns :
    /\ em[S] <= 1
    /\ \A k, i : Pends(s, k, i, S) => em[S] = 0
    /\ \A k, i, l, j : Pends(s, k, i, S) /\ Pends(s, l, j, S) => k = l /\ i = j

(* No frequent pattern of kept items is lost: it is written or pending.    *)
Full(s, em, w) ==
  w.depth = Unpruned =>
    \A S \in Patterns :
      S \subseteq w.kept /\ Support(w, S) >= w.min =>
        em[S] > 0 \/ \E k, i : Pends(s, k, i, S)

Tracks == OneOrder => /\ Once(frames, emitted)
                      /\ pc # "load" => Full(frames, emitted, Data)

(* In the tree of an exact frame, no two items are above one another.      *)
LEMMA SoundOver ==
  ASSUME NEW w, IsData(w), NEW D \in SUBSET (DOMAIN w.sets), NEW Q \in [D -> Routes],
         NEW f, Sound(f, D, Q, w)
  PROVE  /\ \A x : Over(f.tree, x) \subseteq TreeItems(f.tree)
         /\ Exact(f, D, Q, w) =>
              \A a, b : a \in Over(f.tree, b) => b \notin Over(f.tree, a)
         /\ HasSinglePath(f.tree) =>
              \A X \in SUBSET TreeItems(f.tree) :
                 X # {} => \E x \in X : X \ {x} \subseteq Over(f.tree, x)
<1>1. IsFiniteSet(D) /\ Stands(f.tree, Q)
  BY LinesFinite DEF Sound
<1>2. /\ \A x : x \in TreeItems(f.tree) <=> \E d \in D : x \in On(Q[d])
      /\ \A a, x : a \in Over(f.tree, x) <=> \E d \in D : Before(Q[d], a, x)
  BY <1>1, TreeItemsAre
<1>3. \A x : Over(f.tree, x) \subseteq TreeItems(f.tree)
  <2>1. ASSUME NEW x, NEW a \in Over(f.tree, x) PROVE a \in TreeItems(f.tree)
    <3>1. PICK d \in D : Before(Q[d], a, x)
      BY <1>2
    <3>2. Q[d] \in Routes
      OBVIOUS
    <3>3. a \in On(Q[d])
      BY <3>1, <3>2, BeforeIs
    <3>4. QED
      BY <1>2, <3>3
  <2>2. QED
    BY <2>1
<1>4. ASSUME Exact(f, D, Q, w), NEW a, NEW b, a \in Over(f.tree, b), b \in Over(f.tree, a)
      PROVE  FALSE
  <2>1. \A d, e \in D : \A x, y : Before(Q[d], x, y) => ~ Before(Q[e], y, x)
    BY <1>4 DEF Exact
  <2>2. QED
    BY <1>2, <1>4, <2>1
<1>5. ASSUME HasSinglePath(f.tree), NEW X \in SUBSET TreeItems(f.tree), X # {}
      PROVE  \E x \in X : X \ {x} \subseteq Over(f.tree, x)
  <2>1. \A d \in D : On(Q[d]) \subseteq 1 .. NumItems
    BY DEF Sound, IsData, Ids
  <2>2. NumItems \in Nat
    BY MiningAssumption
  <2>3. \E x \in X : \A d \in D : x \in On(Q[d]) => \A a \in X : a = x \/ Before(Q[d], a, x)
    BY <1>1, <1>5, <2>1, <2>2, SinglePath
  <2>4. PICK x \in X : \A d \in D : x \in On(Q[d]) => \A a \in X : a = x \/ Before(Q[d], a, x)
    BY <2>3
  <2>5. PICK d \in D : x \in On(Q[d])
    BY <1>2, <2>4
  <2>6. \A a \in X : a = x \/ a \in Over(f.tree, x)
    BY <1>2, <2>4, <2>5
  <2>7. QED
    BY <2>4, <2>6
<1>6. QED
  BY <1>3, <1>4, <1>5

(* So in the tree of a frame.                                              *)
LEMMA FrameOver ==
  ASSUME SetupType, NEW f, Holding(f, Len(file), Data)
  PROVE  /\ \A x : Over(f.tree, x) \subseteq TreeItems(f.tree)
         /\ HoldingAll(f, Len(file), Data) =>
              \A a, b : a \in Over(f.tree, b) => b \notin Over(f.tree, a)
         /\ HasSinglePath(f.tree) =>
              \A X \in SUBSET TreeItems(f.tree) :
                 X # {} => \E x \in X : X \ {x} \subseteq Over(f.tree, x)
<1>1. IsData(Data) /\ DOMAIN Data.sets = 1 .. Len(file)
  BY FileIs
<1>2. \E D \in SUBSET (DOMAIN Data.sets) : \E Q \in [D -> Routes] : Sound(f, D, Q, Data)
  BY <1>1 DEF Holding
<1>3. HoldingAll(f, Len(file), Data) =>
        \E D \in SUBSET (DOMAIN Data.sets) : \E Q \in [D -> Routes] :
           Sound(f, D, Q, Data) /\ Exact(f, D, Q, Data)
  BY <1>1 DEF HoldingAll
<1>4. QED
  BY <1>1, <1>2, <1>3, SoundOver

(* What is pending at an item of a frame that is frequent goes on in the   *)
(* tree of the projection.                                                 *)
LEMMA FrameDescends ==
  ASSUME SetupType, setup.pruneDepth = Unpruned, NEW f, HoldingAll(f, Len(file), Data),
         NEW item \in Data.kept, item \in TreeItems(f.tree),
         NEW S, f.pattern \cup {item} \subseteq S, S # f.pattern \cup {item},
         S \ (f.pattern \cup {item}) \subseteq Over(f.tree, item), Support(Data, S) >= minCount
  PROVE  \E j \in S \ (f.pattern \cup {item}) :
            /\ j \in TreeItems(ConditionalTree(f.tree, item))
            /\ S \ (f.pattern \cup {item} \cup {j}) \subseteq Over(ConditionalTree(f.tree, item), j)
<1> DEFINE sub == ConditionalTree(f.tree, item)
           w == Data
<1>1. /\ IsData(w) /\ DOMAIN w.sets = 1 .. Len(file)
      /\ w.min = minCount /\ w.depth = setup.pruneDepth /\ w.stable = setup.stable
  BY FileIs
<1>2. \E D \in SUBSET (DOMAIN w.sets) : \E Q \in [D -> Routes] :
        Sound(f, D, Q, w) /\ Exact(f, D, Q, w)
  BY <1>1 DEF HoldingAll
<1>3. item \in w.kept /\ Support(w, S) >= w.min
  BY <1>1
<1> HIDE DEF w, sub
<1>4. ASSUME NEW D \in SUBSET (DOMAIN w.sets), NEW Q \in [D -> Routes],
             Sound(f, D, Q, w), Exact(f, D, Q, w)
      PROVE  \E j \in S \ (f.pattern \cup {item}) :
                j \in TreeItems(sub) /\ S \ (f.pattern \cup {item} \cup {j}) \subseteq Over(sub, j)
  <2>1. /\ IsFiniteSet(D) /\ Stands(f.tree, Q) /\ Cardinality(D) <= MaxTxns
        /\ \A d \in D : On(Q[d]) \subseteq Ids
    <3>1. IsFiniteSet(D) /\ Cardinality(D) <= MaxTxns
      BY <1>1, LinesFinite
    <3>2. QED
      BY <1>1, <1>4, <3>1 DEF Sound, IsData
  <2>2. minCount \in Nat /\ NumItems \in Nat
    BY <1>1, MiningAssumption DEF IsData
  <2>3. \E E \in SUBSET D : \E R \in [E -> Routes] : Projects(D, Q, item, sub, E, R)
    BY <2>1, <2>2, ConditionalIs DEF sub
  <2>4. ASSUME NEW E \in SUBSET D, NEW R \in [E -> Routes], Projects(D, Q, item, sub, E, R)
        PROVE  \E j \in S \ (f.pattern \cup {item}) :
                 j \in TreeItems(sub) /\ S \ (f.pattern \cup {item} \cup {j}) \subseteq Over(sub, j)
    BY <1>1, <1>3, <1>4, <2>4, Descends
  <2>5. QED
    BY <2>3, <2>4
<1>5. QED
  BY <1>2, <1>4 DEF sub

(* A stack one frame higher.                                               *)
LEMMA PendsPush ==
  ASSUME NEW s, IsStack(s), NEW g, NEW k, NEW i, NEW S
  PROVE  Pends(Append(s, g), k, i, S) <=>
           \/ Pends(s, k, i, S)
           \/ /\ k = Len(s) + 1 /\ i \in g.rest /\ g.pattern \cup {i} \subseteq S
              /\ S \ (g.pattern \cup {i}) \subseteq Over(g.tree, i)
<1>1. /\ Len(Append(s, g)) = Len(s) + 1 /\ Len(s) \in Nat
      /\ \A m \in 1 .. (Len(s) + 1) : Append(s, g)[m] = IF m <= Len(s) THEN s[m] ELSE g
  BY StackPush, StackIs
<1> DEFINE t == Append(s, g)
<1> HIDE DEF t
<1>2. k \in 1 .. (Len(s) + 1) <=> k \in 1 .. Len(s) \/ k = Len(s) + 1
  BY <1>1
<1>3. CASE k \in 1 .. Len(s)
  <2>1. t[k] = s[k] /\ k # Len(s) + 1
    BY <1>1, <1>3 DEF t
  <2>2. Pends(t, k, i, S) <=> Pends(s, k, i, S)
    BY <1>1, <1>2, <1>3, <2>1 DEF Pends, t
  <2>3. QED
    BY <2>1, <2>2 DEF t
<1>4. CASE k = Len(s) + 1
  <2>1. t[k] = g /\ k \notin 1 .. Len(s)
    BY <1>1, <1>4 DEF t
  <2>2. QED
    BY <1>1, <1>2, <1>4, <2>1 DEF Pends, t
<1>5. CASE k \notin 1 .. Len(s) /\ k # Len(s) + 1
  BY <1>1, <1>2, <1>5 DEF Pends
<1>6. QED
  BY <1>3, <1>4, <1>5

(* A turn taken is no longer pending.                                      *)
LEMMA PendsTurn ==
  ASSUME NEW s, IsStack(s), s # << >>, NEW item, NEW k, NEW i, NEW S
  PROVE  Pends(Turn(s, item), k, i, S) <=>
           Pends(s, k, i, S) /\ ~ (k = Len(s) /\ i = item)
<1>1. /\ Len(Turn(s, item)) = Len(s) /\ Len(s) \in Nat
      /\ \A m \in 1 .. Len(s) :
           Turn(s, item)[m] = IF m < Len(s) THEN s[m] ELSE Turned(s[Len(s)], item)
  BY TurnIs, StackIs
<1> DEFINE t == Turn(s, item)
           g == Turned(s[Len(s)], item)
<1> HIDE DEF t
<1>2. CASE k \in 1 .. Len(s) /\ k < Len(s)
  <2>1. t[k] = s[k] /\ k # Len(s)
    BY <1>1, <1>2 DEF t
  <2>2. QED
    BY <1>1, <1>2, <2>1 DEF Pends, t
<1>3. CASE k \in 1 .. Len(s) /\ k = Len(s)
  <2>1. t[k] = g
    BY <1>1, <1>3 DEF t
  <2>2. g.tree = s[k].tree /\ g.pattern = s[k].pattern /\ g.rest = s[k].rest \ {item}
    BY <1>3 DEF Turned
  <2> HIDE DEF g
  <2>3. QED
    BY <1>1, <1>3, <2>1, <2>2 DEF Pends, t
<1>4. CASE k \notin 1 .. Len(s)
  BY <1>1, <1>4 DEF Pends
<1>5. QED
  BY <1>1, <1>2, <1>3, <1>4

(* A frame less has nothing pending.                                       *)
LEMMA PendsPop ==
  ASSUME IsStack(frames), frames # << >>, NEW k, NEW i, NEW S
  PROVE  Pends(Caller, k, i, S) <=> Pends(frames, k, i, S) /\ k # Len(frames)
<1>1. /\ Len(Caller) = Len(frames) - 1 /\ Len(frames) \in Nat
      /\ \A m \in 1 .. Len(Caller) : Caller[m] = frames[m] /\ m \in 1 .. Len(frames)
  BY CallerIs, StackIs
<1>2. k \in 1 .. Len(Caller) <=> k \in 1 .. Len(frames) /\ k # Len(frames)
  BY <1>1
<1>3. CASE k \in 1 .. Len(Caller)
  <2>1. Caller[k] = frames[k]
    BY <1>1, <1>3
  <2>2. QED
    BY <1>2, <1>3, <2>1 DEF Pends
<1>4. CASE k \notin 1 .. Len(Caller)
  BY <1>2, <1>4 DEF Pends
<1>5. QED
  BY <1>3, <1>4

(* Nothing is pending without frames.                                      *)
LEMMA PendsNone ==
  ASSUME NEW k, NEW i, NEW S
  PROVE  ~ Pends(<< >>, k, i, S)
BY NoFrames DEF Pends

(* Before mining nothing is written and nothing pending.                   *)
LEMMA LoadTracks ==
  ASSUME frames = << >>, pc = "load", \A S \in Patterns : emitted[S] = 0
  PROVE  Tracks
BY PendsNone DEF Tracks, Once

(* In the whole tree each pattern of some line is pending at its lowest    *)
(* item.                                                                   *)
LEMMA RootPends ==
  ASSUME SetupType, loaded = Len(file), Stands(tree, LoadedPaths),
         NEW S \in Patterns, Support(Data, S) >= minCount
  PROVE  \E b \in S : b \in TreeItems(tree) /\ S \ {b} \subseteq Over(tree, b)
<1> DEFINE D == 1 .. Len(file)
           Q == LoadedPaths
<1>1. /\ \A d \in D : Sorted(file[d]) \in Routes /\ On(Sorted(file[d])) = ItemsOf(file[d])
  BY SortedIs
<1>2. Q \in [D -> Routes] /\ \A d \in D : On(Q[d]) = ItemsOf(file[d])
  BY <1>1 DEF LoadedPaths
<1>3. IsFiniteSet(D)
  <2>1. Len(file) \in Nat
    BY FileIs
  <2>2. QED
    BY <2>1, FS_Interval
<1> HIDE DEF Q
<1>4. \E d \in D : S \subseteq On(Q[d])
  <2>1. /\ DOMAIN Data.sets = D /\ \A d \in D : Data.sets[d] = ItemsOf(file[d])
        /\ minCount \in Nat \ {0}
    BY FileIs
  <2> DEFINE lines == {d \in DOMAIN Data.sets : S \subseteq Data.sets[d]}
  <2>2. Support(Data, S) = Cardinality(lines)
    BY DEF Support
  <2> HIDE DEF lines
  <2>3. Cardinality(lines) # 0
    BY <2>1, <2>2
  <2>4. lines # {}
    BY <2>3, FS_EmptySet
  <2>5. QED
    BY <1>2, <2>1, <2>4 DEF lines
<1> HIDE DEF D
<1>5. Stands(tree, Q)
  BY DEF Q
<1>6. /\ \A x : x \in TreeItems(tree) <=> \E d \in D : x \in On(Q[d])
      /\ \A a, x : a \in Over(tree, x) <=> \E d \in D : Before(Q[d], a, x)
  BY <1>2, <1>3, <1>5, TreeItemsAre
<1>7. PICK d \in D : S \subseteq On(Q[d])
  BY <1>4
<1>8. Q[d] \in Routes /\ S \in SUBSET On(Q[d]) /\ S # {}
  BY <1>2, <1>7 DEF Patterns
<1>9. \E b \in S : \A a \in S : a = b \/ Before(Q[d], a, b)
  BY <1>8, LowestIs
<1>10. QED
  BY <1>6, <1>7, <1>9

(* The outermost call has every pattern to come.                           *)
LEMMA MineTracks ==
  ASSUME IInv, MineFPTree
  PROVE  Tracks'
<1> DEFINE f == Frame(tree, {})
<1>1. /\ pc = "load" /\ loaded = Len(file) /\ pc' = "mine" /\ frames' = <<f>>
      /\ UNCHANGED <<setup, file, order, minCount, loaded, tree, emitted>>
  BY DEF MineFPTree
<1>2. SetupType /\ Flow /\ Stands(tree, LoadedPaths) /\ FramesInv'
      /\ Data' = Data /\ (OneOrder' <=> OneOrder)
  BY <1>1, MineHolds, MiningKept DEF IInv
<1>3. f.tree = tree /\ f.pattern = {} /\ f.rest = TreeItems(tree)
  BY FrameIs
<1>4. Len(<<f>>) = 1 /\ <<f>>[1] = f /\ 1 .. 1 = {1}
  OBVIOUS
<1>5. Holding(f, Len(file), Data) /\ (OneOrder => HoldingAll(f, Len(file), Data))
  <2> HIDE DEF f
  <2>1. QED
    BY <1>1, <1>2, <1>4 DEF FramesInv
<1> HIDE DEF f
<1>6. \A k, i, S : Pends(<<f>>, k, i, S) <=>
        k = 1 /\ i \in TreeItems(tree) /\ i \in S /\ S \ {i} \subseteq Over(tree, i)
  <2>1. \A i : f.pattern \cup {i} = {i}
    BY <1>3
  <2>2. QED
    BY <1>3, <1>4, <2>1 DEF Pends
<1>7. OneOrder => Once(<<f>>, emitted)
  <2> SUFFICES ASSUME OneOrder PROVE Once(<<f>>, emitted)
    OBVIOUS
  <2>1. \A a, b : a \in Over(tree, b) => b \notin Over(tree, a)
    BY <1>2, <1>3, <1>5, FrameOver
  <2>2. \A S \in Patterns : emitted[S] = 0
    BY <1>1, <1>2 DEF Flow
  <2>3. ASSUME NEW S, NEW k, NEW i, NEW l, NEW j,
               Pends(<<f>>, k, i, S), Pends(<<f>>, l, j, S)
        PROVE  k = l /\ i = j
    BY <1>6, <2>1, <2>3
  <2>4. QED
    BY <2>2, <2>3 DEF Once
<1>8. Full(<<f>>, emitted, Data)
  <2>1. Data.min = minCount
    BY <1>2, FileIs
  <2>2. ASSUME NEW S \in Patterns, Support(Data, S) >= Data.min
        PROVE  \E k, i : Pends(<<f>>, k, i, S)
    <3>1. \E b \in S : b \in TreeItems(tree) /\ S \ {b} \subseteq Over(tree, b)
      BY <1>1, <1>2, <2>1, <2>2, RootPends
    <3>2. QED
      BY <1>6, <3>1
  <2>3. QED
    BY <2>2 DEF Full
<1>9. QED
  BY <1>1, <1>2, <1>7, <1>8 DEF Tracks

(* A turn of the loop loses and repeats no pattern.                        *)
LEMMA TurnsTrack ==
  ASSUME SetupType, FramesInv, emitted \in [Patterns -> Nat], OneOrder,
         Once(frames, emitted), Full(frames, emitted, Data), NEW item \in Ids, Turns(item)
  PROVE  Once(frames', emitted') /\ Full(frames', emitted', Data)
<1> DEFINE n       == Len(frames)
           f       == frames[n]
           sub     == ConditionalTree(f.tree, item)
           pattern == f.pattern \cup {item}
           g       == Frame(sub, pattern)
           here    == Turn(frames, item)
           taken   == item \in Data.kept /\ Support(Data, {item}) >= minCount
<1>1. /\ frames # << >> /\ item \in f.rest
      /\ \/ ~ taken /\ emitted' = emitted /\ frames' = here
         \/ /\ taken /\ emitted' = [emitted EXCEPT ![pattern] = @ + 1]
            /\ frames' = IF Nodes(sub) = {} THEN here ELSE Append(here, g)
  BY DEF Turns
<1>2. /\ n \in Nat \ {0} /\ Shaped(f, n, tree) /\ Holding(f, Len(file), Data)
      /\ HoldingAll(f, Len(file), Data)
      /\ TreeItems(f.tree) \subseteq Ids /\ TreeItems(f.tree) \cap f.pattern = {}
  BY <1>1, TopIs
<1>3. item \in TreeItems(f.tree) /\ pattern \in Patterns
  BY <1>1, <1>2 DEF Shaped, Patterns
<1>4. /\ g.tree = sub /\ g.pattern = pattern /\ g.rest = TreeItems(sub)
  BY FrameIs
<1>5. IsStack(here) /\ Len(here) = n
  BY <1>1, TurnIs DEF FramesInv
<1>6. \A k, i, S : Pends(here, k, i, S) <=>
        Pends(frames, k, i, S) /\ ~ (k = n /\ i = item)
  BY <1>1, PendsTurn DEF FramesInv
<1>7. \A S : Pends(frames, n, item, S) <=>
        pattern \subseteq S /\ S \ pattern \subseteq Over(f.tree, item)
  BY <1>1, <1>2 DEF Pends
<1>8. \A S \in Patterns :
        /\ emitted[S] \in Nat /\ emitted[S] <= 1
        /\ \A k, i : Pends(frames, k, i, S) => emitted[S] = 0
        /\ \A k, i, l, j : Pends(frames, k, i, S) /\ Pends(frames, l, j, S) => k = l /\ i = j
  BY DEF Once
<1>9. /\ Data.min = minCount /\ Data.depth = setup.pruneDepth /\ Data.stable = setup.stable /\ IsData(Data)
      /\ minCount \in Nat
  BY FileIs
<1>10. Data.depth = Unpruned =>
         \A S \in Patterns :
           S \subseteq Data.kept /\ Support(Data, S) >= minCount =>
             emitted[S] > 0 \/ \E k, i : Pends(frames, k, i, S)
  BY <1>9 DEF Full
<1> HIDE DEF n, f, sub, pattern, g, here
<1>11. CASE ~ taken /\ emitted' = emitted /\ frames' = here
  <2>1. Once(here, emitted)
    BY <1>6, <1>8 DEF Once
  <2>2. ASSUME NEW S \in Patterns, S \subseteq Data.kept, Support(Data, S) >= minCount,
               pattern \subseteq S
        PROVE  FALSE
    <3>1. item \in S /\ {item} \subseteq S
      BY <2>2 DEF pattern
    <3>2. Support(Data, S) <= Support(Data, {item}) /\ Support(Data, {item}) \in Nat
          /\ Support(Data, S) \in Nat
      BY <1>9, <3>1, SupportFalls
    <3>3. Support(Data, {item}) >= minCount /\ item \in Data.kept
      BY <1>9, <2>2, <3>1, <3>2
    <3>4. QED
      BY <1>11, <3>3
  <2>3. Full(here, emitted, Data)
    <3>1. ASSUME Data.depth = Unpruned, NEW S \in Patterns, S \subseteq Data.kept,
                 Support(Data, S) >= minCount, ~ (emitted[S] > 0)
          PROVE  \E k, i : Pends(here, k, i, S)
      <4>1. PICK k, i : Pends(frames, k, i, S)
        BY <1>10, <3>1
      <4>2. ~ (k = n /\ i = item)
        BY <1>7, <2>2, <3>1, <4>1
      <4>3. QED
        BY <1>6, <4>1, <4>2
    <3>2. QED
      BY <1>9, <3>1 DEF Full
  <2>4. QED
    BY <1>11, <2>1, <2>3
<1>12. CASE /\ taken /\ emitted' = [emitted EXCEPT ![pattern] = @ + 1]
            /\ frames' = IF Nodes(sub) = {} THEN here ELSE Append(here, g)
  <2>1. \A S \in Patterns :
          emitted'[S] = IF S = pattern THEN emitted[S] + 1 ELSE emitted[S]
    BY <1>3, <1>12
  <2>2. Pends(frames, n, item, pattern)
    BY <1>7
  <2>3. item \in Data.kept
    BY <1>12
  <2>4. ASSUME Nodes(sub) # {}
        PROVE  Holding(g, Len(file), Data) /\ HoldingAll(g, Len(file), Data)
               /\ TreeItems(g.tree) \subseteq Over(f.tree, item)
    BY <1>2, <1>3, <1>4, <2>3, <2>4, ChildHolds DEF sub, pattern
  <2>5. ASSUME NEW k, NEW i, NEW S, Pends(frames', k, i, S)
        PROVE  \/ Pends(here, k, i, S)
               \/ /\ Nodes(sub) # {} /\ k = n + 1 /\ i \in g.rest
                  /\ pattern \cup {i} \subseteq S
                  /\ S \ (pattern \cup {i}) \subseteq Over(g.tree, i)
                  /\ Pends(frames, n, item, S) /\ S # pattern
    <3>1. CASE Nodes(sub) = {}
      BY <1>12, <2>5, <3>1
    <3>2. CASE Nodes(sub) # {}
      <4>1. Pends(Append(here, g), k, i, S)
        BY <1>12, <2>5, <3>2
      <4>2. \/ Pends(here, k, i, S)
            \/ /\ k = n + 1 /\ i \in g.rest /\ g.pattern \cup {i} \subseteq S
               /\ S \ (g.pattern \cup {i}) \subseteq Over(g.tree, i)
        BY <1>5, <4>1, PendsPush
      <4>3. ASSUME i \in g.rest, g.pattern \cup {i} \subseteq S,
                   S \ (g.pattern \cup {i}) \subseteq Over(g.tree, i)
            PROVE  Pends(frames, n, item, S) /\ S # pattern
        <5>1. g.pattern = f.pattern \cup {item} /\ g.rest = TreeItems(g.tree)
          BY <1>4 DEF pattern
        <5>2. /\ S # g.pattern /\ f.pattern \cup {item} \subseteq S
              /\ S \ (f.pattern \cup {item}) \subseteq Over(f.tree, item)
          <6>1. /\ Holding(f, Len(file), Data) /\ Holding(g, Len(file), Data)
                /\ TreeItems(g.tree) \subseteq Over(f.tree, item)
            BY <1>2, <2>4, <3>2
          <6>2. Over(g.tree, i) \subseteq TreeItems(g.tree)
                /\ TreeItems(g.tree) \cap g.pattern = {}
            BY <6>1, FrameOver, FrameItems
          <6>3. QED
            BY <4>3, <5>1, <6>1, <6>2
        <5>3. QED
          BY <1>4, <1>7, <5>2 DEF pattern
      <4>4. QED
        BY <1>4, <3>2, <4>2, <4>3
    <3>3. QED
      BY <3>1, <3>2
  <2>6. \A k, i, S : Pends(here, k, i, S) => k # n + 1
    <3>1. \A k, i, S : Pends(here, k, i, S) => k \in 1 .. n
      BY <1>5 DEF Pends
    <3>2. n + 1 \notin 1 .. n
      BY <1>2
    <3>3. QED
      BY <3>1, <3>2
  <2>7. ASSUME NEW S \in Patterns
        PROVE  /\ emitted'[S] <= 1
               /\ \A k, i : Pends(frames', k, i, S) => emitted'[S] = 0
               /\ \A k, i, l, j :
                    Pends(frames', k, i, S) /\ Pends(frames', l, j, S) => k = l /\ i = j
    <3>1. emitted'[S] <= 1
      BY <1>8, <2>1, <2>2
    <3>2. ASSUME NEW k, NEW i, Pends(frames', k, i, S) PROVE emitted'[S] = 0
      <4>1. S # pattern
        BY <1>6, <1>8, <2>2, <2>5, <3>2
      <4>2. \E l, j : Pends(frames, l, j, S)
        BY <1>6, <2>5, <3>2
      <4>3. QED
        BY <1>8, <2>1, <4>1, <4>2
    <3>3. ASSUME NEW k, NEW i, NEW l, NEW j, Pends(frames', k, i, S), Pends(frames', l, j, S)
          PROVE  k = l /\ i = j
      <4>1. CASE Pends(here, k, i, S) /\ Pends(here, l, j, S)
        BY <1>6, <1>8, <4>1
      <4>2. CASE ~ Pends(here, k, i, S) /\ ~ Pends(here, l, j, S)
        <5>1. /\ Nodes(sub) # {} /\ k = n + 1 /\ l = n + 1 /\ i \in S /\ j \in S
              /\ S \ (pattern \cup {i}) \subseteq Over(g.tree, i)
              /\ S \ (pattern \cup {j}) \subseteq Over(g.tree, j)
              /\ i \in TreeItems(g.tree) /\ j \in TreeItems(g.tree)
          BY <1>4, <2>5, <3>3, <4>2
        <5>2. \A a, b : a \in Over(g.tree, b) => b \notin Over(g.tree, a)
          BY <2>4, <5>1, FrameOver
        <5>3. i \notin pattern /\ j \notin pattern
          BY <1>4, <2>4, <5>1, FrameItems
        <5>4. QED
          BY <5>1, <5>2, <5>3
      <4>3. CASE Pends(here, k, i, S) /\ ~ Pends(here, l, j, S)
        BY <1>6, <1>8, <2>5, <3>3, <4>3
      <4>4. CASE ~ Pends(here, k, i, S) /\ Pends(here, l, j, S)
        BY <1>6, <1>8, <2>5, <3>3, <4>4
      <4>5. QED
        BY <4>1, <4>2, <4>3, <4>4
    <3>4. QED
      BY <3>1, <3>2, <3>3
  <2>8. Once(frames', emitted')
    BY <2>7 DEF Once
  <2>9. \A k, i, S : Pends(here, k, i, S) => Pends(frames', k, i, S)
    BY <1>5, <1>12, PendsPush
  <2>10. ASSUME Data.depth = Unpruned, NEW S \in Patterns, S \subseteq Data.kept,
                Support(Data, S) >= minCount
         PROVE  emitted'[S] > 0 \/ \E k, i : Pends(frames', k, i, S)
    <3>1. CASE emitted[S] > 0 \/ S = pattern
      BY <1>8, <2>1, <3>1
    <3>2. CASE ~ (emitted[S] > 0) /\ S # pattern
      <4>1. PICK k, i : Pends(frames, k, i, S)
        BY <1>10, <2>10, <3>2
      <4>2. CASE ~ (k = n /\ i = item)
        BY <1>6, <2>9, <4>1, <4>2
      <4>3. CASE k = n /\ i = item
        <5>1. pattern \subseteq S /\ S \ pattern \subseteq Over(f.tree, item)
          BY <1>7, <4>1, <4>3
        <5>2. \E j \in S \ pattern : /\ j \in TreeItems(sub)
                                     /\ S \ (pattern \cup {j}) \subseteq Over(sub, j)
          BY <1>2, <1>3, <1>9, <2>3, <2>10, <3>2, <5>1, FrameDescends DEF pattern, sub
        <5>3. PICK j \in S \ pattern : /\ j \in TreeItems(sub)
                                       /\ S \ (pattern \cup {j}) \subseteq Over(sub, j)
          BY <5>2
        <5>4. Nodes(sub) # {}
          BY <5>3 DEF TreeItems
        <5>5. Pends(Append(here, g), n + 1, j, S)
          BY <1>4, <1>5, <5>1, <5>3, PendsPush
        <5>6. QED
          BY <1>12, <5>4, <5>5
      <4>4. QED
        BY <4>2, <4>3
    <3>3. QED
      BY <3>1, <3>2
  <2>11. Full(frames', emitted', Data)
    BY <1>9, <2>10 DEF Full
  <2>12. QED
    BY <2>8, <2>11
<1>13. QED
  BY <1>1, <1>11, <1>12

(* Without pruning the short cut takes all kept items of the path.         *)
LEMMA KeptInFrame ==
  ASSUME SetupType, setup.pruneDepth = Unpruned, NEW f, Holding(f, Len(file), Data)
  PROVE  KeptInPath(f.tree) = TreeItems(f.tree) \cap Data.kept
<1>1. TreeItems(f.tree) \subseteq Ids /\ Nodes(f.tree) \subseteq Lines
  BY FrameItems
<1>2. ASSUME NEW p \in Lines PROVE Len(p) <= NumItems
  <2>1. p \in Routes /\ On(p) \subseteq 1 .. NumItems
    BY LineIs DEF On, ItemsOf, Ids
  <2>2. QED
    BY <2>1, MiningAssumption, RouteLength
<1>3. \A p \in Nodes(f.tree) : Len(p) <= NumItems
  BY <1>1, <1>2
<1>4. QED
  BY <1>1, <1>3, KeptInPathIs

(* The short cut writes what was pending in its frame, and only that.      *)
LEMMA PathTracks ==
  ASSUME SetupType, FramesInv, emitted \in [Patterns -> Nat], OneOrder,
         Once(frames, emitted), Full(frames, emitted, Data), AddPatternsInPath
  PROVE  Once(frames', emitted') /\ Full(frames', emitted', Data)
<1> DEFINE n     == Len(frames)
           f     == frames[n]
           items == KeptInPath(f.tree)
           found == {f.pattern \cup S : S \in (SUBSET items) \ {{}}}
<1>1. frames # << >> /\ HasSinglePath(Top.tree) /\ frames' = Caller
  BY DEF AddPatternsInPath
<1>2. /\ Top = f /\ Shaped(f, n, tree) /\ Holding(f, Len(file), Data)
      /\ n \in 1 .. Len(frames)
      /\ TreeItems(f.tree) \subseteq Ids /\ TreeItems(f.tree) \cap f.pattern = {}
  BY <1>1, TopIs
<1>3. emitted' = [pattern \in Patterns |->
                    emitted[pattern] + (IF pattern \in found THEN 1 ELSE 0)]
  BY <1>2 DEF AddPatternsInPath
<1>4. \A k, i, S : Pends(frames', k, i, S) <=> Pends(frames, k, i, S) /\ k # n
  BY <1>1, PendsPop DEF FramesInv
<1>5. \A S \in Patterns :
        /\ emitted[S] \in Nat /\ emitted[S] <= 1
        /\ \A k, i : Pends(frames, k, i, S) => emitted[S] = 0
        /\ \A k, i, l, j : Pends(frames, k, i, S) /\ Pends(frames, l, j, S) => k = l /\ i = j
  BY DEF Once
<1>6. /\ Data.min = minCount /\ Data.depth = setup.pruneDepth /\ Data.stable = setup.stable
      /\ Data.kept = {i \in Ids : ShouldKeep(i)}
  BY FileIs
<1> HIDE DEF f, n
<1>7. f.rest = TreeItems(f.tree) /\ HasSinglePath(f.tree)
  BY <1>1, <1>2 DEF Shaped
<1>8. items \subseteq TreeItems(f.tree) \cap Data.kept
  BY <1>2, KeptInPathIs
<1>9. \A i, S : Pends(frames, n, i, S) <=>
        /\ i \in TreeItems(f.tree) /\ f.pattern \cup {i} \subseteq S
        /\ S \ (f.pattern \cup {i}) \subseteq Over(f.tree, i)
  BY <1>2, <1>7 DEF Pends, f
<1>10. ASSUME NEW S \in found PROVE \E i : Pends(frames, n, i, S)
  <2>1. PICK X \in (SUBSET items) \ {{}} : S = f.pattern \cup X
    OBVIOUS
  <2>2. X \in SUBSET TreeItems(f.tree) /\ X # {}
    BY <1>8
  <2>3. \E x \in X : X \ {x} \subseteq Over(f.tree, x)
    BY <1>2, <1>7, <2>2, FrameOver
  <2>4. PICK x \in X : X \ {x} \subseteq Over(f.tree, x)
    BY <2>3
  <2>5. x \in TreeItems(f.tree) /\ f.pattern \cup {x} \subseteq S
    BY <2>1, <2>2, <2>4
  <2>6. S \ (f.pattern \cup {x}) \subseteq Over(f.tree, x)
    BY <2>1, <2>4
  <2>7. Pends(frames, n, x, S)
    BY <1>9, <2>5, <2>6
  <2>8. QED
    BY <2>7
<1>11. ASSUME setup.pruneDepth = Unpruned, NEW S \in Patterns, S \subseteq Data.kept,
              NEW i, Pends(frames, n, i, S)
       PROVE  S \in found
  <2> DEFINE X == S \ f.pattern
  <2>1. items = TreeItems(f.tree) \cap Data.kept
    BY <1>2, <1>11, KeptInFrame
  <2>2. Over(f.tree, i) \subseteq TreeItems(f.tree)
    BY <1>2, FrameOver
  <2>3. /\ i \in TreeItems(f.tree) /\ f.pattern \cup {i} \subseteq S
        /\ S \ (f.pattern \cup {i}) \subseteq Over(f.tree, i)
    BY <1>9, <1>11
  <2> HIDE DEF items
  <2>4. X \subseteq items /\ i \in X
    BY <1>2, <1>11, <2>1, <2>2, <2>3
  <2>5. S = f.pattern \cup X
    BY <2>3
  <2> HIDE DEF X
  <2>6. X \in (SUBSET items) \ {{}}
    BY <2>4
  <2>7. QED
    BY <2>5, <2>6
<1> HIDE DEF found
<1>12. \A S \in Patterns : emitted'[S] = emitted[S] + (IF S \in found THEN 1 ELSE 0)
  BY <1>3
<1>13. ASSUME NEW S \in Patterns
       PROVE  /\ emitted'[S] <= 1
              /\ \A k, i : Pends(frames', k, i, S) => emitted'[S] = 0
              /\ \A k, i, l, j :
                   Pends(frames', k, i, S) /\ Pends(frames', l, j, S) => k = l /\ i = j
  <2>1. \A k, i, l, j :
          Pends(frames', k, i, S) /\ Pends(frames', l, j, S) => k = l /\ i = j
    BY <1>4, <1>5
  <2>2. CASE S \in found
    <3>1. PICK i : Pends(frames, n, i, S)
      BY <1>10, <2>2
    <3>2. emitted[S] = 0 /\ \A k, j : ~ Pends(frames', k, j, S)
      BY <1>4, <1>5, <3>1
    <3>3. emitted'[S] = 1
      BY <1>12, <2>2, <3>2
    <3>4. QED
      BY <2>1, <3>2, <3>3
  <2>3. CASE S \notin found
    <3>1. emitted'[S] = emitted[S]
      BY <1>5, <1>12, <2>3
    <3>2. QED
      BY <1>4, <1>5, <2>1, <3>1
  <2>4. QED
    BY <2>2, <2>3
<1>14. Once(frames', emitted')
  BY <1>13 DEF Once
<1>15. ASSUME Data.depth = Unpruned, NEW S \in Patterns, S \subseteq Data.kept,
              Support(Data, S) >= Data.min
       PROVE  emitted'[S] > 0 \/ \E k, i : Pends(frames', k, i, S)
  <2>1. emitted[S] > 0 \/ \E k, i : Pends(frames, k, i, S)
    BY <1>15 DEF Full
  <2>2. CASE emitted[S] > 0
    BY <1>5, <1>12, <2>2
  <2>3. ASSUME NEW k, NEW i, Pends(frames, k, i, S)
        PROVE  emitted'[S] > 0 \/ \E l, j : Pends(frames', l, j, S)
    <3>1. CASE k = n
      <4>1. S \in found
        BY <1>6, <1>11, <1>15, <2>3, <3>1
      <4>2. QED
        BY <1>5, <1>12, <4>1
    <3>2. CASE k # n
      BY <1>4, <2>3, <3>2
    <3>3. QED
      BY <3>1, <3>2
  <2>4. QED
    BY <2>1, <2>2, <2>3
<1>16. Full(frames', emitted', Data)
  BY <1>15 DEF Full
<1>17. QED
  BY <1>14, <1>16

(* Every step keeps track.                                                 *)
LEMMA TracksKept ==
  ASSUME IInv, Tracks, [Next]_vars
  PROVE  Tracks'
<1>1. SetupType /\ Flow /\ FramesInv /\ emitted \in [Patterns -> Nat]
  BY DEF IInv, Flow
<1>2. CASE OnLoad
  <2>1. frames' = << >> /\ pc' = "load" /\ \A S \in Patterns : emitted'[S] = 0
    BY <1>1, <1>2 DEF OnLoad, Flow
  <2>2. Once(frames', emitted')
    BY <2>1, PendsNone DEF Once
  <2>3. QED
    BY <2>1, <2>2 DEF Tracks
<1>3. CASE MineFPTree
  BY <1>3, MineTracks
<1>4. CASE MineItem
  <2>1. pc = "mine" /\ UNCHANGED <<pc, setup, file, order, minCount, loaded, tree>>
    BY <1>4 DEF MineItem
  <2>2. Data' = Data /\ (OneOrder' <=> OneOrder)
    BY <2>1, MiningKept
  <2>3. PICK item \in Ids : Turns(item)
    BY <1>1, <1>4, MineItemIs
  <2>4. OneOrder => Once(frames', emitted') /\ Full(frames', emitted', Data)
    BY <1>1, <2>1, <2>3, TurnsTrack DEF Tracks
  <2>5. QED
    BY <2>2, <2>4 DEF Tracks
<1>5. CASE AddPatternsInPath
  <2>1. pc = "mine" /\ UNCHANGED <<pc, setup, file, order, minCount, loaded, tree>>
    BY <1>5 DEF AddPatternsInPath
  <2>2. Data' = Data /\ (OneOrder' <=> OneOrder)
    BY <2>1, MiningKept
  <2>3. OneOrder => Once(frames', emitted') /\ Full(frames', emitted', Data)
    BY <1>1, <1>5, <2>1, PathTracks DEF Tracks
  <2>4. QED
    BY <2>2, <2>3 DEF Tracks
<1>6. CASE Return
  <2>1. /\ pc = "mine" /\ frames # << >> /\ Top.rest = {} /\ frames' = Caller
        /\ UNCHANGED <<pc, setup, file, order, minCount, loaded, tree, emitted>>
    BY <1>6 DEF Return
  <2>2. Data' = Data /\ (OneOrder' <=> OneOrder)
    BY <2>1, MiningKept
  <2>3. Top = frames[Len(frames)]
    BY DEF Top
  <2>4. \A k, i, S : Pends(frames, k, i, S) => k # Len(frames)
    BY <2>1, <2>3 DEF Pends
  <2>5. \A k, i, S : Pends(frames', k, i, S) <=> Pends(frames, k, i, S)
    BY <1>1, <2>1, <2>4, PendsPop DEF FramesInv
  <2>6. Once(frames, emitted) => Once(frames', emitted')
    BY <2>1, <2>5 DEF Once
  <2>7. Full(frames, emitted, Data) => Full(frames', emitted', Data)
    BY <2>1, <2>5 DEF Full
  <2>8. QED
    BY <2>1, <2>2, <2>6, <2>7 DEF Tracks
<1>7. CASE Close \/ Terminated \/ UNCHANGED vars
  <2>1. /\ UNCHANGED <<setup, file, order, minCount, loaded, tree, frames, emitted>>
        /\ pc' # "load" => pc # "load"
    BY <1>7 DEF Close, Terminated, vars
  <2>2. Data' = Data /\ (OneOrder' <=> OneOrder)
    BY <2>1, MiningKept
  <2>3. QED
    BY <2>1, <2>2 DEF Tracks
<1>8. QED
  BY <1>2, <1>3, <1>4, <1>5, <1>6, <1>7 DEF Next

(* The turns that are left are kept track of.                              *)
THEOREM TracksHolds == Spec => []Tracks
<1>1. Init => Tracks
  BY LoadTracks DEF Init
<1>2. IInv /\ Tracks /\ [Next]_vars => Tracks'
  BY TracksKept
<1>3. QED
  BY <1>1, <1>2, IInvHolds, PTL DEF Spec

(* No pattern is written twice, by whatever way the recursion gets to it.  *)
THEOREM WrittenOnce == Spec => []EmittedOnce
<1>1. Tracks => EmittedOnce
  BY DEF Tracks, Once, EmittedOnce
<1>2. QED
  BY <1>1, TracksHolds, PTL

(* When FPGrowth is done, every frequent itemset of items that are kept    *)
(* has been written, unless nodes are pruned.                              *)
THEOREM MinedAllFrequent == Spec => []MinedComplete
<1>1. IInv /\ Tracks => MinedComplete
  <2> SUFFICES ASSUME IInv, Tracks, pc = "done", OneOrder, setup.pruneDepth = Unpruned,
                      NEW S \in Patterns, Count(S) >= minCount, \A i \in S : ShouldKeep(i)
               PROVE  emitted[S] > 0
    BY DEF MinedComplete
  <2>1. SetupType /\ frames = << >> /\ Full(frames, emitted, Data)
    BY DEF IInv, Flow, Tracks
  <2>2. /\ Data.kept = {i \in Ids : ShouldKeep(i)} /\ Data.min = minCount
        /\ Data.depth = setup.pruneDepth
        /\ Count(S) = Support(Data, S)
    BY <2>1, FileIs
  <2>3. S \subseteq Data.kept
    BY <2>2 DEF Patterns
  <2>4. emitted[S] > 0 \/ \E k, i : Pends(frames, k, i, S)
    BY <2>1, <2>2, <2>3 DEF Full
  <2>5. QED
    BY <2>1, <2>4, PendsNone
<1>2. QED
  BY <1>1, IInvHolds, TracksHolds, PTL
=============================================================================
