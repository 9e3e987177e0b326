---------------------------- MODULE FPTreeProofs ----------------------------
(***************************************************************************)
(* Facts about the operators of FPTree: prefixes of paths, the orders of   *)
(* items, what InsertPath and RemovePath do to a tree that stands for a    *)
(* sequence of paths, and to its leaf list.                                *)
(***************************************************************************)
EXTENDS FPTree, FiniteSetTheorems, SequenceTheorems, NaturalsInduction,
        WellFoundedInduction, TLAPS

-----------------------------------------------------------------------------
(* Numbers.                                                                *)

(* A set of natural numbers that is not empty has a least member.          *)
LEMMA LeastExists ==
  ASSUME NEW T \in SUBSET Nat, T # {}
  PROVE  \E n \in T : \A m \in T : n <= m
<1> DEFINE less == {ss \in Nat \X Nat : ss[1] < ss[2]}
<1>1. IsWellFoundedOn(less, Nat)
  BY NatLessThanWellFounded, Zenon DEF OpToRel
<1> HIDE DEF less
<1>2. PICK n \in T : \A m \in T : <<m, n>> \notin less
  BY <1>1, WFMin
<1>3. ASSUME NEW m \in T PROVE n <= m
  <2>1. ~ (m < n)
    BY <1>2 DEF less
  <2>2. QED
    BY <2>1
<1>4. QED
  BY <1>3

(* One that is bounded has a greatest member.                              *)
LEMMA GreatestExists ==
  ASSUME NEW n \in Nat, NEW T \in SUBSET (0 .. n), T # {}
  PROVE  \E k \in T : \A m \in T : m <= k
<1> DEFINE gaps == {n - k : k \in T}
<1>1. gaps \in SUBSET Nat /\ gaps # {}
  <2>1. \A k \in T : n - k \in Nat
    OBVIOUS
  <2>2. QED
    BY <2>1
<1> HIDE DEF gaps
<1>2. PICK g \in gaps : \A h \in gaps : g <= h
  BY <1>1, LeastExists
<1>3. PICK k \in T : g = n - k
  BY DEF gaps
<1>4. ASSUME NEW m \in T PROVE m <= k
  <2>1. g <= n - m
    BY <1>2 DEF gaps
  <2>2. QED
    BY <1>3, <2>1
<1>5. QED
  BY <1>4

-----------------------------------------------------------------------------
(* The items on a path.                                                    *)
On(p) == {p[j] : j \in DOMAIN p}

(* No item is on the path twice.                                           *)
Distinct(p) == \A i, j \in DOMAIN p : p[i] = p[j] => i = j

(* The paths through the tree: of items, each at most once.                *)
Routes == {p \in Seq(Nat) : Distinct(p)}

(* The nodes on the way to p.                                              *)
Way(p) == {Upto(p, j) : j \in 1 .. Len(p)}

(* The places of the sequence s that hold a member of X.                   *)
Hits(s, X) == {i \in DOMAIN s : s[i] \in X}

(* The paths that pass through node q.                                     *)
Through(q) == {p \in Routes : q \in Way(p)}
-----------------------------------------------------------------------------
(* Sequences.                                                              *)

(* What a sequence is.                                                     *)
LEMMA SeqIs ==
  ASSUME NEW T, NEW s \in Seq(T)
  PROVE  /\ Len(s) \in Nat /\ DOMAIN s = 1 .. Len(s)
         /\ \A k \in DOMAIN s : s[k] \in T
         /\ s = << >> <=> Len(s) = 0
OBVIOUS

(* Sequences with the same elements are equal.                             *)
LEMMA SeqEq ==
  ASSUME NEW T, NEW s \in Seq(T), NEW U, NEW r \in Seq(U), Len(s) = Len(r),
         \A k \in 1 .. Len(s) : s[k] = r[k]
  PROVE  s = r
<1>1. s = [k \in 1 .. Len(s) |-> s[k]] /\ r = [k \in 1 .. Len(r) |-> r[k]]
  OBVIOUS
<1>2. QED
  BY <1>1

(* A sequence with one more element.                                       *)
LEMMA Appended ==
  ASSUME NEW T, NEW s \in Seq(T), NEW e \in T
  PROVE  /\ Append(s, e) \in Seq(T) /\ Len(Append(s, e)) = Len(s) + 1
         /\ \A k \in 1 .. (Len(s) + 1) :
              Append(s, e)[k] = IF k <= Len(s) THEN s[k] ELSE e
OBVIOUS

(* The first k elements.                                                   *)
LEMMA UptoIs ==
  ASSUME NEW T, NEW p \in Seq(T), NEW k \in 0 .. Len(p)
  PROVE  /\ Upto(p, k) \in Seq(T) /\ Len(Upto(p, k)) = k
         /\ \A j \in 1 .. k : Upto(p, k)[j] = p[j]
BY DEF Upto

(* All elements, and the first ones of the first ones.                     *)
LEMMA UptoAll ==
  ASSUME NEW T, NEW p \in Seq(T)
  PROVE  Upto(p, Len(p)) = p
<1>1. Len(p) \in 0 .. Len(p)
  OBVIOUS
<1>2. Upto(p, Len(p)) \in Seq(T) /\ Len(Upto(p, Len(p))) = Len(p)
      /\ \A j \in 1 .. Len(p) : Upto(p, Len(p))[j] = p[j]
  BY <1>1, UptoIs
<1>3. QED
  BY <1>2, SeqEq

(* The first ones of the first ones are first ones.                        *)
LEMMA UptoUpto ==
  ASSUME NEW T, NEW p \in Seq(T), NEW k \in 0 .. Len(p), NEW j \in 0 .. k
  PROVE  Upto(Upto(p, k), j) = Upto(p, j)
<1> DEFINE q == Upto(p, k)
<1>1. j \in 0 .. Len(p) /\ Len(p) \in Nat /\ k \in Nat /\ j \in Nat
  OBVIOUS
<1>2. q \in Seq(T) /\ Len(q) = k /\ \A i \in 1 .. k : q[i] = p[i]
  BY UptoIs
<1> HIDE DEF q
<1>3. /\ Upto(p, j) \in Seq(T) /\ Len(Upto(p, j)) = j
      /\ \A i \in 1 .. j : Upto(p, j)[i] = p[i]
  BY <1>1, UptoIs
<1>4. /\ Upto(q, j) \in Seq(T) /\ Len(Upto(q, j)) = j
      /\ \A i \in 1 .. j : Upto(q, j)[i] = q[i]
  BY <1>1, <1>2, UptoIs
<1>5. \A i \in 1 .. j : Upto(q, j)[i] = Upto(p, j)[i]
  BY <1>1, <1>2, <1>3, <1>4
<1>6. Upto(q, j) = Upto(p, j)
  BY <1>3, <1>4, <1>5, SeqEq
<1>7. QED
  BY <1>6 DEF q
-----------------------------------------------------------------------------
(* Ways.                                                                   *)

(* The nodes on the way to p are its beginnings.                           *)
LEMMA WayIs ==
  ASSUME NEW T, NEW p \in Seq(T)
  PROVE  /\ \A q \in Way(p) : /\ q \in Seq(T) /\ Len(q) \in 1 .. Len(p)
                              /\ q = Upto(p, Len(q))
         /\ \A k \in 1 .. Len(p) : Upto(p, k) \in Way(p)
         /\ p # << >> => p \in Way(p)
<1>1. ASSUME NEW q \in Way(p)
      PROVE  q \in Seq(T) /\ Len(q) \in 1 .. Len(p) /\ q = Upto(p, Len(q))
  <2>1. PICK k \in 1 .. Len(p) : q = Upto(p, k)
    BY DEF Way
  <2>2. k \in 0 .. Len(p)
    BY <2>1
  <2>3. q \in Seq(T) /\ Len(q) = k
    BY <2>1, <2>2, UptoIs
  <2>4. QED
    BY <2>1, <2>3
<1>2. \A k \in 1 .. Len(p) : Upto(p, k) \in Way(p)
  BY DEF Way
<1>3. ASSUME p # << >> PROVE p \in Way(p)
  <2>1. Len(p) \in 1 .. Len(p)
    BY <1>3
  <2>2. QED
    BY <1>2, <2>1, UptoAll
<1>4. QED
  BY <1>1, <1>2, <1>3

(* The way to a node on a way is part of it.                               *)
LEMMA WayOfWay ==
  ASSUME NEW T, NEW p \in Seq(T), NEW q \in Way(p)
  PROVE  Way(q) = {r \in Way(p) : Len(r) <= Len(q)}
<1>1. q \in Seq(T) /\ Len(q) \in 1 .. Len(p) /\ q = Upto(p, Len(q)) /\ Len(p) \in Nat
  BY WayIs
<1>2. Len(q) \in 0 .. Len(p)
  BY <1>1
<1>3. ASSUME NEW r \in Way(q) PROVE r \in Way(p) /\ Len(r) <= Len(q)
  <2>1. Len(r) \in 1 .. Len(q) /\ r = Upto(q, Len(r))
    BY <1>1, WayIs
  <2>2. Len(r) \in 0 .. Len(q) /\ Len(r) \in 1 .. Len(p)
    BY <1>1, <2>1
  <2>3. Upto(Upto(p, Len(q)), Len(r)) = Upto(p, Len(r))
    BY <1>2, <2>2, UptoUpto
  <2>4. r = Upto(p, Len(r))
    BY <1>1, <2>1, <2>3
  <2>5. QED
    BY <2>1, <2>2, <2>4, WayIs
<1>4. ASSUME NEW r \in Way(p), Len(r) <= Len(q) PROVE r \in Way(q)
  <2>1. Len(r) \in 1 .. Len(p) /\ r = Upto(p, Len(r))
    BY WayIs
  <2>2. Len(r) \in 0 .. Len(q) /\ Len(r) \in 1 .. Len(q)
    BY <1>1, <1>4, <2>1
  <2>3. Upto(Upto(p, Len(q)), Len(r)) = Upto(p, Len(r))
    BY <1>2, <2>2, UptoUpto
  <2>4. r = Upto(q, Len(r))
    BY <1>1, <2>1, <2>3
  <2>5. QED
    BY <1>1, <2>2, <2>4, WayIs
<1>5. QED
  BY <1>3, <1>4

(* Below in these terms.                                                   *)
LEMMA BelowIs ==
  ASSUME NEW T, NEW p \in Seq(T), NEW k \in 0 .. Len(p)
  PROVE  Below(p, k) = {q \in Way(p) : Len(q) > k}
<1>1. Len(p) \in Nat /\ k \in Nat
  OBVIOUS
<1>2. ASSUME NEW q \in Below(p, k) PROVE q \in Way(p) /\ Len(q) > k
  <2>1. PICK j \in (k + 1) .. Len(p) : q = Upto(p, j)
    BY DEF Below
  <2>2. j \in 1 .. Len(p) /\ j \in 0 .. Len(p) /\ j > k
    BY <1>1
  <2>3. Len(q) = j
    BY <2>1, <2>2, UptoIs
  <2>4. QED
    BY <2>1, <2>2, <2>3, WayIs
<1>3. ASSUME NEW q \in Way(p), Len(q) > k PROVE q \in Below(p, k)
  <2>1. Len(q) \in 1 .. Len(p) /\ q = Upto(p, Len(q))
    BY WayIs
  <2>2. Len(q) \in (k + 1) .. Len(p)
    BY <1>1, <1>3, <2>1
  <2>3. QED
    BY <2>1, <2>2 DEF Below
<1>4. QED
  BY <1>2, <1>3

(* A part of a route is a route.                                           *)
LEMMA RouteUpto ==
  ASSUME NEW p \in Routes, NEW k \in 0 .. Len(p)
  PROVE  Upto(p, k) \in Routes
<1>1. p \in Seq(Nat) /\ Distinct(p) /\ Len(p) \in Nat /\ k \in Nat /\ DOMAIN p = 1 .. Len(p)
  BY DEF Routes
<1>2. /\ Upto(p, k) \in Seq(Nat) /\ Len(Upto(p, k)) = k
      /\ \A j \in 1 .. k : Upto(p, k)[j] = p[j]
  BY <1>1, UptoIs
<1>3. DOMAIN Upto(p, k) = 1 .. k /\ 1 .. k \subseteq DOMAIN p
  BY <1>1, <1>2
<1>4. Distinct(Upto(p, k))
  BY <1>1, <1>2, <1>3 DEF Distinct
<1>5. QED
  BY <1>2, <1>4 DEF Routes

(* And so are the nodes on its way.                                        *)
LEMMA RouteWay ==
  ASSUME NEW p \in Routes, NEW q \in Way(p)
  PROVE  q \in Routes /\ q # << >> /\ q \in Way(q)
<1>1. p \in Seq(Nat)
  BY DEF Routes
<1>2. q \in Seq(Nat) /\ Len(q) \in 1 .. Len(p) /\ q = Upto(p, Len(q)) /\ Len(p) \in Nat
  BY <1>1, WayIs
<1>3. Len(q) \in 0 .. Len(p) /\ q # << >>
  BY <1>2
<1>4. QED
  BY <1>2, <1>3, RouteUpto, WayIs

(* A parent is on the way.                                                 *)
LEMMA ParentIs ==
  ASSUME NEW T, NEW p \in Seq(T), p # << >>
  PROVE  /\ ParentOf(p) \in Seq(T) /\ Len(ParentOf(p)) = Len(p) - 1
         /\ ParentOf(p) # << >> <=> Len(p) > 1
         /\ Len(p) > 1 => ParentOf(p) \in Way(p)
         /\ \A q \in Way(p) : q = p \/ q \in Way(ParentOf(p))
<1>1. Len(p) \in Nat \ {0} /\ Len(p) - 1 \in 0 .. Len(p) /\ p \in Way(p)
  BY WayIs
<1>2. ParentOf(p) \in Seq(T) /\ Len(ParentOf(p)) = Len(p) - 1
  BY <1>1, UptoIs DEF ParentOf
<1>3. ParentOf(p) # << >> <=> Len(p) > 1
  BY <1>1, <1>2
<1>4. Len(p) > 1 => ParentOf(p) \in Way(p)
  BY <1>1 DEF ParentOf, Way
<1>5. ASSUME NEW q \in Way(p), q # p PROVE q \in Way(ParentOf(p))
  <2>1. Len(q) \in 1 .. Len(p) /\ q = Upto(p, Len(q)) /\ p = Upto(p, Len(p))
    BY WayIs, UptoAll
  <2>2. Len(q) # Len(p)
    BY <1>5, <2>1
  <2>3. Len(p) > 1 /\ Len(q) <= Len(p) - 1
    BY <1>1, <2>1, <2>2
  <2>4. ParentOf(p) \in Way(p)
    BY <1>4, <2>3
  <2>5. QED
    BY <1>2, <2>3, <2>4, WayOfWay
<1>6. QED
  BY <1>2, <1>3, <1>4, <1>5
-----------------------------------------------------------------------------
(* Counting the places of a sequence.                                      *)

(* There are finitely many.                                                *)
LEMMA HitsFinite ==
  ASSUME NEW T, NEW s \in Seq(T), NEW X
  PROVE  /\ IsFiniteSet(Hits(s, X)) /\ Cardinality(Hits(s, X)) \in Nat
         /\ Cardinality(Hits(s, X)) <= Len(s)
<1>1. Len(s) \in Nat /\ DOMAIN s = 1 .. Len(s)
  BY SeqIs
<1>2. IsFiniteSet(1 .. Len(s)) /\ Cardinality(1 .. Len(s)) = Len(s)
  BY <1>1, FS_Interval
<1>3. Hits(s, X) \subseteq 1 .. Len(s)
  BY <1>1 DEF Hits
<1>4. QED
  BY <1>2, <1>3, FS_Subset, FS_CardinalityType

(* An element more.                                                        *)
LEMMA HitsAppend ==
  ASSUME NEW T, NEW s \in Seq(T), NEW e \in T, NEW X
  PROVE  /\ Cardinality(Hits(Append(s, e), X))
              = Cardinality(Hits(s, X)) + IF e \in X THEN 1 ELSE 0
<1> DEFINE n == Len(s)
           longer == Append(s, e)
           old == Hits(s, X)
<1>1. /\ n \in Nat /\ DOMAIN s = 1 .. n /\ DOMAIN longer = 1 .. (n + 1)
      /\ \A k \in 1 .. (n + 1) : longer[k] = IF k <= n THEN s[k] ELSE e
  BY SeqIs, Appended
<1>2. IsFiniteSet(old) /\ Cardinality(old) \in Nat
  BY HitsFinite
<1>3. n + 1 \notin old
  BY <1>1 DEF Hits
<1>4. Hits(longer, X) = old \cup (IF e \in X THEN {n + 1} ELSE {})
  <2> HIDE DEF n, longer
  <2>1. ASSUME NEW k \in 1 .. n
        PROVE  k \in 1 .. (n + 1) /\ longer[k] = s[k] /\ k # n + 1
    BY <1>1
  <2>2. longer[n + 1] = e /\ 1 .. (n + 1) = (1 .. n) \cup {n + 1}
    BY <1>1
  <2>3. QED
    BY <1>1, <2>1, <2>2 DEF Hits
<1> HIDE DEF n, longer, old
<1>5. CASE e \in X
  <2>1. Hits(longer, X) = old \cup {n + 1}
    BY <1>4, <1>5
  <2>2. Cardinality(old \cup {n + 1}) = Cardinality(old) + 1
    BY <1>2, <1>3, FS_AddElement
  <2>3. QED
    BY <1>5, <2>1, <2>2 DEF longer, old
<1>6. CASE e \notin X
  <2>1. Hits(longer, X) = old
    BY <1>4, <1>6
  <2>2. Cardinality(old) = Cardinality(old) + 0
    BY <1>2
  <2>3. QED
    BY <1>6, <2>1, <2>2 DEF longer, old
<1>7. QED
  BY <1>5, <1>6

(* An element less.                                                        *)
LEMMA HitsTail ==
  ASSUME NEW T, NEW s \in Seq(T), s # << >>, NEW X
  PROVE  Cardinality(Hits(Tail(s), X))
           = Cardinality(Hits(s, X)) - IF Head(s) \in X THEN 1 ELSE 0
<1> DEFINE n == Len(s)
           rest == Tail(s)
           old == Hits(s, X)
           new == Hits(rest, X)
           f == [k \in new |-> k + 1]
<1>1. /\ n \in Nat \ {0} /\ DOMAIN s = 1 .. n /\ DOMAIN rest = 1 .. (n - 1)
      /\ rest \in Seq(T) /\ Head(s) = s[1]
      /\ \A k \in 1 .. (n - 1) : rest[k] = s[k + 1]
  OBVIOUS
<1>2. /\ IsFiniteSet(old) /\ Cardinality(old) \in Nat
      /\ IsFiniteSet(new) /\ Cardinality(new) \in Nat
  BY <1>1, HitsFinite
<1>3. Cardinality(new) = Cardinality(old \ {1})
  <2> HIDE DEF n, rest
  <2>1. \A k \in new : k \in 1 .. (n - 1) /\ k + 1 \in old \ {1}
    BY <1>1 DEF Hits
  <2>2. ASSUME NEW k \in old \ {1} PROVE k - 1 \in new /\ f[k - 1] = k
    <3>1. k \in 2 .. n /\ k - 1 \in 1 .. (n - 1) /\ (k - 1) + 1 = k
      BY <1>1, <2>2 DEF Hits
    <3>2. rest[k - 1] = s[k]
      BY <1>1, <3>1
    <3>3. k - 1 \in new
      BY <1>1, <2>2, <3>1, <3>2 DEF Hits
    <3>4. QED
      BY <3>1, <3>3
  <2>3. f \in Bijection(new, old \ {1})
    <3>1. f \in [new -> old \ {1}]
      BY <2>1
    <3>2. \A j, k \in new : f[j] = f[k] => j = k
      BY <2>1
    <3>3. QED
      BY <2>2, <3>1, <3>2 DEF Bijection, Injection, Surjection, IsInjective
  <2>4. QED
    BY <1>2, <2>3, FS_Bijection DEF ExistsBijection
<1>4. CASE Head(s) \in X
  <2>1. 1 \in old
    BY <1>1, <1>4 DEF Hits
  <2>2. Cardinality(old \ {1}) = Cardinality(old) - 1
    BY <1>2, <2>1, FS_RemoveElement
  <2>3. QED
    BY <1>3, <1>4, <2>2
<1>5. CASE Head(s) \notin X
  <2>1. 1 \notin old
    BY <1>1, <1>5 DEF Hits
  <2>2. old \ {1} = old
    BY <2>1
  <2>3. Cardinality(new) = Cardinality(old) - 0
    <3> HIDE DEF old, new
    <3>1. Cardinality(new) = Cardinality(old)
      BY <1>3, <2>2
    <3>2. Cardinality(old) - 0 = Cardinality(old)
      BY <1>2
    <3>3. QED
      BY <3>1, <3>2
  <2>4. QED
    BY <1>5, <2>3
<1>6. QED
  BY <1>4, <1>5
-----------------------------------------------------------------------------
(* The order of items by a table.                                          *)

(* Items are ranked by numbers.                                            *)
IsTable(table) == \A i \in DOMAIN table : table[i] \in Int

(* How many items of S come before a.                                      *)
RankOf(S, table, a) == Cardinality({b \in S : ItemMapCmp(table, b, a)})

(* No item is before itself.                                               *)
LEMMA CmpIrreflexive ==
  ASSUME NEW table, IsTable(table), NEW a \in Nat
  PROVE  ~ ItemMapCmp(table, a, a)
BY DEF ItemMapCmp, IsTable

(* Of two items one is before the other.                                   *)
LEMMA CmpTotal ==
  ASSUME NEW table, IsTable(table), NEW a \in Nat, NEW b \in Nat, a # b
  PROVE  ItemMapCmp(table, a, b) \/ ItemMapCmp(table, b, a)
BY DEF ItemMapCmp, IsTable

(* The order is transitive.                                                *)
LEMMA CmpTransitive ==
  ASSUME NEW table, IsTable(table), NEW a \in Nat, NEW b \in Nat, NEW c \in Nat,
         ItemMapCmp(table, a, b), ItemMapCmp(table, b, c)
  PROVE  ItemMapCmp(table, a, c)
<1> DEFINE D == DOMAIN table
<1>1. CASE a \notin D
  BY <1>1 DEF ItemMapCmp, IsTable
<1>2. CASE a \in D /\ c \notin D
  BY <1>2 DEF ItemMapCmp, IsTable
<1>3. CASE a \in D /\ c \in D
  <2>1. b \in D
    BY <1>3 DEF ItemMapCmp
  <2>2. QED
    BY <1>3, <2>1 DEF ItemMapCmp, IsTable
<1>4. QED
  BY <1>1, <1>2, <1>3

(* The ranks of the items of a set are 0, 1, 2...                          *)
LEMMA Ranks ==
  ASSUME NEW table, IsTable(table), NEW S \in SUBSET Nat, IsFiniteSet(S)
  PROVE  /\ Cardinality(S) \in Nat
         /\ \A a \in S : RankOf(S, table, a) \in 0 .. (Cardinality(S) - 1)
         /\ \A a, b \in S : ItemMapCmp(table, a, b) =>
                              RankOf(S, table, a) < RankOf(S, table, b)
         /\ \A a, b \in S : RankOf(S, table, a) = RankOf(S, table, b) => a = b
         /\ \A r \in 0 .. (Cardinality(S) - 1) : \E a \in S : RankOf(S, table, a) = r
<1> DEFINE n == Cardinality(S)
           earlier(a) == {b \in S : ItemMapCmp(table, b, a)}
           rank == [a \in S |-> RankOf(S, table, a)]
<1>1. n \in Nat
  BY FS_CardinalityType
<1>2. ASSUME NEW a \in S
      PROVE  /\ IsFiniteSet(earlier(a)) /\ a \notin earlier(a)
             /\ RankOf(S, table, a) \in 0 .. (n - 1) /\ RankOf(S, table, a) \in Nat
  <2>1. a \notin earlier(a) /\ earlier(a) \in SUBSET (S \ {a})
    BY CmpIrreflexive
  <2>2. IsFiniteSet(S \ {a}) /\ Cardinality(S \ {a}) = n - 1
    BY FS_RemoveElement
  <2>3. IsFiniteSet(earlier(a)) /\ Cardinality(earlier(a)) <= n - 1
    BY <2>1, <2>2, FS_Subset
  <2>4. Cardinality(earlier(a)) \in Nat
    BY <2>3, FS_CardinalityType
  <2>5. RankOf(S, table, a) = Cardinality(earlier(a))
    BY DEF RankOf
  <2> HIDE DEF earlier, n
  <2>6. QED
    BY <1>1, <2>1, <2>3, <2>4, <2>5
<1>3. ASSUME NEW a \in S, NEW b \in S, ItemMapCmp(table, a, b)
      PROVE  RankOf(S, table, a) < RankOf(S, table, b)
  <2>1. earlier(a) \cup {a} \in SUBSET earlier(b)
    <3>1. ASSUME NEW c \in earlier(a) PROVE ItemMapCmp(table, c, b)
      <4>1. c \in Nat /\ a \in Nat /\ b \in Nat /\ ItemMapCmp(table, c, a)
        BY <3>1
      <4>2. QED
        BY <1>3, <4>1, CmpTransitive
    <3>2. QED
      BY <1>3, <3>1
  <2>2. Cardinality(earlier(a) \cup {a}) = Cardinality(earlier(a)) + 1
    BY <1>2, FS_AddElement
  <2>3. Cardinality(earlier(a) \cup {a}) <= Cardinality(earlier(b))
    BY <1>2, <2>1, FS_Subset
  <2>4. /\ RankOf(S, table, a) = Cardinality(earlier(a))
        /\ RankOf(S, table, b) = Cardinality(earlier(b))
    BY DEF RankOf
  <2>5. RankOf(S, table, a) \in Nat /\ RankOf(S, table, b) \in Nat
    BY <1>2
  <2> HIDE DEF earlier
  <2>6. QED
    BY <2>2, <2>3, <2>4, <2>5
<1>4. ASSUME NEW a \in S, NEW b \in S, RankOf(S, table, a) = RankOf(S, table, b)
      PROVE  a = b
  <2>1. SUFFICES ASSUME a # b PROVE FALSE
    OBVIOUS
  <2>2. ItemMapCmp(table, a, b) \/ ItemMapCmp(table, b, a)
    BY <2>1, CmpTotal
  <2>3. RankOf(S, table, a) \in Nat /\ RankOf(S, table, b) \in Nat
    BY <1>2
  <2>4. QED
    BY <1>3, <1>4, <2>2, <2>3
<1>5. ASSUME NEW r \in 0 .. (n - 1) PROVE \E a \in S : RankOf(S, table, a) = r
  <2>1. rank \in Injection(S, 0 .. (n - 1))
    BY <1>2, <1>4 DEF Injection, IsInjective
  <2>2. IsFiniteSet(0 .. (n - 1)) /\ Cardinality(0 .. (n - 1)) = n
    <3>1. 0 \in Int /\ n - 1 \in Int
      BY <1>1
    <3>2. /\ IsFiniteSet(0 .. (n - 1))
          /\ Cardinality(0 .. (n - 1)) = IF 0 > n - 1 THEN 0 ELSE (n - 1) - 0 + 1
      BY <3>1, FS_Interval
    <3>3. QED
      BY <1>1, <3>2
  <2>3. rank \in Surjection(S, 0 .. (n - 1))
    BY <2>1, <2>2, FS_Injection
  <2>4. \E a \in S : rank[a] = r
    BY <2>3 DEF Surjection
  <2>5. QED
    BY <2>4
<1>6. QED
  BY <1>1, <1>2, <1>3, <1>4, <1>5

(* SortItems gives a route through all items, in order.                    *)
LEMMA SortItemsIs ==
  ASSUME NEW table, IsTable(table), NEW S \in SUBSET Nat, IsFiniteSet(S)
  PROVE  LET s == SortItems(S, table)
         IN s \in Routes /\ Len(s) = Cardinality(S) /\ On(s) = S /\ Ordered(s, table)
<1> DEFINE s == SortItems(S, table)
           n == Cardinality(S)
<1>1. n \in Nat
  BY FS_CardinalityType
<1>2. DOMAIN s = 1 .. n
  BY DEF SortItems
<1>3. ASSUME NEW k \in 1 .. n PROVE s[k] \in S /\ RankOf(S, table, s[k]) = k - 1
  <2>1. k - 1 \in 0 .. (n - 1)
    BY <1>1
  <2>2. s[k] = CHOOSE a \in S : RankOf(S, table, a) = k - 1
    BY DEF SortItems, RankOf
  <2>3. \E a \in S : RankOf(S, table, a) = k - 1
    BY <2>1, Ranks
  <2> HIDE DEF s
  <2>4. QED
    BY <2>2, <2>3
<1>4. s \in Seq(Nat) /\ Len(s) = n
  <2>1. s \in [1 .. n -> Nat]
    BY <1>3 DEF SortItems
  <2> HIDE DEF s
  <2>2. QED
    BY <1>1, <2>1
<1>10. \A a, b \in S : RankOf(S, table, a) = RankOf(S, table, b) => a = b
  BY Ranks
<1> HIDE DEF s, n
<1>5. Distinct(s)
  BY <1>1, <1>2, <1>3 DEF Distinct
<1>6. s \in Routes
  BY <1>4, <1>5 DEF Routes
<1>7. On(s) = S
  <2>1. ASSUME NEW a \in S PROVE a \in On(s)
    <3> DEFINE r == RankOf(S, table, a)
    <3>1. r \in 0 .. (n - 1)
      BY Ranks DEF n
    <3> HIDE DEF r
    <3>2. r + 1 \in 1 .. n /\ (r + 1) - 1 = r
      BY <1>1, <3>1
    <3>3. s[r + 1] \in S /\ RankOf(S, table, s[r + 1]) = r
      BY <1>3, <3>2
    <3>4. s[r + 1] = a
      BY <1>10, <3>3 DEF r
    <3>5. QED
      BY <1>2, <3>2, <3>4 DEF On
  <2>2. QED
    BY <1>2, <1>3, <2>1 DEF On
<1>8. Ordered(s, table)
  <2>1. ASSUME NEW j \in 1 .. (n - 1) PROVE ItemMapCmp(table, s[j], s[j + 1])
    <3>1. j \in 1 .. n /\ j + 1 \in 1 .. n /\ j \in Nat /\ (j + 1) - 1 = j
      BY <1>1
    <3>2. /\ s[j] \in S /\ RankOf(S, table, s[j]) = j - 1
          /\ s[j + 1] \in S /\ RankOf(S, table, s[j + 1]) = j
      BY <1>3, <3>1
    <3>3. s[j] # s[j + 1] /\ ~ (RankOf(S, table, s[j + 1]) < RankOf(S, table, s[j]))
      BY <3>1, <3>2
    <3>4. s[j] \in Nat /\ s[j + 1] \in Nat
      BY <3>2
    <3>5. ItemMapCmp(table, s[j], s[j + 1]) \/ ItemMapCmp(table, s[j + 1], s[j])
      BY <3>3, <3>4, CmpTotal
    <3>6. QED
      BY <3>2, <3>3, <3>5, Ranks
  <2>2. QED
    BY <1>4, <2>1 DEF Ordered
<1>9. QED
  BY <1>4, <1>6, <1>7, <1>8 DEF s, n

(* On a path in order every item is before all that follow it.             *)
LEMMA OrderedPairs ==
  ASSUME NEW table, IsTable(table), NEW p \in Seq(Nat), Ordered(p, table),
         NEW i \in 1 .. Len(p), NEW j \in 1 .. Len(p), i < j
  PROVE  ItemMapCmp(table, p[i], p[j])
<1> DEFINE bad == {k \in Nat : k \in 1 .. Len(p) /\ i < k /\ ~ ItemMapCmp(table, p[i], p[k])}
<1>1. SUFFICES ASSUME bad # {} PROVE FALSE
  OBVIOUS
<1>2. bad \in SUBSET Nat
  OBVIOUS
<1> HIDE DEF bad
<1>3. PICK k \in bad : \A m \in bad : k <= m
  BY <1>1, <1>2, LeastExists
<1>4. k \in 1 .. Len(p) /\ i < k /\ ~ ItemMapCmp(table, p[i], p[k]) /\ Len(p) \in Nat
  BY <1>3 DEF bad
<1>5. k - 1 \in 1 .. (Len(p) - 1) /\ k - 1 \in 1 .. Len(p) /\ (k - 1) + 1 = k
  BY <1>4
<1>6. ItemMapCmp(table, p[k - 1], p[k])
  BY <1>5 DEF Ordered
<1>7. CASE k - 1 = i
  BY <1>4, <1>6, <1>7
<1>8. CASE k - 1 # i
  <2>1. i < k - 1 /\ k - 1 \in Nat /\ ~ (k <= k - 1)
    BY <1>4, <1>5, <1>8
  <2>2. ItemMapCmp(table, p[i], p[k - 1])
    BY <1>3, <1>5, <2>1 DEF bad
  <2>3. p[i] \in Nat /\ p[k - 1] \in Nat /\ p[k] \in Nat
    BY <1>4, <1>5, SeqIs
  <2>4. QED
    BY <1>4, <1>6, <2>2, <2>3, CmpTransitive
<1>9. QED
  BY <1>7, <1>8

(* There is one order of given items: a path in order is found by sorting. *)
LEMMA OrderedUnique ==
  ASSUME NEW table, IsTable(table), NEW p \in Seq(Nat), Ordered(p, table)
  PROVE  p = SortItems(On(p), table)
<1> DEFINE S == On(p)
           n == Len(p)
<1>1. n \in Nat /\ DOMAIN p = 1 .. n /\ \A k \in 1 .. n : p[k] \in Nat
  BY SeqIs
<1>2. S \in SUBSET Nat /\ S = {p[k] : k \in 1 .. n}
  BY <1>1 DEF On
<1> HIDE DEF n
<1>3. \A i, j \in 1 .. n : i < j => ItemMapCmp(table, p[i], p[j])
  BY OrderedPairs DEF n
<1>4. \A i, j \in 1 .. n : p[i] = p[j] => i = j
  <2>1. SUFFICES ASSUME NEW i \in 1 .. n, NEW j \in 1 .. n, p[i] = p[j], i < j
                 PROVE  FALSE
    BY <1>1
  <2>2. ItemMapCmp(table, p[i], p[j])
    BY <1>3, <2>1
  <2>3. QED
    BY <1>1, <2>1, <2>2, CmpIrreflexive
<1>5. \A k \in 0 .. n : /\ IsFiniteSet({p[j] : j \in 1 .. k})
                        /\ Cardinality({p[j] : j \in 1 .. k}) = k
  <2> SUFFICES ASSUME NEW k \in 0 .. n
               PROVE  /\ IsFiniteSet({p[j] : j \in 1 .. k})
                      /\ Cardinality({p[j] : j \in 1 .. k}) = k
    OBVIOUS
  <2> DEFINE f == [j \in 1 .. k |-> p[j]]
             A == {p[j] : j \in 1 .. k}
  <2>1. k \in Nat /\ 1 .. k \subseteq 1 .. n
    BY <1>1
  <2>2. IsFiniteSet(1 .. k) /\ Cardinality(1 .. k) = k
    BY <2>1, FS_Interval
  <2>3. f \in Bijection(1 .. k, A)
    <3>1. f \in [1 .. k -> A]
      OBVIOUS
    <3>2. \A i, j \in 1 .. k : f[i] = f[j] => i = j
      BY <1>4, <2>1
    <3>3. \A a \in A : \E j \in 1 .. k : f[j] = a
      OBVIOUS
    <3>4. QED
      BY <3>1, <3>2, <3>3 DEF Bijection, Injection, Surjection, IsInjective
  <2>4. QED
    BY <2>2, <2>3, FS_Bijection DEF ExistsBijection
<1>6. IsFiniteSet(S) /\ Cardinality(S) = n
  <2>1. n \in 0 .. n
    BY <1>1
  <2>2. QED
    BY <1>2, <1>5, <2>1
<1>7. ASSUME NEW k \in 1 .. n PROVE RankOf(S, table, p[k]) = k - 1
  <2>1. {b \in S : ItemMapCmp(table, b, p[k])} = {p[j] : j \in 1 .. (k - 1)}
    <3>1. ASSUME NEW j \in 1 .. (k - 1)
          PROVE  p[j] \in S /\ ItemMapCmp(table, p[j], p[k])
      <4>1. j \in 1 .. n /\ j < k
        BY <1>1, <1>7
      <4>2. QED
        BY <1>2, <1>3, <4>1
    <3>2. ASSUME NEW j \in 1 .. n, ItemMapCmp(table, p[j], p[k])
          PROVE  j \in 1 .. (k - 1)
      <4>1. SUFFICES ASSUME ~ (j < k) PROVE FALSE
        BY <1>1
      <4>2. p[j] \in Nat /\ p[k] \in Nat /\ (j = k \/ k < j)
        BY <1>1, <4>1
      <4>3. j # k
        BY <3>2, <4>2, CmpIrreflexive
      <4>4. ItemMapCmp(table, p[k], p[j])
        BY <1>3, <4>2, <4>3
      <4>5. ItemMapCmp(table, p[k], p[k])
        BY <3>2, <4>2, <4>4, CmpTransitive
      <4>6. QED
        BY <4>2, <4>5, CmpIrreflexive
    <3>3. QED
      BY <1>2, <3>1, <3>2
  <2>2. k - 1 \in 0 .. n
    BY <1>1
  <2>3. Cardinality({p[j] : j \in 1 .. (k - 1)}) = k - 1
    BY <1>5, <2>2
  <2>4. QED
    BY <2>1, <2>3 DEF RankOf
<1> HIDE DEF S
<1>8. \A a, b \in S : RankOf(S, table, a) = RankOf(S, table, b) => a = b
  <2>1. S \in SUBSET Nat /\ IsFiniteSet(S)
    BY <1>2, <1>6
  <2>2. QED
    BY <2>1, Ranks, Zenon
<1> DEFINE s == SortItems(S, table)
<1>9. s \in Seq(Nat) /\ Len(s) = n /\ DOMAIN s = 1 .. n
  BY <1>1, <1>2, <1>6, SortItemsIs DEF Routes
<1>10. ASSUME NEW k \in 1 .. n PROVE s[k] = p[k]
  <2>1. s[k] = CHOOSE a \in S : RankOf(S, table, a) = k - 1
    BY <1>6 DEF SortItems, RankOf
  <2>2. p[k] \in S /\ RankOf(S, table, p[k]) = k - 1
    BY <1>2, <1>7
  <2>3. \A a \in S : RankOf(S, table, a) = k - 1 => a = p[k]
    BY <1>8, <2>2
  <2> HIDE DEF s
  <2>4. QED
    BY <2>1, <2>2, <2>3
<1> HIDE DEF s
<1>11. s = p
  BY <1>9, <1>10, SeqEq DEF n
<1>12. QED
  BY <1>11 DEF s, S

(* A part of a path in order is in order.                                  *)
LEMMA OrderedUpto ==
  ASSUME NEW table, NEW p \in Seq(Nat), Ordered(p, table), NEW q \in Way(p)
  PROVE  Ordered(q, table)
<1>1. Len(q) \in 1 .. Len(p) /\ q = Upto(p, Len(q)) /\ Len(p) \in Nat
  BY WayIs
<1>2. Len(q) \in 0 .. Len(p)
  BY <1>1
<1>3. \A j \in 1 .. Len(q) : q[j] = p[j]
  BY <1>1, <1>2, UptoIs
<1>4. ASSUME NEW j \in 1 .. (Len(q) - 1)
      PROVE  ItemMapCmp(table, q[j], q[j + 1])
  <2>1. j \in 1 .. (Len(p) - 1) /\ j \in 1 .. Len(q) /\ j + 1 \in 1 .. Len(q)
    BY <1>1
  <2>2. QED
    BY <1>3, <2>1 DEF Ordered
<1>5. QED
  BY <1>4 DEF Ordered
-----------------------------------------------------------------------------
(* The leaf list.                                                          *)

(* A tree has its four fields.                                             *)
IsTree(t) == t = [count |-> t.count, leaves |-> t.leaves, next |-> t.next,
                  freq |-> t.freq]

(* Its list holds routes, each once, and the iterator is on it, one past   *)
(* its end, or not registered.                                             *)
IsList(t) ==
  /\ t.leaves \in Seq(Routes) /\ Distinct(t.leaves)
  /\ t.next \in 0 .. (Len(t.leaves) + 1)

(* The leaves the iterator has not returned yet.                           *)
Ahead(t) == {t.leaves[j] : j \in {i \in DOMAIN t.leaves : i >= t.next}}

(* Replacing fields of a tree.                                             *)
LEMMA TreeExcept ==
  ASSUME NEW t, IsTree(t), NEW leaves, NEW next
  PROVE  /\ [t EXCEPT !.leaves = leaves, !.next = next]
              = [count |-> t.count, leaves |-> leaves, next |-> next, freq |-> t.freq]
         /\ [t EXCEPT !.leaves = leaves]
              = [count |-> t.count, leaves |-> leaves, next |-> t.next, freq |-> t.freq]
         /\ [t EXCEPT !.next = next]
              = [count |-> t.count, leaves |-> t.leaves, next |-> next, freq |-> t.freq]
<1> DEFINE c == t.count
           l == t.leaves
           x == t.next
           f == t.freq
<1>1. t = [count |-> c, leaves |-> l, next |-> x, freq |-> f]
  BY DEF IsTree
<1> HIDE DEF c, l, x, f
<1>2. t.count = c /\ t.leaves = l /\ t.next = x /\ t.freq = f
  BY <1>1
<1> DEFINE u == [t EXCEPT !.leaves = leaves]
<1>3. u = [count |-> c, leaves |-> leaves, next |-> x, freq |-> f]
  BY <1>1
<1>4. [t EXCEPT !.leaves = leaves, !.next = next] = [u EXCEPT !.next = next]
  OBVIOUS
<1>5. [t EXCEPT !.next = next] = [count |-> c, leaves |-> l, next |-> next, freq |-> f]
  BY <1>1
<1> HIDE DEF u
<1>6. [u EXCEPT !.next = next] = [count |-> c, leaves |-> leaves, next |-> next, freq |-> f]
  BY <1>3
<1>7. QED
  BY <1>2, <1>3, <1>4, <1>5, <1>6 DEF u

(* How many of the places in kept are before j.                            *)
LEMMA KeptRanks ==
  ASSUME NEW kept \in SUBSET Nat, IsFiniteSet(kept)
  PROVE  /\ Cardinality(kept) \in Nat
         /\ \A j \in kept : Cardinality({i \in kept : i < j}) \in 0 .. (Cardinality(kept) - 1)
         /\ \A i, j \in kept : Cardinality({k \in kept : k < i}) = Cardinality({k \in kept : k < j})
                                 => i = j
         /\ \A r \in 0 .. (Cardinality(kept) - 1) :
              \E j \in kept : Cardinality({i \in kept : i < j}) = r
<1>1. IsTable(NoTable)
  BY DEF IsTable, NoTable
<1>2. \A i, j \in kept : ItemMapCmp(NoTable, i, j) <=> i < j
  BY DEF ItemMapCmp, NoTable
<1>3. ASSUME NEW j \in kept
      PROVE  RankOf(kept, NoTable, j) = Cardinality({i \in kept : i < j})
  <2>1. {b \in kept : ItemMapCmp(NoTable, b, j)} = {i \in kept : i < j}
    BY <1>2
  <2>2. QED
    BY <2>1 DEF RankOf
<1>4. /\ Cardinality(kept) \in Nat
      /\ \A a \in kept : RankOf(kept, NoTable, a) \in 0 .. (Cardinality(kept) - 1)
      /\ \A a, b \in kept : RankOf(kept, NoTable, a) = RankOf(kept, NoTable, b) => a = b
      /\ \A r \in 0 .. (Cardinality(kept) - 1) : \E a \in kept : RankOf(kept, NoTable, a) = r
  BY <1>1, Ranks
<1>5. QED
  BY <1>3, <1>4

(* Erasing leaves.                                                         *)
LEMMA EraseIs ==
  ASSUME NEW t, IsTree(t), IsList(t), NEW S
  PROVE  LET e == EraseLeaves(t, S)
         IN /\ IsTree(e) /\ IsList(e)
            /\ e.count = t.count /\ e.freq = t.freq
            /\ On(e.leaves) = On(t.leaves) \ S
            /\ e.next = 0 <=> t.next = 0
            /\ \A p \in Ahead(t) : p \in S \/ p \in Ahead(e)
<1> DEFINE s == t.leaves
           next == t.next
           kept == {j \in DOMAIN s : s[j] \notin S}
           earlier(j) == Cardinality({i \in kept : i < j})
           place(k) == CHOOSE j \in kept : earlier(j) = k - 1
           n == Cardinality(kept)
           r == [k \in 1 .. n |-> s[place(k)]]
           to == IF next = 0 THEN 0 ELSE earlier(next) + 1
           e == EraseLeaves(t, S)
<1>1. e = [count |-> t.count, leaves |-> r, next |-> to, freq |-> t.freq]
  <2>1. e = [t EXCEPT !.leaves = r, !.next = to]
    BY DEF EraseLeaves
  <2> HIDE DEF e, r, to
  <2>2. QED
    BY <2>1, TreeExcept
<1>2. s \in Seq(Routes) /\ Distinct(s) /\ next \in 0 .. (Len(s) + 1)
      /\ Len(s) \in Nat /\ DOMAIN s = 1 .. Len(s)
  BY SeqIs DEF IsList
<1> HIDE DEF s, next
<1>3. kept \in SUBSET Nat /\ IsFiniteSet(kept)
  <2>1. IsFiniteSet(1 .. Len(s))
    BY <1>2, FS_Interval
  <2>2. kept \subseteq 1 .. Len(s)
    BY <1>2
  <2>3. QED
    BY <2>1, <2>2, FS_Subset
<1>4. /\ \A j \in kept : j \in 1 .. Len(s) /\ s[j] \notin S /\ s[j] \in Routes
      /\ \A j \in 1 .. Len(s) : s[j] \in S \/ j \in kept
  BY <1>2, SeqIs
<1> HIDE DEF kept
<1>5. /\ n \in Nat
      /\ \A j \in kept : earlier(j) \in 0 .. (n - 1)
      /\ \A i, j \in kept : earlier(i) = earlier(j) => i = j
      /\ \A k \in 0 .. (n - 1) : \E j \in kept : earlier(j) = k
  BY <1>3, KeptRanks
<1>6. ASSUME NEW j \in Nat
      PROVE  earlier(j) \in 0 .. n
  <2>1. {i \in kept : i < j} \in SUBSET kept
    OBVIOUS
  <2>2. Cardinality({i \in kept : i < j}) \in Nat /\ Cardinality({i \in kept : i < j}) <= n
    BY <1>3, <2>1, FS_Subset, FS_CardinalityType
  <2>3. QED
    BY <1>5, <2>2
<1>7. ASSUME NEW j \in kept, NEW i \in Nat, i <= j
      PROVE  earlier(i) <= earlier(j)
  <2>1. {k \in kept : k < i} \in SUBSET {k \in kept : k < j}
    <3>1. ASSUME NEW k \in kept, k < i PROVE k < j
      <4>1. k \in Nat /\ j \in Nat
        BY <1>3
      <4>2. QED
        BY <1>7, <3>1, <4>1
    <3>2. QED
      BY <3>1
  <2>2. {k \in kept : k < j} \in SUBSET kept
    OBVIOUS
  <2>3. IsFiniteSet({k \in kept : k < j})
    BY <1>3, <2>2, FS_Subset
  <2>4. QED
    BY <2>1, <2>3, FS_Subset
<1> HIDE DEF n, earlier
<1>8. ASSUME NEW k \in 1 .. n PROVE place(k) \in kept /\ earlier(place(k)) = k - 1
  <2>1. k - 1 \in 0 .. (n - 1)
    BY <1>5
  <2>2. \E j \in kept : earlier(j) = k - 1
    BY <1>5, <2>1
  <2>3. QED
    BY <2>2
<1>9. ASSUME NEW j \in kept PROVE earlier(j) + 1 \in 1 .. n /\ place(earlier(j) + 1) = j
  <2>1. earlier(j) + 1 \in 1 .. n /\ (earlier(j) + 1) - 1 = earlier(j) /\ earlier(j) \in Nat
    BY <1>5
  <2>2. place(earlier(j) + 1) \in kept /\ earlier(place(earlier(j) + 1)) = earlier(j)
    BY <1>8, <2>1
  <2> HIDE DEF place
  <2>3. QED
    BY <1>5, <2>1, <2>2
<1> HIDE DEF place
<1>10. r \in Seq(Routes) /\ Len(r) = n /\ DOMAIN r = 1 .. n
  <2>1. r \in [1 .. n -> Routes]
    BY <1>4, <1>8
  <2>2. QED
    BY <1>5, <2>1
<1>11. Distinct(r)
  <2>1. ASSUME NEW i \in 1 .. n, NEW j \in 1 .. n, r[i] = r[j] PROVE i = j
    <3>1. s[place(i)] = s[place(j)] /\ place(i) \in 1 .. Len(s) /\ place(j) \in 1 .. Len(s)
      BY <1>4, <1>8, <2>1
    <3>2. place(i) = place(j)
      BY <1>2, <3>1 DEF Distinct
    <3>3. i - 1 = j - 1
      BY <1>8, <3>2
    <3>4. QED
      BY <1>5, <3>3
  <2>2. QED
    BY <1>10, <2>1 DEF Distinct
<1>12. On(r) = On(s) \ S
  <2>1. ASSUME NEW k \in 1 .. n PROVE r[k] \in On(s) \ S
    BY <1>2, <1>4, <1>8 DEF On
  <2>2. ASSUME NEW p \in On(s) \ S PROVE p \in On(r)
    <3>1. PICK j \in 1 .. Len(s) : p = s[j]
      BY <1>2 DEF On
    <3>2. j \in kept
      BY <1>4, <2>2, <3>1
    <3>3. earlier(j) + 1 \in 1 .. n /\ r[earlier(j) + 1] = p
      BY <1>9, <3>1, <3>2
    <3>4. QED
      BY <1>10, <3>3 DEF On
  <2>3. QED
    BY <1>10, <2>1, <2>2 DEF On
<1>13. to \in 0 .. (n + 1) /\ (to = 0 <=> next = 0)
  <2>1. next \in Nat
    BY <1>2
  <2>2. earlier(next) \in 0 .. n
    BY <1>6, <2>1
  <2>3. QED
    BY <1>5, <2>2
<1>14. ASSUME NEW p \in {s[j] : j \in {i \in DOMAIN s : i >= next}}, p \notin S
       PROVE  p \in {r[j] : j \in {i \in DOMAIN r : i >= to}}
  <2>1. PICK j \in 1 .. Len(s) : p = s[j] /\ j >= next
    BY <1>2
  <2>2. j \in kept /\ next \in Nat /\ next <= j
    BY <1>2, <1>4, <1>14, <2>1
  <2>3. earlier(j) + 1 \in 1 .. n /\ r[earlier(j) + 1] = p
    BY <1>9, <2>1, <2>2
  <2>4. earlier(next) <= earlier(j) /\ earlier(next) \in 0 .. n /\ earlier(j) \in 0 .. (n - 1)
    BY <1>5, <1>6, <1>7, <2>2
  <2>5. earlier(j) + 1 >= to
    BY <1>5, <2>4
  <2>6. QED
    BY <1>10, <2>3, <2>5
<1> HIDE DEF r, to, e
<1>15. QED
  <2>1. /\ e.count = t.count /\ e.leaves = r /\ e.next = to /\ e.freq = t.freq
    BY <1>1
  <2>2. IsTree(e)
    BY <1>1, <2>1 DEF IsTree
  <2>3. IsList(e)
    BY <1>10, <1>11, <1>13, <2>1 DEF IsList
  <2>4. On(e.leaves) = On(t.leaves) \ S /\ (e.next = 0 <=> t.next = 0)
    BY <1>12, <1>13, <2>1 DEF s, next
  <2>5. \A p \in Ahead(t) : p \in S \/ p \in Ahead(e)
    BY <1>14, <2>1 DEF Ahead, s, next
  <2>6. QED
    BY <2>1, <2>2, <2>3, <2>4, <2>5 DEF e

(* A leaf at the end of the list.                                          *)
LEMMA AppendIs ==
  ASSUME NEW t, IsTree(t), IsList(t), NEW p \in Routes, p \notin On(t.leaves)
  PROVE  LET e == AppendLeaf(t, p)
         IN /\ IsTree(e) /\ IsList(e)
            /\ e.count = t.count /\ e.freq = t.freq
            /\ On(e.leaves) = On(t.leaves) \cup {p}
            /\ e.next = t.next
            /\ \A q \in Ahead(t) \cup {p} : q \in Ahead(e)
<1> DEFINE s == t.leaves
           n == Len(s)
           r == Append(s, p)
           e == AppendLeaf(t, p)
<1>1. e = [count |-> t.count, leaves |-> r, next |-> t.next, freq |-> t.freq]
  <2>1. e = [t EXCEPT !.leaves = r]
    BY DEF AppendLeaf
  <2> HIDE DEF e, r
  <2>2. QED
    BY <2>1, TreeExcept
<1>2. s \in Seq(Routes) /\ Distinct(s) /\ t.next \in 0 .. (n + 1)
  BY DEF IsList
<1>3. /\ r \in Seq(Routes) /\ Len(r) = n + 1 /\ n \in Nat
      /\ DOMAIN s = 1 .. n /\ DOMAIN r = 1 .. (n + 1)
      /\ \A k \in 1 .. (n + 1) : r[k] = IF k <= n THEN s[k] ELSE p
  BY <1>2, Appended, SeqIs
<1> HIDE DEF s, n, r, e
<1>4. 1 .. (n + 1) = (1 .. n) \cup {n + 1} /\ \A k \in 1 .. n : k <= n /\ k \in 1 .. (n + 1)
  BY <1>3
<1>5. (\A k \in 1 .. n : r[k] = s[k]) /\ r[n + 1] = p
  <2>1. n + 1 \in 1 .. (n + 1) /\ ~ (n + 1 <= n)
    BY <1>3
  <2>2. QED
    BY <1>3, <1>4, <2>1
<1>6. On(r) = On(s) \cup {p}
  BY <1>3, <1>4, <1>5 DEF On
<1>7. Distinct(r)
  <2>1. \A k \in 1 .. n : s[k] # p
    BY <1>3 DEF On, s
  <2>2. QED
    BY <1>2, <1>3, <1>4, <1>5, <2>1 DEF Distinct
<1>8. ASSUME NEW q \in {s[j] : j \in {i \in DOMAIN s : i >= t.next}} \cup {p}
      PROVE  q \in {r[j] : j \in {i \in DOMAIN r : i >= t.next}}
  <2>1. CASE q = p
    <3>1. n + 1 \in DOMAIN r /\ n + 1 >= t.next
      BY <1>2, <1>3
    <3>2. QED
      BY <1>5, <2>1, <3>1
  <2>2. CASE q # p
    <3>1. PICK j \in 1 .. n : q = s[j] /\ j >= t.next
      BY <1>3, <1>8, <2>2
    <3>2. QED
      BY <1>3, <1>4, <1>5, <3>1
  <2>3. QED
    BY <2>1, <2>2
<1>9. e.count = t.count /\ e.leaves = r /\ e.next = t.next /\ e.freq = t.freq
  BY <1>1
<1>10. IsTree(e)
  BY <1>1, <1>9 DEF IsTree
<1>11. IsList(e)
  <2>1. t.next \in 0 .. ((n + 1) + 1)
    BY <1>2, <1>3
  <2>2. QED
    BY <1>3, <1>7, <1>9, <2>1 DEF IsList
<1>12. \A q \in Ahead(t) \cup {p} : q \in Ahead(e)
  BY <1>8, <1>9 DEF Ahead, s
<1>13. QED
  BY <1>6, <1>9, <1>10, <1>11, <1>12 DEF e, s

(* A leaf at the head of the list.                                         *)
LEMMA PrependIs ==
  ASSUME NEW t, IsTree(t), IsList(t), NEW p \in Routes, p \notin On(t.leaves)
  PROVE  LET e == PrependLeaf(t, p)
         IN /\ IsTree(e) /\ IsList(e)
            /\ e.count = t.count /\ e.freq = t.freq
            /\ On(e.leaves) = On(t.leaves) \cup {p}
            /\ e.next = 0 <=> t.next = 0
            /\ \A q \in Ahead(t) : q \in Ahead(e)
<1> DEFINE s == t.leaves
           n == Len(s)
           r == <<p>> \o s
           x == t.next
           to == IF x = 0 THEN 0 ELSE x + 1
           e == PrependLeaf(t, p)
<1>1. e = [count |-> t.count, leaves |-> r, next |-> to, freq |-> t.freq]
  <2>1. e = [t EXCEPT !.leaves = r, !.next = to]
    BY DEF PrependLeaf
  <2> HIDE DEF e, r, to
  <2>2. QED
    BY <2>1, TreeExcept
<1>2. s \in Seq(Routes) /\ Distinct(s) /\ x \in 0 .. (n + 1)
  BY DEF IsList
<1>3. n \in Nat /\ DOMAIN s = 1 .. n
  BY <1>2, SeqIs
<1>4. r \in Seq(Routes) /\ Len(r) = n + 1
  <2> HIDE DEF s
  <2>1. QED
    BY <1>2
<1>5. DOMAIN r = 1 .. (n + 1)
  BY <1>4, SeqIs
<1>6. r[1] = p /\ \A k \in 1 .. n : r[k + 1] = s[k]
  <2> HIDE DEF s
  <2>1. r[1] = p
    BY <1>2
  <2>2. ASSUME NEW k \in 1 .. n PROVE r[k + 1] = s[k]
    BY <1>2
  <2>3. QED
    BY <2>1, <2>2
<1> HIDE DEF s, n, r, e, x
<1>7. ASSUME NEW k \in 1 .. (n + 1), k # 1
      PROVE  k - 1 \in 1 .. n /\ (k - 1) + 1 = k /\ r[k] = s[k - 1]
  <2>1. k - 1 \in 1 .. n /\ (k - 1) + 1 = k
    BY <1>3, <1>7
  <2>2. QED
    BY <1>6, <2>1
<1>8. \A k \in 1 .. n : k + 1 \in 1 .. (n + 1)
  BY <1>3
<1>9. 1 \in 1 .. (n + 1)
  BY <1>3
<1>10. On(r) = On(s) \cup {p}
  <2>1. ASSUME NEW q \in On(r) PROVE q \in On(s) \cup {p}
    <3>1. PICK k \in 1 .. (n + 1) : q = r[k]
      BY <1>5 DEF On
    <3>2. CASE k = 1
      BY <1>6, <3>1, <3>2
    <3>3. CASE k # 1
      BY <1>3, <1>7, <3>1, <3>3 DEF On
    <3>4. QED
      BY <3>2, <3>3
  <2>2. \A q \in On(s) \cup {p} : q \in On(r)
    BY <1>3, <1>5, <1>6, <1>8, <1>9 DEF On
  <2>3. QED
    BY <2>1, <2>2
<1>11. Distinct(r)
  <2>1. \A k \in 1 .. n : s[k] # p
    BY <1>3 DEF On, s
  <2>2. ASSUME NEW i \in 1 .. (n + 1), NEW j \in 1 .. (n + 1), r[i] = r[j] PROVE i = j
    <3>1. CASE i = 1 \/ j = 1
      BY <1>6, <1>7, <2>1, <2>2, <3>1
    <3>2. CASE i # 1 /\ j # 1
      <4>1. s[i - 1] = s[j - 1] /\ i - 1 \in 1 .. n /\ j - 1 \in 1 .. n
        BY <1>7, <2>2, <3>2
      <4>2. i - 1 = j - 1
        BY <1>2, <1>3, <4>1 DEF Distinct
      <4>3. QED
        BY <1>7, <3>2, <4>2
    <3>3. QED
      BY <3>1, <3>2
  <2>3. QED
    BY <1>5, <2>2 DEF Distinct
<1>12. to \in 0 .. ((n + 1) + 1) /\ (to = 0 <=> x = 0)
  BY <1>2, <1>3
<1>13. ASSUME NEW q \in {s[j] : j \in {i \in DOMAIN s : i >= x}}
       PROVE  q \in {r[j] : j \in {i \in DOMAIN r : i >= to}}
  <2>1. PICK j \in 1 .. n : q = s[j] /\ j >= x
    BY <1>3, <1>13
  <2>2. j + 1 >= to /\ j + 1 \in DOMAIN r /\ r[j + 1] = q
    BY <1>2, <1>3, <1>5, <1>6, <1>8, <2>1
  <2>3. QED
    BY <2>2
<1> HIDE DEF to
<1>14. e.count = t.count /\ e.leaves = r /\ e.next = to /\ e.freq = t.freq
  BY <1>1
<1>15. IsTree(e)
  BY <1>1, <1>14 DEF IsTree
<1>16. IsList(e)
  BY <1>4, <1>11, <1>12, <1>14 DEF IsList
<1>17. \A q \in Ahead(t) : q \in Ahead(e)
  BY <1>13, <1>14 DEF Ahead, s, x
<1>18. QED
  BY <1>10, <1>12, <1>14, <1>15, <1>16, <1>17 DEF e, s, x
-----------------------------------------------------------------------------
(* The shape of a tree.                                                    *)

(* With a node all nodes on the way to it are in the tree.                 *)
Closed(nodes) ==
  \A q \in nodes : q \in Routes /\ q # << >> /\ Way(q) \subseteq nodes

(* The nodes without children.                                             *)
Childless(nodes) == {p \in nodes : Children(nodes, p) = {}}

(* A route through N items has at most N nodes.                            *)
LEMMA RouteLength ==
  ASSUME NEW N \in Nat, NEW p \in Routes, On(p) \subseteq 1 .. N
  PROVE  Len(p) <= N
<1>1. p \in Seq(Nat) /\ Distinct(p) /\ Len(p) \in Nat /\ DOMAIN p = 1 .. Len(p)
  BY DEF Routes
<1>2. IsFiniteSet(1 .. N) /\ Cardinality(1 .. N) = N
  BY FS_Interval
<1>3. IsFiniteSet(1 .. Len(p)) /\ Cardinality(1 .. Len(p)) = Len(p)
  <2> DEFINE n == Len(p)
  <2>1. n \in Nat
    BY <1>1
  <2> HIDE DEF n
  <2>2. IsFiniteSet(1 .. n) /\ Cardinality(1 .. n) = n
    BY <2>1, FS_Interval
  <2>3. QED
    BY <2>2 DEF n
<1> DEFINE f == [k \in 1 .. Len(p) |-> p[k]]
<1>4. f \in [1 .. Len(p) -> 1 .. N]
  BY <1>1 DEF On
<1>5. f \in Injection(1 .. Len(p), 1 .. N)
  BY <1>1, <1>4 DEF Distinct, Injection, IsInjective
<1>6. Cardinality(1 .. Len(p)) <= Cardinality(1 .. N)
  BY <1>2, <1>3, <1>5, FS_Injection
<1>7. QED
  BY <1>2, <1>3, <1>6

(* How many nodes there are below depth d.                                 *)
LEMMA BelowCard ==
  ASSUME NEW T, NEW p \in Seq(T), NEW d \in 0 .. Len(p)
  PROVE  IsFiniteSet(Below(p, d)) /\ Cardinality(Below(p, d)) = Len(p) - d
<1> DEFINE n == Len(p)
           B == Below(p, d)
           f == [j \in (d + 1) .. n |-> Upto(p, j)]
<1>1. n \in Nat /\ d \in Nat /\ d <= n
  BY SeqIs
<1>2. IsFiniteSet((d + 1) .. n) /\ Cardinality((d + 1) .. n) = n - d
  <2> HIDE DEF n
  <2>1. /\ IsFiniteSet((d + 1) .. n)
        /\ Cardinality((d + 1) .. n) = IF d + 1 > n THEN 0 ELSE n - (d + 1) + 1
    BY <1>1, FS_Interval
  <2>2. QED
    BY <1>1, <2>1
<1>3. ASSUME NEW j \in (d + 1) .. n PROVE Len(Upto(p, j)) = j
  <2>1. j \in 0 .. Len(p)
    BY <1>1
  <2>2. QED
    BY <2>1, UptoIs
<1>4. f \in Bijection((d + 1) .. n, B)
  <2>1. B = {Upto(p, j) : j \in (d + 1) .. n}
    BY DEF Below
  <2> HIDE DEF B, n
  <2>2. f \in [(d + 1) .. n -> B]
    BY <2>1
  <2>3. \A i, j \in (d + 1) .. n : f[i] = f[j] => i = j
    BY <1>3
  <2>4. \A b \in B : \E j \in (d + 1) .. n : f[j] = b
    BY <2>1
  <2>5. QED
    BY <2>2, <2>3, <2>4 DEF Bijection, Injection, Surjection, IsInjective
<1>5. QED
  BY <1>2, <1>4, FS_Bijection DEF ExistsBijection

(* Every node has a leaf below it.                                         *)
LEMMA LeafBelow ==
  ASSUME NEW nodes, Closed(nodes), NEW N \in Nat, \A q \in nodes : Len(q) <= N,
         NEW q \in nodes
  PROVE  \E p \in Childless(nodes) : q \in Way(p)
<1> DEFINE under == {r \in nodes : q \in Way(r)}
           lengths == {Len(r) : r \in under}
<1>1. ASSUME NEW r \in nodes PROVE r \in Seq(Nat) /\ Len(r) \in 0 .. N /\ r # << >> /\ r \in Way(r)
  <2>1. r \in Seq(Nat) /\ r # << >> /\ Len(r) <= N
    BY DEF Closed, Routes
  <2>2. QED
    BY <2>1, SeqIs, WayIs
<1>2. lengths \in SUBSET (0 .. N) /\ lengths # {}
  BY <1>1
<1>3. PICK m \in lengths : \A k \in lengths : k <= m
  BY <1>2, GreatestExists
<1>4. PICK p \in under : Len(p) = m
  BY <1>3
<1>5. ASSUME NEW r \in Children(nodes, p) PROVE FALSE
  <2>1. r \in nodes /\ ParentOf(r) = p /\ p \in nodes /\ p # << >>
    BY <1>1, <1>5 DEF Children
  <2>2. p \in Way(r) /\ Len(p) = Len(r) - 1 /\ Len(r) \in 0 .. N
    BY <1>1, <2>1, ParentIs
  <2>3. q \in Way(r)
    BY <1>1, <1>4, <2>1, <2>2, WayOfWay
  <2>4. Len(r) \in lengths /\ Len(p) = m
    BY <1>4, <2>1, <2>3
  <2>5. Len(r) <= Len(p)
    BY <1>3, <2>4
  <2>6. QED
    BY <2>2, <2>5
<1>6. QED
  BY <1>4, <1>5 DEF Childless

(* What a tree gains by a path: the nodes below some depth d, where its    *)
(* last node becomes a leaf and the node at d is none.                     *)
LEMMA Grown ==
  ASSUME NEW nodes, Closed(nodes), NEW path \in Routes, ~ (Way(path) \subseteq nodes)
  PROVE  LET d == Len(path) - Cardinality(Way(path) \ nodes)
             more == nodes \cup Way(path)
         IN /\ IsFiniteSet(Way(path) \ nodes)
            /\ d \in 0 .. (Len(path) - 1)
            /\ path \notin nodes
            /\ Closed(more)
            /\ Childless(more) = (Childless(nodes) \ {Upto(path, d)}) \cup {path}
            /\ path # Upto(path, d)
<1> DEFINE n == Len(path)
           old == {k \in 0 .. n : k = 0 \/ Upto(path, k) \in nodes}
           more == nodes \cup Way(path)
<1>1. path \in Seq(Nat) /\ n \in Nat /\ path \in Routes
  BY DEF Routes
<1>2. old \in SUBSET (0 .. n) /\ old # {}
  <2>1. 0 \in old
    BY <1>1
  <2>2. QED
    BY <2>1
<1>3. PICK d \in old : \A k \in old : k <= d
  <2> HIDE DEF n, old
  <2>1. QED
    BY <1>1, <1>2, GreatestExists
<1>4. d \in 0 .. n /\ d \in Nat /\ (d = 0 \/ Upto(path, d) \in nodes)
  BY <1>3
<1>5. \A q \in Way(path) : /\ q \in Seq(Nat) /\ q \in Routes /\ q # << >> /\ Len(q) \in 1 .. n
                           /\ q = Upto(path, Len(q)) /\ q \in Way(q)
  BY <1>1, WayIs, RouteWay
<1>6. ASSUME NEW q \in Way(path) PROVE q \in nodes <=> Len(q) <= d
  <2>1. ASSUME q \in nodes PROVE Len(q) <= d
    <3>1. Len(q) \in old
      BY <1>1, <1>5, <2>1
    <3>2. QED
      BY <1>3, <3>1
  <2>2. ASSUME Len(q) <= d PROVE q \in nodes
    <3>1. d \in 1 .. n /\ Upto(path, d) \in nodes
      BY <1>1, <1>4, <1>5, <2>2
    <3>2. Upto(path, d) \in Way(path) /\ Len(Upto(path, d)) = d
      BY <1>1, <1>4, <3>1, WayIs, UptoIs
    <3>3. q \in Way(Upto(path, d))
      BY <1>1, <2>2, <3>2, WayOfWay
    <3>4. QED
      BY <3>1, <3>3 DEF Closed
  <2>3. QED
    BY <2>1, <2>2
<1>7. Way(path) \ nodes = Below(path, d)
  <2>1. Below(path, d) = {q \in Way(path) : Len(q) > d}
    BY <1>1, <1>4, BelowIs
  <2>2. \A q \in Way(path) : Len(q) > d <=> ~ (Len(q) <= d)
    BY <1>4, <1>5
  <2>3. QED
    BY <1>6, <2>1, <2>2
<1>8. IsFiniteSet(Way(path) \ nodes) /\ Cardinality(Way(path) \ nodes) = n - d
  BY <1>1, <1>4, <1>7, BelowCard
<1>9. n - (n - d) = d
  BY <1>1, <1>4
<1>10. d < n /\ d \in 0 .. (n - 1)
  <2>1. PICK q \in Way(path) : q \notin nodes
    OBVIOUS
  <2>2. ~ (Len(q) <= d) /\ Len(q) \in 1 .. n
    BY <1>5, <1>6, <2>1
  <2>3. QED
    BY <1>1, <1>4, <2>2
<1>11. path \in Way(path) /\ path \notin nodes /\ path # << >>
  <2>1. path # << >>
    BY <1>1, <1>10
  <2>2. path \in Way(path)
    BY <1>1, <2>1, WayIs
  <2>3. QED
    BY <1>4, <1>6, <1>10, <2>1, <2>2
<1>12. Closed(more)
  <2>1. ASSUME NEW q \in Way(path) PROVE Way(q) \subseteq Way(path)
    BY <1>1, WayOfWay
  <2>2. QED
    BY <1>5, <2>1 DEF Closed
<1>13. \A q \in more : q \in Seq(Nat) /\ q # << >> /\ q \in Way(q) /\ Len(q) \in Nat
  <2>1. \A q \in nodes : q \in Seq(Nat) /\ q # << >>
    BY DEF Closed, Routes
  <2>2. QED
    BY <1>5, <2>1, WayIs, SeqIs
<1>14. ASSUME NEW q \in Childless(nodes), q # Upto(path, d) PROVE q \in Childless(more)
  <2>1. SUFFICES ASSUME NEW r \in more, ParentOf(r) = q PROVE FALSE
    BY <1>14 DEF Childless, Children
  <2>2. r \notin nodes /\ r \in Way(path) /\ q \in nodes /\ q # << >>
    BY <1>13, <1>14, <2>1 DEF Childless, Children
  <2>3. q \in Way(r) /\ Len(q) = Len(r) - 1
    BY <1>13, <2>1, <2>2, ParentIs
  <2>4. q \in Way(path)
    BY <1>1, <2>2, <2>3, WayOfWay
  <2>5. Len(q) <= d /\ ~ (Len(r) <= d) /\ Len(r) \in 1 .. n /\ Len(q) \in 1 .. n
    BY <1>5, <1>6, <2>2, <2>4
  <2>6. Len(q) = d
    BY <1>4, <2>3, <2>5
  <2>7. QED
    BY <1>5, <1>14, <2>4, <2>6
<1>15. path \in Childless(more)
  <2>1. SUFFICES ASSUME NEW r \in more, ParentOf(r) = path PROVE FALSE
    BY <1>11 DEF Childless, Children
  <2>2. path \in Way(r) /\ n = Len(r) - 1 /\ Len(r) \in Nat
    BY <1>11, <1>13, <2>1, ParentIs
  <2>3. r \in Way(path)
    BY <1>11, <2>1, <2>2 DEF Closed
  <2>4. QED
    BY <1>1, <1>5, <2>2, <2>3
<1>16. ASSUME NEW q \in Childless(more), q # path
       PROVE  q \in Childless(nodes) /\ q # Upto(path, d)
  <2>1. ASSUME q \in Way(path) PROVE FALSE
    <3>1. Len(q) # n /\ Len(q) \in 1 .. n /\ q = Upto(path, Len(q))
      BY <1>1, <1>5, <1>16, <2>1, UptoAll
    <3> DEFINE r == Upto(path, Len(q) + 1)
    <3>2. Len(q) + 1 \in 1 .. n /\ Len(q) + 1 \in 0 .. n /\ Len(q) \in 0 .. (Len(q) + 1)
          /\ (Len(q) + 1) - 1 = Len(q)
      BY <1>1, <3>1
    <3>3. r \in Way(path) /\ Len(r) = Len(q) + 1
      BY <1>1, <3>2, WayIs, UptoIs
    <3>4. ParentOf(r) = Upto(r, Len(q))
      BY <3>2, <3>3 DEF ParentOf
    <3>5. Upto(r, Len(q)) = Upto(path, Len(q))
      BY <1>1, <3>2, UptoUpto
    <3>6. ParentOf(r) = q
      BY <3>1, <3>4, <3>5
    <3>7. QED
      BY <1>16, <3>3, <3>6 DEF Childless, Children
  <2>2. q \in Childless(nodes)
    BY <1>16, <2>1 DEF Childless, Children
  <2>3. q # Upto(path, d)
    <3>1. CASE d = 0
      <4>1. Upto(path, d) = << >>
        BY <1>1, <1>4, <3>1, UptoIs
      <4>2. QED
        BY <1>13, <1>16, <4>1 DEF Childless
    <3>2. CASE d # 0
      <4>1. d \in 1 .. n
        BY <1>1, <1>4, <3>2
      <4>2. Upto(path, d) \in Way(path)
        BY <1>1, <4>1, WayIs
      <4>3. QED
        BY <2>1, <4>2
    <3>3. QED
      BY <3>1, <3>2
  <2>4. QED
    BY <2>2, <2>3
<1>17. path # Upto(path, d)
  <2>1. Len(Upto(path, d)) = d
    BY <1>1, <1>4, UptoIs
  <2>2. QED
    BY <1>4, <1>10, <2>1
<1>18. Childless(more) = (Childless(nodes) \ {Upto(path, d)}) \cup {path}
  BY <1>14, <1>15, <1>16
<1>19. Len(path) - Cardinality(Way(path) \ nodes) = d
  BY <1>8, <1>9
<1> HIDE DEF more
<1>20. QED
  BY <1>8, <1>10, <1>11, <1>12, <1>17, <1>18, <1>19 DEF more

(* What a tree loses with the nodes at and below top: of those left only   *)
(* the parent may become a leaf.                                           *)
LEMMA Pruned ==
  ASSUME NEW nodes, Closed(nodes), NEW top \in nodes
  PROVE  LET dead == {q \in nodes : top \in Way(q)}
             rest == nodes \ dead
             parent == ParentOf(top)
             bare == parent # << >> /\ Children(rest, parent) = {}
         IN /\ Closed(rest)
            /\ Childless(rest)
                 = (Childless(nodes) \ dead) \cup (IF bare THEN {parent} ELSE {})
            /\ parent # << >> => parent \in rest /\ parent \notin Childless(nodes)
<1> DEFINE dead == {q \in nodes : top \in Way(q)}
           rest == nodes \ dead
           parent == ParentOf(top)
           bare == parent # << >> /\ Children(rest, parent) = {}
<1>1. \A q \in nodes : /\ q \in Seq(Nat) /\ q # << >> /\ q \in Way(q) /\ Len(q) \in Nat
                       /\ Way(q) \subseteq nodes
  <2>1. \A q \in nodes : q \in Seq(Nat) /\ q # << >> /\ Way(q) \subseteq nodes
    BY DEF Closed, Routes
  <2>2. QED
    BY <2>1, WayIs, SeqIs
<1>2. Closed(rest)
  <2>1. ASSUME NEW q \in rest, NEW r \in Way(q) PROVE r \in rest
    <3>1. r \in nodes /\ q \in Seq(Nat)
      BY <1>1
    <3>2. Way(r) \subseteq Way(q)
      BY <3>1, WayOfWay
    <3>3. QED
      BY <3>1, <3>2
  <2>2. QED
    BY <2>1 DEF Closed
<1>3. ASSUME parent # << >>
      PROVE  parent \in rest /\ parent \notin Childless(nodes) /\ parent \in nodes
  <2>1. parent \in Way(top) /\ Len(parent) = Len(top) - 1 /\ Len(top) \in Nat
    BY <1>1, <1>3, ParentIs
  <2>2. parent \in nodes
    BY <1>1, <2>1
  <2>3. top \notin Way(parent)
    <3>1. \A r \in Way(parent) : Len(r) <= Len(parent) /\ Len(r) \in Nat
      BY <1>1, <2>2, WayIs, SeqIs
    <3>2. QED
      BY <2>1, <3>1
  <2>4. top \in Children(nodes, parent)
    BY DEF Children
  <2>5. QED
    BY <2>2, <2>3, <2>4 DEF Childless
<1>4. ASSUME NEW q \in Childless(nodes) \ dead PROVE q \in Childless(rest)
  BY <1>4 DEF Childless, Children
<1>5. ASSUME NEW q \in Childless(rest), q \notin Childless(nodes) PROVE q = parent /\ bare
  <2>1. PICK r \in nodes : ParentOf(r) = q /\ r \notin rest
    BY <1>5 DEF Childless, Children
  <2>2. q \in rest /\ q # << >> /\ top \in Way(r) /\ r # << >> /\ r \in Seq(Nat)
    BY <1>1, <1>5, <2>1 DEF Childless
  <2>3. top = r \/ top \in Way(q)
    BY <2>1, <2>2, ParentIs
  <2>4. top = r
    BY <2>2, <2>3
  <2>5. QED
    BY <1>5, <2>1, <2>2, <2>4 DEF Childless
<1>6. bare => parent \in Childless(rest)
  BY <1>3 DEF Childless
<1>7. Childless(rest) = (Childless(nodes) \ dead) \cup (IF bare THEN {parent} ELSE {})
  <2>1. Childless(rest) \subseteq rest
    BY DEF Childless
  <2> HIDE DEF bare
  <2>2. QED
    BY <1>4, <1>5, <1>6, <2>1
<1>8. QED
  BY <1>2, <1>3, <1>7
-----------------------------------------------------------------------------
(* Trees that stand for paths: a function from a finite set of places to   *)
(* routes.  (A window's transactions, each with the path it is at.)        *)

(* The nodes on the way to the paths.                                      *)
AllWays(P) == UNION {Way(P[i]) : i \in DOMAIN P}

(* The routes that have item x on them.                                    *)
With(x) == {p \in Routes : x \in On(p)}

(* The tree's counts and frequencies are those of the paths.               *)
Stands(t, P) ==
  /\ IsTree(t)
  /\ t.count = [q \in AllWays(P) |-> Cardinality(Hits(P, Through(q)))]
  /\ t.freq = [x \in DOMAIN t.freq |-> Cardinality(Hits(P, With(x)))]
  /\ \A i \in DOMAIN P : On(P[i]) \subseteq DOMAIN t.freq

(* Its leaf list holds the childless nodes.                                *)
Leafed(t) == IsList(t) /\ On(t.leaves) = Childless(Nodes(t))

(* The paths at places I are p now.                                        *)
Moved(P, I, p) == [i \in DOMAIN P |-> IF i \in I THEN p ELSE P[i]]

(* Replacing the counts and frequencies of a tree.                         *)
LEMMA TreeCounts ==
  ASSUME NEW t, IsTree(t), NEW count, NEW freq
  PROVE  [t EXCEPT !.count = count, !.freq = freq]
           = [count |-> count, leaves |-> t.leaves, next |-> t.next, freq |-> freq]
<1> DEFINE c == t.count
           l == t.leaves
           x == t.next
           f == t.freq
<1>1. t = [count |-> c, leaves |-> l, next |-> x, freq |-> f]
  BY DEF IsTree
<1> HIDE DEF c, l, x, f
<1>2. t.count = c /\ t.leaves = l /\ t.next = x /\ t.freq = f
  BY <1>1
<1> DEFINE u == [t EXCEPT !.count = count]
<1>3. u = [count |-> count, leaves |-> l, next |-> x, freq |-> f]
  BY <1>1
<1>4. [t EXCEPT !.count = count, !.freq = freq] = [u EXCEPT !.freq = freq]
  OBVIOUS
<1> HIDE DEF u
<1>5. [u EXCEPT !.freq = freq] = [count |-> count, leaves |-> l, next |-> x, freq |-> freq]
  BY <1>3
<1>6. QED
  BY <1>2, <1>4, <1>5 DEF u

(* The nodes on the way to paths are closed, and those through which some  *)
(* path passes.                                                            *)
LEMMA AllWaysIs ==
  ASSUME NEW D, IsFiniteSet(D), NEW P \in [D -> Routes]
  PROVE  /\ Closed(AllWays(P))
         /\ \A X : /\ Hits(P, X) \subseteq D /\ IsFiniteSet(Hits(P, X))
                   /\ Cardinality(Hits(P, X)) \in Nat
                   /\ Cardinality(Hits(P, X)) = 0 <=> Hits(P, X) = {}
         /\ \A q \in Routes : q \in AllWays(P) <=> Hits(P, Through(q)) # {}
<1>1. ASSUME NEW q \in AllWays(P)
      PROVE  q \in Routes /\ q # << >> /\ Way(q) \subseteq AllWays(P)
  <2>1. PICK i \in D : q \in Way(P[i])
    BY DEF AllWays
  <2>2. P[i] \in Routes /\ P[i] \in Seq(Nat)
    BY DEF Routes
  <2>3. q \in Routes /\ q # << >>
    BY <2>1, <2>2, RouteWay
  <2>4. Way(q) \subseteq Way(P[i])
    BY <2>1, <2>2, WayOfWay
  <2>5. QED
    BY <2>3, <2>4 DEF AllWays
<1>2. \A X : Hits(P, X) \subseteq D
  BY DEF Hits
<1>3. \A X : IsFiniteSet(Hits(P, X))
  BY <1>2, FS_Subset
<1>4. \A q \in Routes : q \in AllWays(P) <=> Hits(P, Through(q)) # {}
  BY DEF AllWays, Hits, Through
<1>5. QED
  BY <1>1, <1>2, <1>3, <1>4, FS_CardinalityType, FS_EmptySet DEF Closed

(* How moving paths changes the number of those in a set.                  *)
LEMMA HitsMoved ==
  ASSUME NEW D, IsFiniteSet(D), NEW P \in [D -> Routes],
         NEW I \in SUBSET D, NEW from \in Routes, NEW to \in Routes,
         \A i \in I : P[i] = from
  PROVE  /\ Moved(P, I, to) \in [D -> Routes]
         /\ IsFiniteSet(I) /\ Cardinality(I) \in Nat
         /\ \A X : Hits(Moved(P, I, to), X)
                     = (Hits(P, X) \ I) \cup (IF to \in X THEN I ELSE {})
         /\ \A X : Cardinality(Hits(Moved(P, I, to), X))
                     = Cardinality(Hits(P, X))
                       - (IF from \in X THEN Cardinality(I) ELSE 0)
                       + (IF to \in X THEN Cardinality(I) ELSE 0)
<1> DEFINE Q == Moved(P, I, to)
           c == Cardinality(I)
<1>1. Q \in [D -> Routes] /\ DOMAIN Q = D /\ \A i \in D : Q[i] = IF i \in I THEN to ELSE P[i]
  BY DEF Moved
<1>2. IsFiniteSet(I) /\ c \in Nat
  BY FS_Subset, FS_CardinalityType
<1> HIDE DEF Q, c
<1>3. ASSUME NEW X
      PROVE  /\ Hits(Q, X) = (Hits(P, X) \ I) \cup (IF to \in X THEN I ELSE {})
             /\ Hits(P, X) = (Hits(P, X) \ I) \cup (IF from \in X THEN I ELSE {})
  <2>1. ASSUME NEW i \in D
        PROVE  i \in Hits(Q, X) <=> i \in (Hits(P, X) \ I) \cup (IF to \in X THEN I ELSE {})
    <3>1. CASE i \in I
      BY <1>1, <3>1 DEF Hits
    <3>2. CASE i \notin I
      BY <1>1, <3>2 DEF Hits
    <3>3. QED
      BY <3>1, <3>2
  <2>2. ASSUME NEW i \in D
        PROVE  i \in Hits(P, X) <=> i \in (Hits(P, X) \ I) \cup (IF from \in X THEN I ELSE {})
    <3>1. CASE i \in I
      BY <3>1 DEF Hits
    <3>2. CASE i \notin I
      BY <3>2 DEF Hits
    <3>3. QED
      BY <3>1, <3>2
  <2>3. Hits(Q, X) \subseteq D /\ Hits(P, X) \subseteq D
    BY <1>1 DEF Hits
  <2>4. QED
    BY <2>1, <2>2, <2>3
<1>4. ASSUME NEW X
      PROVE  Cardinality(Hits(Q, X)) = Cardinality(Hits(P, X))
                                       - (IF from \in X THEN c ELSE 0)
                                       + (IF to \in X THEN c ELSE 0)
  <2> DEFINE A == Hits(P, X) \ I
             a == Cardinality(A)
  <2>1. IsFiniteSet(A) /\ a \in Nat
    <3>1. A \in SUBSET D
      BY DEF Hits
    <3>2. QED
      BY <3>1, FS_Subset, FS_CardinalityType
  <2>2. A \cap I = {} /\ Cardinality({}) = 0
    BY FS_EmptySet
  <2>3. Hits(Q, X) = A \cup (IF to \in X THEN I ELSE {})
        /\ Hits(P, X) = A \cup (IF from \in X THEN I ELSE {})
    BY <1>3
  <2> HIDE DEF A
  <2>4. Cardinality(A \cup I) = a + c
    <3>1. Cardinality(A \cup I) = Cardinality(A) + Cardinality(I) - Cardinality(A \cap I)
      BY <1>2, <2>1, FS_Union
    <3>2. Cardinality(A \cap I) = 0
      BY <2>2
    <3>3. Cardinality(A) = a /\ Cardinality(I) = c
      BY DEF a, c
    <3> HIDE DEF a
    <3>4. QED
      BY <1>2, <2>1, <3>1, <3>2, <3>3
  <2>5. A \cup {} = A
    OBVIOUS
  <2>6. Cardinality(Hits(Q, X)) = a + (IF to \in X THEN c ELSE 0)
    <3>1. CASE to \in X
      BY <2>3, <2>4, <3>1
    <3>2. CASE to \notin X
      BY <2>1, <2>3, <2>5, <3>2
    <3>3. QED
      BY <3>1, <3>2
  <2>7. Cardinality(Hits(P, X)) = a + (IF from \in X THEN c ELSE 0)
    <3>1. CASE from \in X
      BY <2>3, <2>4, <3>1
    <3>2. CASE from \notin X
      BY <2>1, <2>3, <2>5, <3>2
    <3>3. QED
      BY <3>1, <3>2
  <2> HIDE DEF a
  <2>8. QED
    BY <1>2, <2>1, <2>6, <2>7
<1>5. QED
  BY <1>1, <1>2, <1>3, <1>4 DEF Q, c

(* The items on the two parts of a route.                                  *)
LEMMA OnParts ==
  ASSUME NEW p \in Routes, NEW k \in 0 .. Len(p)
  PROVE  LET rest == {p[j] : j \in (k + 1) .. Len(p)}
         IN On(p) = On(Upto(p, k)) \cup rest /\ On(Upto(p, k)) \cap rest = {}
<1> DEFINE n == Len(p)
           b == Upto(p, k)
           rest == {p[j] : j \in (k + 1) .. Len(p)}
<1>1. p \in Seq(Nat) /\ Distinct(p) /\ n \in Nat /\ DOMAIN p = 1 .. n /\ k \in Nat /\ k <= n
  BY SeqIs DEF Routes
<1>2. b \in Seq(Nat) /\ Len(b) = k /\ \A j \in 1 .. k : b[j] = p[j]
  BY <1>1, UptoIs
<1>3. DOMAIN b = 1 .. k
  BY <1>2, SeqIs
<1> HIDE DEF n, b
<1>4. /\ \A j \in 1 .. k : j \in 1 .. n /\ j \notin (k + 1) .. n
      /\ \A j \in (k + 1) .. n : j \in 1 .. n
      /\ \A j \in 1 .. n : j \in 1 .. k \/ j \in (k + 1) .. n
  BY <1>1
<1>5. On(p) = {p[j] : j \in 1 .. n}
  BY <1>1 DEF On
<1>6. On(b) = {p[j] : j \in 1 .. k}
  BY <1>2, <1>3 DEF On
<1>7. rest = {p[j] : j \in (k + 1) .. n}
  BY DEF n
<1> HIDE DEF rest
<1>8. On(p) = On(b) \cup rest
  BY <1>4, <1>5, <1>6, <1>7
<1>9. On(b) \cap rest = {}
  <2>1. SUFFICES ASSUME NEW i \in 1 .. k, NEW j \in (k + 1) .. n, p[i] = p[j] PROVE FALSE
    BY <1>6, <1>7
  <2>2. i \in DOMAIN p /\ j \in DOMAIN p /\ i # j
    BY <1>1, <1>4
  <2>3. QED
    BY <1>1, <2>1, <2>2 DEF Distinct
<1>10. QED
  BY <1>8, <1>9 DEF b, rest

(* InsertPath moves c paths that end at depth k of path down to its end.   *)
LEMMA InsertStands ==
  ASSUME NEW D, IsFiniteSet(D), NEW P \in [D -> Routes], NEW t, Stands(t, P), Leafed(t),
         NEW path \in Routes, NEW k \in 0 .. Len(path),
         NEW I \in SUBSET D, I # {}, \A i \in I : P[i] = Upto(path, k)
  PROVE  LET u == InsertPath(t, path, k, Cardinality(I))
         IN /\ Stands(u, Moved(P, I, path)) /\ Leafed(u)
            /\ DOMAIN u.freq = DOMAIN t.freq \cup On(path)
            /\ u.next = 0 <=> t.next = 0
            /\ Childless(Nodes(u)) \subseteq Childless(Nodes(t)) \cup {path}
            /\ \A q \in Ahead(t) : q \in Ahead(u) \/ q \in Way(path)
<1> DEFINE c == Cardinality(I)
           from == Upto(path, k)
           Q == Moved(P, I, path)
           N == AllWays(P)
           walked == Below(path, k)
           made   == walked \ Nodes(t)
           gains  == {path[j] : j \in (k + 1) .. Len(path)}
           count  == [p \in Nodes(t) \cup walked |->
                        (IF p \in Nodes(t) THEN t.count[p] ELSE 0)
                        + (IF p \in walked THEN c ELSE 0)]
           freq   == [i \in DOMAIN t.freq \cup gains |->
                        (IF i \in DOMAIN t.freq THEN t.freq[i] ELSE 0)
                        + (IF i \in gains THEN c ELSE 0)]
           grown  == [t EXCEPT !.count = count, !.freq = freq]
           u == InsertPath(t, path, k, c)
           F == DOMAIN t.freq
<1>1. u = IF made = {} THEN grown ELSE NewLeaf(grown, path, Cardinality(made))
  BY DEF InsertPath
<1>2. /\ IsTree(t)
      /\ t.count = [q \in N |-> Cardinality(Hits(P, Through(q)))]
      /\ t.freq = [x \in F |-> Cardinality(Hits(P, With(x)))]
      /\ \A i \in D : On(P[i]) \subseteq F
  BY DEF Stands
<1>3. Nodes(t) = N /\ \A q \in N : t.count[q] = Cardinality(Hits(P, Through(q)))
  BY <1>2 DEF Nodes
<1>4. path \in Seq(Nat) /\ path \in Routes /\ from \in Routes
  BY RouteUpto DEF Routes
<1>5. /\ Closed(N)
      /\ \A X : Cardinality(Hits(P, X)) \in Nat /\ IsFiniteSet(Hits(P, X))
                /\ (Cardinality(Hits(P, X)) = 0 <=> Hits(P, X) = {})
      /\ \A q \in Routes : q \in N <=> Hits(P, Through(q)) # {}
  <2> HIDE DEF N
  <2>1. QED
    BY AllWaysIs DEF N
<1>6. /\ Q \in [D -> Routes] /\ c \in Nat
      /\ \A X : Cardinality(Hits(Q, X)) = Cardinality(Hits(P, X))
                                          - (IF from \in X THEN c ELSE 0)
                                          + (IF path \in X THEN c ELSE 0)
  <2>1. from \in Routes /\ \A i \in I : P[i] = from
    BY <1>4
  <2> HIDE DEF from
  <2>2. /\ Moved(P, I, path) \in [D -> Routes]
        /\ IsFiniteSet(I) /\ Cardinality(I) \in Nat
        /\ \A X : Cardinality(Hits(Moved(P, I, path), X))
                    = Cardinality(Hits(P, X))
                      - (IF from \in X THEN Cardinality(I) ELSE 0)
                      + (IF path \in X THEN Cardinality(I) ELSE 0)
    BY <2>1, HitsMoved
  <2>3. QED
    BY <2>2
<1>7. /\ walked \subseteq Way(path) /\ Way(from) \subseteq Way(path)
      /\ \A q \in Way(path) : q \in walked <=> q \notin Way(from)
  <2>1. walked = {q \in Way(path) : Len(q) > k}
    BY <1>4, BelowIs
  <2>2. \A q \in Way(path) : Len(q) \in Nat /\ k \in Nat
    BY <1>4, WayIs, SeqIs
  <2>3. Way(from) = {q \in Way(path) : Len(q) <= k}
    <3>1. CASE k = 0
      <4>1. from \in Seq(Nat) /\ Len(from) = 0
        BY <1>4, <3>1, UptoIs
      <4>2. Way(from) = {}
        BY <4>1 DEF Way
      <4>3. \A q \in Way(path) : Len(q) \in 1 .. Len(path)
        BY <1>4, WayIs
      <4>4. QED
        BY <3>1, <4>2, <4>3
    <3>2. CASE k # 0
      <4>1. k \in 1 .. Len(path)
        BY <3>2
      <4>2. from \in Way(path) /\ Len(from) = k
        BY <1>4, <4>1, WayIs, UptoIs
      <4>3. QED
        BY <1>4, <4>2, WayOfWay
    <3>3. QED
      BY <3>1, <3>2
  <2> HIDE DEF walked, from
  <2>4. QED
    BY <2>1, <2>2, <2>3
<1>8. PICK i0 \in I : P[i0] = from /\ i0 \in D
  OBVIOUS
<1>9. Way(from) \subseteq N
  BY <1>8 DEF AllWays
<1>10. N \cup walked = N \cup Way(path) /\ made = Way(path) \ N
  BY <1>3, <1>7, <1>9
<1>11. AllWays(Q) = N \cup Way(path)
  <2>1. ASSUME NEW q \in N PROVE q \in AllWays(Q)
    <3>1. PICK i \in D : q \in Way(P[i])
      BY DEF AllWays
    <3>2. CASE i \in I
      <4>1. q \in Way(path) /\ Q[i] = path
        BY <1>7, <3>1, <3>2 DEF Moved
      <4>2. QED
        BY <1>6, <4>1 DEF AllWays
    <3>3. CASE i \notin I
      <4>1. Q[i] = P[i]
        BY <3>3 DEF Moved
      <4>2. QED
        BY <1>6, <3>1, <4>1 DEF AllWays
    <3>4. QED
      BY <3>2, <3>3
  <2>2. Q[i0] = path
    BY <1>8 DEF Moved
  <2>3. Way(path) \subseteq AllWays(Q)
    BY <1>6, <1>8, <2>2 DEF AllWays
  <2>4. ASSUME NEW q \in AllWays(Q) PROVE q \in N \cup Way(path)
    <3>1. PICK i \in D : q \in Way(Q[i])
      BY <1>6 DEF AllWays
    <3>2. Q[i] = path \/ Q[i] = P[i]
      BY DEF Moved
    <3>3. QED
      BY <3>1, <3>2 DEF AllWays
  <2>5. QED
    BY <2>1, <2>3, <2>4
<1>12. \A q \in N \cup Way(path) : q \in Routes
  BY <1>4, <1>5, RouteWay DEF Closed
<1>13. count = [q \in AllWays(Q) |-> Cardinality(Hits(Q, Through(q)))]
  <2>1. ASSUME NEW q \in N \cup Way(path)
        PROVE  (IF q \in N THEN t.count[q] ELSE 0) + (IF q \in walked THEN c ELSE 0)
                 = Cardinality(Hits(Q, Through(q)))
    <3> DEFINE h == Cardinality(Hits(P, Through(q)))
    <3>1. h \in Nat /\ (IF q \in N THEN t.count[q] ELSE 0) = h
      BY <1>3, <1>5, <1>12
    <3>2. (from \in Through(q) <=> q \in Way(from)) /\ (path \in Through(q) <=> q \in Way(path))
      BY <1>4 DEF Through
    <3>3. Cardinality(Hits(Q, Through(q))) = h - (IF q \in Way(from) THEN c ELSE 0)
                                               + (IF q \in Way(path) THEN c ELSE 0)
      BY <1>6, <3>2
    <3> HIDE DEF h, c, walked, from, N, Q
    <3>4. CASE q \in walked
      <4>1. q \in Way(path) /\ q \notin Way(from)
        BY <1>7, <3>4
      <4>2. QED
        BY <1>6, <3>1, <3>3, <3>4, <4>1
    <3>5. CASE q \notin walked
      <4>1. q \in Way(path) <=> q \in Way(from)
        BY <1>7, <3>5
      <4>2. QED
        BY <1>6, <3>1, <3>3, <3>5, <4>1
    <3>6. QED
      BY <3>4, <3>5
  <2>2. count = [q \in N \cup Way(path) |-> (IF q \in N THEN t.count[q] ELSE 0)
                                             + (IF q \in walked THEN c ELSE 0)]
    BY <1>3, <1>10
  <2> HIDE DEF count, N, walked, c, Q
  <2>3. QED
    BY <1>11, <2>1, <2>2
<1>14. /\ On(path) = On(from) \cup gains /\ On(from) \cap gains = {}
       /\ On(from) \subseteq F /\ F \cup gains = F \cup On(path)
  <2>1. On(path) = On(from) \cup gains /\ On(from) \cap gains = {}
    BY OnParts
  <2>2. On(from) \subseteq F
    BY <1>2, <1>8
  <2>3. QED
    BY <2>1, <2>2
<1>15. freq = [x \in F \cup On(path) |-> Cardinality(Hits(Q, With(x)))]
  <2>1. ASSUME NEW x \in F \cup gains
        PROVE  (IF x \in F THEN t.freq[x] ELSE 0) + (IF x \in gains THEN c ELSE 0)
                 = Cardinality(Hits(Q, With(x)))
    <3> DEFINE h == Cardinality(Hits(P, With(x)))
    <3>1. h \in Nat /\ (IF x \in F THEN t.freq[x] ELSE 0) = h
      <4>1. x \in F => t.freq[x] = h
        BY <1>2
      <4>2. x \notin F => h = 0
        <5>1. SUFFICES ASSUME x \notin F, NEW i \in Hits(P, With(x)) PROVE FALSE
          BY <1>5
        <5>2. i \in D /\ x \in On(P[i])
          BY <5>1 DEF Hits, With
        <5>3. QED
          BY <1>2, <5>1, <5>2
      <4>3. QED
        BY <1>5, <4>1, <4>2
    <3>2. (from \in With(x) <=> x \in On(from)) /\ (path \in With(x) <=> x \in On(path))
      BY <1>4 DEF With
    <3>3. Cardinality(Hits(Q, With(x))) = h - (IF x \in On(from) THEN c ELSE 0)
                                            + (IF x \in On(path) THEN c ELSE 0)
      BY <1>6, <3>2
    <3> HIDE DEF h, c, gains, from, F, Q
    <3>4. CASE x \in gains
      <4>1. x \in On(path) /\ x \notin On(from)
        BY <1>14, <3>4
      <4>2. QED
        BY <1>6, <3>1, <3>3, <3>4, <4>1
    <3>5. CASE x \notin gains
      <4>1. x \in On(path) <=> x \in On(from)
        BY <1>14, <3>5
      <4>2. QED
        BY <1>6, <3>1, <3>3, <3>5, <4>1
    <3>6. QED
      BY <3>4, <3>5
  <2>2. freq = [x \in F \cup gains |-> (IF x \in F THEN t.freq[x] ELSE 0)
                                        + (IF x \in gains THEN c ELSE 0)]
    OBVIOUS
  <2> HIDE DEF freq, F, gains, c, Q
  <2>3. freq = [x \in F \cup gains |-> Cardinality(Hits(Q, With(x)))]
    BY <2>1, <2>2
  <2>4. QED
    BY <1>14, <2>3
<1> HIDE DEF count, freq
<1>16. grown = [count |-> count, leaves |-> t.leaves, next |-> t.next, freq |-> freq]
  <2>1. IsTree(t)
    BY <1>2
  <2>2. QED
    BY <2>1, TreeCounts, Zenon
<1>17. /\ grown.count = count /\ grown.leaves = t.leaves /\ grown.next = t.next
       /\ grown.freq = freq
  BY <1>16
<1> HIDE DEF grown
<1>18. IsTree(grown) /\ IsList(grown) /\ Ahead(grown) = Ahead(t)
       /\ On(grown.leaves) = Childless(N)
  <2>1. IsTree(grown)
    BY <1>16, <1>17 DEF IsTree
  <2>2. IsList(t) /\ On(t.leaves) = Childless(N)
    BY <1>3 DEF Leafed
  <2>3. IsList(grown)
    BY <1>17, <2>2 DEF IsList
  <2>4. Ahead(grown) = Ahead(t)
    BY <1>17 DEF Ahead
  <2>5. QED
    BY <1>17, <2>1, <2>2, <2>3, <2>4
<1> HIDE DEF N, Q, c, walked, made, from, F, gains
<1>19. \A i \in D : On(Q[i]) \subseteq F \cup On(path)
  <2>1. \A i \in D : Q[i] = path \/ Q[i] = P[i]
    BY DEF Q, Moved
  <2>2. QED
    BY <1>2, <2>1
<1>20. /\ IsTree(u) /\ IsList(u) /\ u.count = count /\ u.freq = freq
       /\ On(u.leaves) = Childless(N \cup Way(path))
       /\ u.next = 0 <=> t.next = 0
       /\ Childless(N \cup Way(path)) \subseteq Childless(N) \cup {path}
       /\ \A q \in Ahead(t) : q \in Ahead(u) \/ q \in Way(path)
  <2>1. CASE made = {}
    <3>1. u = grown
      BY <1>1, <2>1
    <3>2. N \cup Way(path) = N
      BY <1>10, <2>1
    <3>3. QED
      BY <1>17, <1>18, <3>1, <3>2
  <2>2. CASE made # {}
    <3> DEFINE d == Len(path) - Cardinality(made)
               v == PrependLeaf(grown, path)
               S == {Upto(path, d)}
    <3>1. u = EraseLeaves(v, S)
      BY <1>1, <2>2 DEF NewLeaf
    <3>2. /\ path \notin N /\ d \in 0 .. (Len(path) - 1)
          /\ Childless(N \cup Way(path)) = (Childless(N) \ S) \cup {path}
          /\ path \notin S
      <4>1. ~ (Way(path) \subseteq N)
        BY <1>10, <2>2
      <4>2. QED
        BY <1>4, <1>5, <1>10, <4>1, Grown
    <3>3. path \notin On(grown.leaves)
      BY <1>18, <3>2 DEF Childless
    <3>4. /\ IsTree(v) /\ IsList(v)
          /\ v.count = grown.count /\ v.freq = grown.freq
          /\ On(v.leaves) = On(grown.leaves) \cup {path}
          /\ v.next = 0 <=> grown.next = 0
          /\ \A q \in Ahead(grown) : q \in Ahead(v)
      BY <1>4, <1>18, <3>3, PrependIs
    <3> HIDE DEF v, S
    <3>5. /\ IsTree(u) /\ IsList(u)
          /\ u.count = v.count /\ u.freq = v.freq
          /\ On(u.leaves) = On(v.leaves) \ S
          /\ u.next = 0 <=> v.next = 0
          /\ \A p \in Ahead(v) : p \in S \/ p \in Ahead(u)
      <4> HIDE DEF u
      <4>1. QED
        BY <3>1, <3>4, EraseIs, SMTT(30)
    <3>6. On(u.leaves) = Childless(N \cup Way(path))
      BY <1>18, <3>2, <3>4, <3>5
    <3>7. \A q \in Ahead(t) : q \in Ahead(u) \/ q \in Way(path)
      <4>1. ASSUME NEW q \in Ahead(t), q \in S PROVE q \in Way(path)
        <5>1. q = Upto(path, d) /\ q \in Childless(N)
          <6>1. q \in On(grown.leaves)
            BY <1>17, <4>1 DEF Ahead, On
          <6>2. QED
            BY <1>18, <4>1, <6>1 DEF S
        <5>2. q # << >>
          BY <1>5, <5>1 DEF Childless, Closed
        <5>3. d # 0
          <6>1. Len(Upto(path, 0)) = 0 /\ Upto(path, 0) \in Seq(Nat)
            <7>1. 0 \in 0 .. Len(path)
              BY <1>4
            <7>2. QED
              BY <1>4, <7>1, UptoIs
          <6>2. Upto(path, 0) = << >>
            BY <6>1
          <6> HIDE DEF d
          <6>3. QED
            BY <5>1, <5>2, <6>2
        <5>4. d \in 1 .. Len(path)
          BY <1>4, <3>2, <5>3
        <5> HIDE DEF d
        <5>5. QED
          BY <1>4, <5>1, <5>4, WayIs
      <4>2. QED
        BY <1>18, <3>4, <3>5, <4>1
    <3>8. QED
      BY <1>17, <3>2, <3>4, <3>5, <3>6, <3>7
  <2>3. QED
    BY <2>1, <2>2
<1> HIDE DEF u
<1>21. Nodes(u) = AllWays(Q) /\ DOMAIN u.freq = F \cup On(path)
  BY <1>13, <1>15, <1>20 DEF Nodes
<1>22. Stands(u, Q)
  <2>1. u.freq = [x \in DOMAIN u.freq |-> Cardinality(Hits(Q, With(x)))]
    BY <1>15, <1>20, <1>21
  <2>2. QED
    BY <1>6, <1>13, <1>19, <1>20, <1>21, <2>1 DEF Stands
<1>23. Leafed(u)
  BY <1>11, <1>20, <1>21 DEF Leafed
<1>24. QED
  BY <1>3, <1>11, <1>20, <1>21, <1>22, <1>23 DEF u, Q, F, c
-----------------------------------------------------------------------------
(* Sums over sets, as the community modules define them: by a function on  *)
(* the subsets that takes one element away at a time.                      *)
Sums(g, f, S) ==
  g = [s \in SUBSET S |->
         IF s = {} THEN 0
         ELSE f[CHOOSE x \in s : TRUE] + g[s \ {CHOOSE x \in s : TRUE}]]

(* The subsets of S with at most n elements.                               *)
Small(S, n) == {s \in SUBSET S : Cardinality(s) <= n}

SmallSums(g, f, S, n) ==
  g = [s \in Small(S, n) |->
         IF s = {} THEN 0
         ELSE f[CHOOSE x \in s : TRUE] + g[s \ {CHOOSE x \in s : TRUE}]]

(* There is such a function.                                               *)
LEMMA SumExists ==
  ASSUME NEW S, IsFiniteSet(S), NEW f
  PROVE  \E g : Sums(g, f, S)
<1> DEFINE pick(s) == CHOOSE x \in s : TRUE
           bad == {n \in Nat : ~ \E g : SmallSums(g, f, S, n)}
<1>1. \A s \in SUBSET S : IsFiniteSet(s) /\ Cardinality(s) \in Nat
  BY FS_Subset, FS_CardinalityType
<1>2. \A s \in SUBSET S : s # {} => pick(s) \in s
  OBVIOUS
<1> HIDE DEF pick
<1>3. ASSUME NEW n \in Nat, NEW s \in Small(S, n + 1), s # {}
      PROVE  s \ {pick(s)} \in Small(S, n)
  <2>1. s \in SUBSET S /\ Cardinality(s) <= n + 1 /\ s \ {pick(s)} \in SUBSET S
    BY <1>3 DEF Small
  <2>2. Cardinality(s \ {pick(s)}) = Cardinality(s) - 1
    BY <1>1, <1>2, <1>3, <2>1, FS_RemoveElement
  <2>3. QED
    BY <1>1, <2>1, <2>2 DEF Small
<1>4. \E g : SmallSums(g, f, S, 0)
  <2> DEFINE g == [s \in Small(S, 0) |-> 0]
  <2>1. \A s \in Small(S, 0) : s = {}
    <3>1. ASSUME NEW s \in Small(S, 0) PROVE s = {}
      <4>1. s \in SUBSET S /\ Cardinality(s) = 0
        BY <1>1 DEF Small
      <4>2. QED
        BY <1>1, <4>1, FS_EmptySet
    <3>2. QED
      BY <3>1
  <2>2. SmallSums(g, f, S, 0)
    BY <2>1 DEF SmallSums
  <2>3. QED
    BY <2>2
<1>5. ASSUME NEW n \in Nat, NEW g, SmallSums(g, f, S, n)
      PROVE  \E h : SmallSums(h, f, S, n + 1)
  <2> DEFINE next(s) == IF s = {} THEN 0 ELSE f[pick(s)] + g[s \ {pick(s)}]
             h == [s \in Small(S, n + 1) |-> next(s)]
  <2>1. g = [s \in Small(S, n) |-> next(s)]
    BY <1>5 DEF SmallSums, pick
  <2>2. ASSUME NEW s \in Small(S, n) PROVE s \in Small(S, n + 1) /\ h[s] = g[s]
    <3>1. s \in Small(S, n + 1)
      BY <1>1 DEF Small
    <3>2. h[s] = next(s)
      BY <3>1
    <3>3. g[s] = next(s)
      <4> HIDE DEF next
      <4>1. QED
        BY <2>1
    <3>4. QED
      BY <3>1, <3>2, <3>3
  <2>3. ASSUME NEW s \in Small(S, n + 1)
        PROVE  h[s] = IF s = {} THEN 0 ELSE f[pick(s)] + h[s \ {pick(s)}]
    <3>1. h[s] = next(s)
      OBVIOUS
    <3>2. CASE s = {}
      BY <3>1, <3>2
    <3>3. CASE s # {}
      <4>1. h[s \ {pick(s)}] = g[s \ {pick(s)}]
        BY <1>3, <2>2, <3>3
      <4> HIDE DEF h
      <4>2. QED
        BY <3>1, <3>3, <4>1
    <3>4. QED
      BY <3>2, <3>3
  <2>4. h = [s \in Small(S, n + 1) |->
               IF s = {} THEN 0 ELSE f[pick(s)] + h[s \ {pick(s)}]]
    <3>1. h = [s \in Small(S, n + 1) |-> h[s]]
      OBVIOUS
    <3> HIDE DEF h
    <3>2. QED
      BY <2>3, <3>1
  <2> HIDE DEF h
  <2>5. SmallSums(h, f, S, n + 1)
    BY <2>4 DEF SmallSums, pick
  <2>6. QED
    BY <2>5
<1>6. bad = {}
  <2>1. SUFFICES ASSUME bad # {} PROVE FALSE
    OBVIOUS
  <2>2. bad \in SUBSET Nat
    OBVIOUS
  <2> HIDE DEF bad
  <2>3. PICK n \in bad : \A m \in bad : n <= m
    BY <2>1, <2>2, LeastExists
  <2>4. n \in Nat /\ ~ \E g : SmallSums(g, f, S, n)
    BY DEF bad
  <2>5. n # 0
    BY <1>4, <2>4
  <2>6. n - 1 \in Nat /\ ~ (n <= n - 1) /\ (n - 1) + 1 = n
    BY <2>4, <2>5
  <2>7. \E g : SmallSums(g, f, S, n - 1)
    BY <2>3, <2>6 DEF bad
  <2>8. QED
    BY <1>5, <2>4, <2>6, <2>7
<1>7. Cardinality(S) \in Nat
  BY <1>1
<1>8. PICK g : SmallSums(g, f, S, Cardinality(S))
  BY <1>6, <1>7
<1>9. Small(S, Cardinality(S)) = SUBSET S
  BY FS_Subset DEF Small
<1>10. Sums(g, f, S)
  BY <1>8, <1>9 DEF Sums, SmallSums
<1>11. QED
  BY <1>10

(* What f gives for each value in X is how often F takes it on D.          *)
CountsValues(f, D, F, X) == \A x \in X : f[x] = Cardinality({i \in D : F[i] = x})

(* The sum of how often a function takes each value in X is how often it   *)
(* takes a value in X.                                                     *)
LEMMA SumFibers ==
  ASSUME NEW D, IsFiniteSet(D), NEW F, NEW X, IsFiniteSet(X), NEW f, NEW g,
         Sums(g, f, X), CountsValues(f, D, F, X)
  PROVE  g[X] = Cardinality({i \in D : F[i] \in X})
<1> DEFINE pick(s) == CHOOSE x \in s : TRUE
           hits(s) == {i \in D : F[i] \in s}
           bad == {n \in Nat : \E s \in SUBSET X :
                                 Cardinality(s) = n /\ g[s] # Cardinality(hits(s))}
<1>1. \A s \in SUBSET X : IsFiniteSet(s) /\ Cardinality(s) \in Nat
  BY FS_Subset, FS_CardinalityType
<1>2. \A s \in SUBSET X : s # {} => pick(s) \in s
  OBVIOUS
<1>3. ASSUME NEW s \in SUBSET X
      PROVE  g[s] = IF s = {} THEN 0 ELSE f[pick(s)] + g[s \ {pick(s)}]
  BY DEF Sums
<1>4. \A s : IsFiniteSet(hits(s)) /\ Cardinality(hits(s)) \in Nat
  BY FS_Subset, FS_CardinalityType
<1> HIDE DEF pick
<1>5. bad = {}
  <2>1. SUFFICES ASSUME bad # {} PROVE FALSE
    OBVIOUS
  <2>2. bad \in SUBSET Nat
    OBVIOUS
  <2> HIDE DEF bad
  <2>3. PICK n \in bad : \A m \in bad : n <= m
    BY <2>1, <2>2, LeastExists
  <2>4. PICK s \in SUBSET X : Cardinality(s) = n /\ g[s] # Cardinality(hits(s))
    BY <2>3 DEF bad
  <2>5. s # {}
    <3>1. SUFFICES ASSUME s = {} PROVE FALSE
      OBVIOUS
    <3>2. hits(s) = {} /\ g[s] = 0
      BY <1>3, <3>1
    <3>3. QED
      BY <2>4, <3>2, FS_EmptySet
  <2> DEFINE x == pick(s)
             r == s \ {x}
  <2>6. x \in s /\ x \in X /\ r \in SUBSET X
    BY <1>2, <2>5
  <2>7. Cardinality(r) = n - 1 /\ n - 1 \in Nat /\ ~ (n <= n - 1)
    <3>1. Cardinality(r) = Cardinality(s) - 1
      BY <1>1, <2>6, FS_RemoveElement
    <3>2. Cardinality(r) \in Nat /\ n \in Nat
      BY <1>1, <2>4, <2>6
    <3>3. QED
      BY <2>4, <3>1, <3>2
  <2>8. g[r] = Cardinality(hits(r))
    BY <2>3, <2>6, <2>7 DEF bad
  <2>9. g[s] = f[x] + g[r]
    BY <1>3, <2>5
  <2>10. f[x] = Cardinality(hits({x}))
    <3>1. hits({x}) = {i \in D : F[i] = x}
      OBVIOUS
    <3>2. QED
      BY <2>6, <3>1 DEF CountsValues
  <2> HIDE DEF x
  <2>11. hits(s) = hits({x}) \cup hits(r) /\ hits({x}) \cap hits(r) = {}
    BY <2>6
  <2> HIDE DEF hits, r
  <2>12. Cardinality(hits(s)) = Cardinality(hits({x})) + Cardinality(hits(r))
                                 - Cardinality(hits({x}) \cap hits(r))
    BY <1>4, <2>11, FS_Union
  <2>13. Cardinality(hits({x}) \cap hits(r)) = 0
    BY <2>11, FS_EmptySet
  <2>14. QED
    BY <1>4, <2>4, <2>8, <2>9, <2>10, <2>12, <2>13
<1>6. QED
  BY <1>1, <1>5

(* The values of f on X are integers.                                      *)
IntsOn(f, X) == \A x \in X : f[x] \in Int

(* A sum of numbers is a number, and any term of it can be taken first.    *)
LEMMA SumPart ==
  ASSUME NEW X, IsFiniteSet(X), NEW f, IntsOn(f, X), NEW g, Sums(g, f, X)
  PROVE  /\ g[{}] = 0
         /\ \A s \in SUBSET X : g[s] \in Int
         /\ \A s \in SUBSET X, a \in X : a \in s => g[s] = f[a] + g[s \ {a}]
<1> DEFINE pick(s) == CHOOSE x \in s : TRUE
           Good(s) == g[s] \in Int /\ \A a \in s : g[s] = f[a] + g[s \ {a}]
           bad == {n \in Nat : \E s \in SUBSET X : Cardinality(s) = n /\ ~ Good(s)}
<1>1. \A s \in SUBSET X : IsFiniteSet(s) /\ Cardinality(s) \in Nat
  BY FS_Subset, FS_CardinalityType
<1>2. \A s \in SUBSET X : s # {} => pick(s) \in s
  OBVIOUS
<1>3. ASSUME NEW s \in SUBSET X
      PROVE  g[s] = IF s = {} THEN 0 ELSE f[pick(s)] + g[s \ {pick(s)}]
  BY DEF Sums
<1> HIDE DEF pick
<1>4. bad = {}
  <2>1. SUFFICES ASSUME bad # {} PROVE FALSE
    OBVIOUS
  <2>2. bad \in SUBSET Nat
    OBVIOUS
  <2> HIDE DEF bad
  <2>3. PICK n \in bad : \A m \in bad : n <= m
    BY <2>1, <2>2, LeastExists
  <2>4. PICK s \in SUBSET X : Cardinality(s) = n /\ ~ Good(s)
    BY <2>3 DEF bad
  <2>5. s # {}
    <3>1. SUFFICES ASSUME s = {} PROVE FALSE
      OBVIOUS
    <3>2. g[s] = 0
      BY <1>3, <3>1
    <3>3. QED
      BY <2>4, <3>1, <3>2
  <2>6. ASSUME NEW r \in SUBSET s, r # s PROVE Good(r)
    <3>1. r \in SUBSET X /\ IsFiniteSet(s) /\ Cardinality(r) \in Nat /\ n \in Nat
      BY <1>1, <2>4
    <3>2. Cardinality(r) < n
      <4>1. Cardinality(r) <= Cardinality(s) /\ (Cardinality(r) = Cardinality(s) => r = s)
        BY <3>1, FS_Subset
      <4>2. QED
        BY <2>4, <2>6, <3>1, <4>1
    <3>3. ~ (n <= Cardinality(r))
      BY <3>1, <3>2
    <3> HIDE DEF Good
    <3>4. Cardinality(r) \notin bad
      BY <2>3, <3>3
    <3>5. QED
      BY <3>1, <3>4 DEF bad
  <2> DEFINE x == pick(s)
  <2>7. x \in s /\ x \in X /\ s \ {x} \in SUBSET X
    BY <1>2, <2>5
  <2>8. g[s] = f[x] + g[s \ {x}]
    BY <1>3, <2>5
  <2>9. Good(s \ {x})
    BY <2>6, <2>7
  <2> HIDE DEF x
  <2>10. g[s] \in Int
    BY <2>7, <2>8, <2>9 DEF IntsOn
  <2>11. ASSUME NEW a \in s PROVE g[s] = f[a] + g[s \ {a}]
    <3>1. CASE a = x
      BY <2>8, <3>1
    <3>2. CASE a # x
      <4>1. a \in s \ {x} /\ x \in s \ {a}
        BY <2>7, <3>2
      <4>2. (s \ {x}) \ {a} = (s \ {a}) \ {x}
        OBVIOUS
      <4> DEFINE r == (s \ {a}) \ {x}
      <4>3. g[s \ {x}] = f[a] + g[r]
        BY <2>9, <4>1, <4>2
      <4>4. Good(s \ {a})
        BY <2>6, <4>1
      <4>5. g[s \ {a}] = f[x] + g[r]
        BY <4>1, <4>4
      <4>6. Good(r)
        <5>1. r \in SUBSET s /\ r # s
          BY <4>1
        <5> HIDE DEF r, Good
        <5>2. QED
          BY <2>6, <5>1
      <4>7. f[x] \in Int /\ f[a] \in Int /\ g[r] \in Int
        BY <2>7, <4>6 DEF IntsOn
      <4> HIDE DEF r
      <4>8. QED
        BY <2>8, <4>3, <4>5, <4>7
    <3>3. QED
      BY <3>1, <3>2
  <2>12. QED
    BY <2>4, <2>10, <2>11
<1>5. QED
  BY <1>1, <1>3, <1>4

(* Sums of functions that agree are equal.                                 *)
LEMMA SumAgree ==
  ASSUME NEW X, IsFiniteSet(X), NEW f, IntsOn(f, X), NEW g, Sums(g, f, X),
         NEW Y, IsFiniteSet(Y), NEW h, IntsOn(h, Y), NEW i, Sums(i, h, Y),
         NEW s \in SUBSET X, s \subseteq Y, \A x \in s : f[x] = h[x]
  PROVE  g[s] = i[s]
<1> DEFINE bad == {n \in Nat : \E r \in SUBSET s : Cardinality(r) = n /\ g[r] # i[r]}
<1>1. \A r \in SUBSET s : r \in SUBSET X /\ r \in SUBSET Y
                          /\ IsFiniteSet(r) /\ Cardinality(r) \in Nat
  BY FS_Subset, FS_CardinalityType
<1>2. g[{}] = 0 /\ \A r \in SUBSET X, a \in X : a \in r => g[r] = f[a] + g[r \ {a}]
  BY SumPart
<1>3. i[{}] = 0 /\ \A r \in SUBSET Y, a \in Y : a \in r => i[r] = h[a] + i[r \ {a}]
  BY SumPart
<1>4. bad = {}
  <2>1. SUFFICES ASSUME bad # {} PROVE FALSE
    OBVIOUS
  <2>2. bad \in SUBSET Nat
    OBVIOUS
  <2> HIDE DEF bad
  <2>3. PICK n \in bad : \A m \in bad : n <= m
    BY <2>1, <2>2, LeastExists
  <2>4. PICK r \in SUBSET s : Cardinality(r) = n /\ g[r] # i[r]
    BY <2>3 DEF bad
  <2>5. PICK a \in r : TRUE
    BY <1>2, <1>3, <2>4
  <2> DEFINE q == r \ {a}
  <2>6. q \in SUBSET s /\ a \in s /\ a \in X /\ a \in Y
    BY <1>1
  <2>7. Cardinality(q) = n - 1 /\ n - 1 \in Nat /\ ~ (n <= n - 1)
    <3>1. Cardinality(q) = Cardinality(r) - 1
      BY <1>1, FS_RemoveElement
    <3>2. Cardinality(q) \in Nat /\ n \in Nat
      BY <1>1, <2>4, <2>6
    <3> HIDE DEF q
    <3>3. QED
      BY <2>4, <3>1, <3>2
  <2>8. g[q] = i[q]
    <3> HIDE DEF q
    <3>1. n - 1 \notin bad
      BY <2>3, <2>7
    <3>2. QED
      BY <2>6, <2>7, <3>1 DEF bad
  <2>9. g[r] = f[a] + g[q] /\ i[r] = h[a] + i[q]
    BY <1>1, <1>2, <1>3, <2>6
  <2>10. f[a] = h[a]
    BY <2>6
  <2>11. QED
    BY <2>4, <2>8, <2>9, <2>10
<1>5. QED
  BY <1>1, <1>4

(* Two terms of a sum change.                                              *)
LEMMA TwoTerms ==
  ASSUME NEW X, IsFiniteSet(X), NEW f, IntsOn(f, X), NEW g, Sums(g, f, X),
         NEW h, IntsOn(h, X), NEW i, Sums(i, h, X),
         NEW a \in X, NEW b \in X, a # b, \A x \in X \ {a, b} : f[x] = h[x]
  PROVE  i[X] = g[X] - f[a] - f[b] + h[a] + h[b] /\ g[X] \in Int
<1>1. /\ g[{}] = 0
      /\ \A s \in SUBSET X : g[s] \in Int
      /\ \A s \in SUBSET X, x \in X : x \in s => g[s] = f[x] + g[s \ {x}]
  BY SumPart
<1>2. /\ \A s \in SUBSET X : i[s] \in Int
      /\ \A s \in SUBSET X, x \in X : x \in s => i[s] = h[x] + i[s \ {x}]
  BY SumPart
<1> DEFINE rest == (X \ {a}) \ {b}
<1>3. g[rest] = i[rest]
  <2>1. rest \in SUBSET X /\ rest \subseteq X /\ \A x \in rest : f[x] = h[x]
    OBVIOUS
  <2> HIDE DEF rest
  <2>2. QED
    BY <2>1, SumAgree
<1>4. X \in SUBSET X /\ X \ {a} \in SUBSET X /\ b \in X \ {a} /\ rest \in SUBSET X
  OBVIOUS
<1>5. g[X] = f[a] + g[X \ {a}] /\ g[X \ {a}] = f[b] + g[rest]
  BY <1>1, <1>4
<1>6. i[X] = h[a] + i[X \ {a}] /\ i[X \ {a}] = h[b] + i[rest]
  BY <1>2, <1>4
<1>7. g[rest] \in Int /\ f[a] \in Int /\ f[b] \in Int /\ h[a] \in Int /\ h[b] \in Int
  BY <1>1, <1>4 DEF IntsOn
<1> HIDE DEF rest
<1>8. QED
  BY <1>3, <1>5, <1>6, <1>7

(* A sum of zeros.                                                         *)
LEMMA SumZero ==
  ASSUME NEW X, IsFiniteSet(X), NEW f, NEW g, Sums(g, f, X), \A x \in X : f[x] = 0
  PROVE  g[X] = 0
<1> DEFINE F == << >>
           D == {}
<1>1. \A Y : {i \in D : F[i] \in Y} = {} /\ \A x : {i \in D : F[i] = x} = {}
  OBVIOUS
<1>2. IsFiniteSet(D) /\ Cardinality(D) = 0
  BY FS_EmptySet
<1> HIDE DEF F
<1>3. CountsValues(f, D, F, X)
  BY <1>1, <1>2 DEF CountsValues
<1>4. g[X] = Cardinality({i \in D : F[i] \in X})
  <2> HIDE DEF D
  <2>1. QED
    BY <1>2, <1>3, SumFibers
<1>5. QED
  BY <1>1, <1>2, <1>4
-----------------------------------------------------------------------------
(* The nodes at and below a node.                                          *)
LEMMA SubtreeIs ==
  ASSUME NEW t, Closed(Nodes(t)), NEW top \in Routes, top # << >>
  PROVE  Subtree(t, top) = {q \in Nodes(t) : top \in Way(q)}
<1> DEFINE n == Len(top)
<1>1. top \in Seq(Nat) /\ n \in Nat \ {0}
  BY SeqIs DEF Routes
<1>2. ASSUME NEW q \in Nodes(t) PROVE q \in Seq(Nat) /\ Len(q) \in Nat
  BY SeqIs DEF Closed, Routes
<1>3. ASSUME NEW q \in Nodes(t), Len(q) >= n, Upto(q, n) = top PROVE top \in Way(q)
  <2>1. n \in 1 .. Len(q)
    BY <1>1, <1>2, <1>3
  <2> HIDE DEF n
  <2>2. QED
    BY <1>2, <1>3, <2>1, WayIs
<1>4. ASSUME NEW q \in Nodes(t), top \in Way(q) PROVE Len(q) >= n /\ Upto(q, n) = top
  <2>1. n \in 1 .. Len(q) /\ top = Upto(q, n)
    BY <1>2, <1>4, WayIs
  <2>2. QED
    BY <1>2, <2>1
<1>5. QED
  BY <1>3, <1>4 DEF Subtree

(* RemovePath's depths left with 0, the one it stops at, and the nodes it  *)
(* visits and deletes.                                                     *)
Removal(t, path, k, c, zero, last, walked, dead) ==
  /\ zero = {j \in (k + 1) .. Len(path) : t.count[Upto(path, j)] = c}
  /\ last = IF zero = {} THEN Len(path) ELSE Min(zero)
  /\ walked = Below(Upto(path, last), k)
  /\ dead = IF zero = {} THEN {} ELSE Subtree(t, Upto(path, last))

(* What the nodes RemovePath meets on the way are: those it only visits,   *)
(* and those it deletes, through which no other paths pass.                *)
LEMMA RemovedNodes ==
  ASSUME NEW D, IsFiniteSet(D), NEW P \in [D -> Routes], NEW t, Stands(t, P),
         NEW path \in Routes, NEW k \in 0 .. (Len(path) - 1),
         NEW I \in SUBSET D, I # {}, \A i \in I : P[i] = path,
         NEW zero, NEW last, NEW walked, NEW dead,
         Removal(t, path, k, Cardinality(I), zero, last, walked, dead)
  PROVE  /\ last \in (k + 1) .. Len(path)
         /\ dead # {} => dead = {q \in Nodes(t) : Upto(path, last) \in Way(q)}
         /\ walked \cup dead = Below(path, k)
         /\ \A q \in Below(path, k) : q \in dead <=> Hits(P, Through(q)) = I
         /\ \A q \in dead : t.count[q] = Cardinality(I)
<1> DEFINE n == Len(path)
           c == Cardinality(I)
           H(q) == Hits(P, Through(q))
           top == Upto(path, last)
           N == AllWays(P)
<1>1. /\ path \in Seq(Nat) /\ n \in Nat /\ k \in Nat /\ k + 1 <= n /\ k + 1 >= 1
      /\ k \in 0 .. n
  BY SeqIs DEF Routes
<1>2. Nodes(t) = N /\ Closed(N) /\ \A q \in N : t.count[q] = Cardinality(H(q))
  BY AllWaysIs DEF Stands, Nodes
<1>3. \A q \in Way(path) : /\ q \in N /\ q \in Routes /\ q # << >> /\ q \in Seq(Nat)
                           /\ Len(q) \in 1 .. n /\ q = Upto(path, Len(q))
  <2>1. PICK i \in D : P[i] = path
    OBVIOUS
  <2>2. Way(path) \subseteq N
    BY <2>1 DEF AllWays
  <2>3. QED
    BY <1>1, <2>2, WayIs, RouteWay
<1>4. \A j \in 1 .. n : Upto(path, j) \in Way(path) /\ Len(Upto(path, j)) = j
  <2>1. \A j \in 1 .. n : j \in 0 .. n
    OBVIOUS
  <2>2. QED
    BY <1>1, <2>1, WayIs, UptoIs
<1>5. \A q \in Way(path) : I \subseteq H(q) /\ IsFiniteSet(H(q)) /\ Cardinality(H(q)) \in Nat
  <2>1. \A q \in Way(path) : I \subseteq H(q)
    BY <1>3 DEF Hits, Through
  <2>2. \A X : IsFiniteSet(Hits(P, X)) /\ Cardinality(Hits(P, X)) \in Nat
    BY AllWaysIs
  <2>3. QED
    BY <2>1, <2>2
<1>6. ASSUME NEW q \in Way(path) PROVE Cardinality(H(q)) = c <=> H(q) = I
  BY <1>5, FS_Subset
<1>7. ASSUME NEW q \in Way(path), NEW r \in Way(path), Len(q) <= Len(r)
      PROVE  H(r) \subseteq H(q)
  <2>1. q \in Way(r)
    BY <1>1, <1>7, WayOfWay
  <2>2. \A p \in Routes : r \in Way(p) => q \in Way(p)
    <3>1. ASSUME NEW p \in Routes, r \in Way(p) PROVE q \in Way(p)
      <4>1. p \in Seq(Nat)
        BY DEF Routes
      <4>2. Way(r) \subseteq Way(p)
        BY <3>1, <4>1, WayOfWay
      <4>3. QED
        BY <2>1, <4>2
    <3>2. QED
      BY <3>1
  <2>3. QED
    BY <2>2 DEF Hits, Through
<1> HIDE DEF N, c
<1>8. Below(path, k) = {q \in Way(path) : Len(q) > k}
  <2> HIDE DEF n
  <2>1. QED
    BY <1>1, BelowIs DEF n
<1>9. \A j \in (k + 1) .. n : j \in 1 .. n /\ (j \in zero <=> H(Upto(path, j)) = I)
  <2>1. \A j \in (k + 1) .. n : j \in 1 .. n
    BY <1>1
  <2>2. zero = {j \in (k + 1) .. n : t.count[Upto(path, j)] = c}
    BY DEF Removal, c
  <2> HIDE DEF H
  <2>3. QED
    BY <1>2, <1>3, <1>4, <1>6, <2>1, <2>2
<1>10. CASE zero = {}
  <2>1. last = n /\ dead = {} /\ last \in (k + 1) .. n
    BY <1>1, <1>10 DEF Removal
  <2>2. top = path
    BY <1>1, <2>1, UptoAll
  <2>3. walked = Below(path, k)
    BY <2>2 DEF Removal
  <2>4. ASSUME NEW q \in Below(path, k) PROVE H(q) # I
    <3>1. Len(q) \in (k + 1) .. n /\ q = Upto(path, Len(q))
      BY <1>1, <1>3, <1>8
    <3>2. QED
      BY <1>9, <1>10, <3>1
  <2> HIDE DEF top
  <2>5. QED
    BY <2>1, <2>3, <2>4
<1>11. CASE zero # {}
  <2>1. zero \in SUBSET Nat
    <3>1. zero \subseteq (k + 1) .. n
      BY DEF Removal
    <3>2. QED
      BY <1>1, <3>1
  <2>2. last = Min(zero)
    BY <1>11 DEF Removal
  <2>3. \E m \in zero : \A j \in zero : m <= j
    BY <1>11, <2>1, LeastExists
  <2>4. last \in zero /\ \A j \in zero : last <= j
    BY <2>2, <2>3 DEF Min
  <2>5. last \in (k + 1) .. n /\ last \in 1 .. n /\ last \in Nat
    <3>1. zero \subseteq (k + 1) .. n
      BY DEF Removal
    <3>2. QED
      BY <1>1, <2>4, <3>1
  <2>6. dead = Subtree(t, top) /\ walked = Below(top, k)
    BY <1>11 DEF Removal
  <2>7. top \in Way(path) /\ Len(top) = last /\ H(top) = I /\ top \in Routes /\ top # << >>
    BY <1>3, <1>4, <1>9, <2>4, <2>5
  <2>8. Subtree(t, top) = {q \in N : top \in Way(q)}
    <3> HIDE DEF top
    <3>1. QED
      BY <1>2, <2>7, SubtreeIs
  <2>9. dead = {q \in Way(path) : Len(q) >= last}
    <3>1. ASSUME NEW q \in N, top \in Way(q) PROVE q \in Way(path) /\ Len(q) >= last
      <4>1. PICK i \in D : q \in Way(P[i])
        BY DEF N, AllWays
      <4>2. P[i] \in Routes /\ P[i] \in Seq(Nat)
        BY DEF Routes
      <4>3. top \in Way(P[i])
        BY <3>1, <4>1, <4>2, WayOfWay
      <4>4. i \in H(top)
        BY <4>2, <4>3 DEF Hits, Through
      <4>5. q \in Way(path)
        BY <2>7, <4>1, <4>4
      <4>6. q \in Seq(Nat) /\ Len(q) \in Nat
        BY <1>3, <4>5, SeqIs
      <4>7. Len(top) \in 1 .. Len(q)
        BY <3>1, <4>6, WayIs
      <4>8. QED
        BY <2>5, <2>7, <4>5, <4>6, <4>7
    <3>2. ASSUME NEW q \in Way(path), Len(q) >= last PROVE q \in N /\ top \in Way(q)
      <4>1. Len(top) <= Len(q)
        BY <1>3, <2>5, <2>7, <3>2
      <4> HIDE DEF top
      <4>2. top \in Way(q)
        BY <1>1, <2>7, <4>1, WayOfWay
      <4>3. QED
        BY <1>3, <4>2
    <3> HIDE DEF top
    <3>3. QED
      BY <2>6, <2>8, <3>1, <3>2
  <2>10. walked = {q \in Way(path) : Len(q) <= last /\ Len(q) > k}
    <3>1. top \in Seq(Nat) /\ k \in 0 .. Len(top)
      BY <1>1, <1>3, <2>5, <2>7
    <3> HIDE DEF top
    <3>2. walked = {q \in Way(top) : Len(q) > k}
      BY <2>6, <3>1, BelowIs
    <3>3. Way(top) = {q \in Way(path) : Len(q) <= last}
      BY <1>1, <2>7, WayOfWay
    <3>4. QED
      BY <3>2, <3>3
  <2> HIDE DEF top
  <2>11. walked \cup dead = Below(path, k)
    <3>1. \A q \in Way(path) : Len(q) \in Nat
      BY <1>3
    <3>2. \A q \in Way(path) : Len(q) > k <=> (Len(q) <= last /\ Len(q) > k) \/ Len(q) >= last
      BY <1>1, <2>5, <3>1
    <3>3. QED
      BY <1>8, <2>9, <2>10, <3>2
  <2>12. ASSUME NEW q \in Below(path, k) PROVE q \in dead <=> H(q) = I
    <3>1. q \in Way(path) /\ Len(q) \in (k + 1) .. n /\ q = Upto(path, Len(q))
      BY <1>1, <1>3, <1>8
    <3>2. ASSUME q \in dead PROVE H(q) = I
      <4>1. Len(top) <= Len(q)
        BY <2>5, <2>7, <2>9, <3>1, <3>2
      <4>2. H(q) \subseteq H(top)
        BY <1>7, <2>7, <3>1, <4>1
      <4>3. QED
        BY <1>5, <2>7, <3>1, <4>2
    <3>3. ASSUME H(q) = I PROVE q \in dead
      <4>1. Len(q) \in zero
        BY <1>9, <3>1, <3>3
      <4>2. QED
        BY <2>4, <2>5, <2>9, <3>1, <4>1
    <3>4. QED
      BY <3>2, <3>3
  <2>13. dead \subseteq Below(path, k)
    BY <2>11
  <2>14. \A q \in dead : t.count[q] = c
    BY <1>2, <1>3, <1>6, <1>8, <2>12, <2>13
  <2>15. dead = {q \in Nodes(t) : top \in Way(q)}
    BY <1>2, <2>6, <2>8
  <2>16. QED
    BY <2>5, <2>11, <2>12, <2>14, <2>15 DEF top, c
<1>12. QED
  BY <1>10, <1>11

(* What RemovePath sums to get what an item loses by the nodes S.          *)
Losses(W, f, c, S) ==
  LET iter[s \in SUBSET S] ==
        IF s = {} THEN 0
        ELSE LET x == CHOOSE x \in s : TRUE
             IN (IF x \in W THEN c ELSE f[x]) + iter[s \ {x}]
  IN iter[S]

(* With at most one node, and a count that is c, it is c.                  *)
LEMMA LossIs ==
  ASSUME NEW W, NEW f, NEW c \in Nat, NEW S,
         \A p \in S : p \in W \/ f[p] = c, \A p, q \in S : p = q
  PROVE  Losses(W, f, c, S) = IF S = {} THEN 0 ELSE c
<1> DEFINE h == [p \in S |-> c]
           pick(s) == CHOOSE x \in s : TRUE
           one(x) == IF x \in W THEN c ELSE f[x]
           Sum == CHOOSE g : g = [s \in SUBSET S |->
                                    IF s = {} THEN 0 ELSE one(pick(s)) + g[s \ {pick(s)}]]
<1>1. Losses(W, f, c, S) = Sum[S]
  BY DEF Losses
<1>2. IsFiniteSet(S)
  <2>1. S = {} \/ \E p : S = {p}
    OBVIOUS
  <2>2. QED
    BY <2>1, FS_EmptySet, FS_Singleton
<1>3. PICK g : Sums(g, h, S)
  BY <1>2, SumExists
<1>4. \A s \in SUBSET S : s # {} => pick(s) \in s /\ h[pick(s)] = c /\ one(pick(s)) = c
  <2>1. \A s \in SUBSET S : s # {} => pick(s) \in s
    OBVIOUS
  <2> HIDE DEF pick
  <2>2. QED
    BY <2>1
<1>5. g = [s \in SUBSET S |-> IF s = {} THEN 0 ELSE one(pick(s)) + g[s \ {pick(s)}]]
  <2>1. g = [s \in SUBSET S |-> IF s = {} THEN 0 ELSE h[pick(s)] + g[s \ {pick(s)}]]
    BY <1>3 DEF Sums
  <2> HIDE DEF h, one, pick
  <2>2. QED
    BY <1>4, <2>1
<1>6. Sum = [s \in SUBSET S |-> IF s = {} THEN 0 ELSE one(pick(s)) + Sum[s \ {pick(s)}]]
  <2> HIDE DEF one, pick
  <2>1. QED
    BY <1>5
<1> HIDE DEF Sum, one
<1>7. Sum[{}] = 0
  BY <1>6
<1>8. CASE S = {}
  BY <1>1, <1>7, <1>8
<1>9. CASE S # {}
  <2>1. Sum[S] = one(pick(S)) + Sum[S \ {pick(S)}]
    <3> HIDE DEF pick
    <3>1. S \in SUBSET S
      OBVIOUS
    <3>2. QED
      BY <1>6, <1>9, <3>1
  <2>2. S \ {pick(S)} = {} /\ one(pick(S)) = c
    BY <1>4, <1>9
  <2> HIDE DEF pick
  <2>3. Sum[S \ {pick(S)}] = 0
    BY <1>7, <2>2
  <2>4. c + 0 = c
    OBVIOUS
  <2>5. QED
    BY <1>1, <1>9, <2>1, <2>2, <2>3, <2>4
<1>10. QED
  BY <1>8, <1>9

(* RemovePath moves all of c paths up to depth k.                          *)
LEMMA RemoveStands ==
  ASSUME NEW D, IsFiniteSet(D), NEW P \in [D -> Routes], NEW t, Stands(t, P), Leafed(t),
         NEW path \in Routes, NEW k \in 0 .. (Len(path) - 1),
         NEW I \in SUBSET D, I # {}, \A i \in I : P[i] = path
  PROVE  LET u == RemovePath(t, path, k, Cardinality(I))
         IN /\ Stands(u, Moved(P, I, Upto(path, k))) /\ Leafed(u)
            /\ DOMAIN u.freq = DOMAIN t.freq
            /\ u.next = 0 <=> t.next = 0
            /\ Childless(Nodes(u)) \subseteq Childless(Nodes(t)) \cup Ahead(u)
            /\ \A q \in Ahead(t) : q \in Ahead(u) \/ q \notin Nodes(u)
<1> DEFINE n == Len(path)
           c == Cardinality(I)
           to == Upto(path, k)
           Q == Moved(P, I, to)
           N == AllWays(P)
           F == DOMAIN t.freq
           zero == {j \in (k + 1) .. n : t.count[Upto(path, j)] = c}
           last == IF zero = {} THEN n ELSE Min(zero)
           walked == Below(Upto(path, last), k)
           dead == IF zero = {} THEN {} ELSE Subtree(t, Upto(path, last))
           parent == Upto(path, last - 1)
           count == [p \in Nodes(t) \ dead |->
                       t.count[p] - (IF p \in walked THEN c ELSE 0)]
           Loss(i) == MapThenSumSet(LAMBDA p : IF p \in walked THEN c ELSE t.count[p],
                                    {p \in walked \cup dead : ItemOf(p) = i})
           freq == [i \in F |-> t.freq[i] - Loss(i)]
           shrunk == [t EXCEPT !.count = count, !.freq = freq]
           bare == dead # {} /\ parent # << >> /\ Children(DOMAIN count, parent) = {}
           u == RemovePath(t, path, k, c)
           B == Below(path, k)
           gains == {path[j] : j \in (k + 1) .. n}
<1>1. u = EraseLeaves(IF bare THEN AppendLeaf(shrunk, parent) ELSE shrunk, dead)
  BY DEF RemovePath
<1>2. /\ path \in Seq(Nat) /\ Distinct(path) /\ n \in Nat /\ k \in Nat /\ k + 1 <= n
      /\ k \in 0 .. n /\ DOMAIN path = 1 .. n
  BY SeqIs DEF Routes
<1>3. /\ IsTree(t)
      /\ t.count = [q \in N |-> Cardinality(Hits(P, Through(q)))]
      /\ t.freq = [x \in F |-> Cardinality(Hits(P, With(x)))]
      /\ \A i \in D : On(P[i]) \subseteq F
  BY DEF Stands
<1>4. Nodes(t) = N /\ \A q \in N : t.count[q] = Cardinality(Hits(P, Through(q)))
  BY <1>3 DEF Nodes
<1>5. /\ Closed(N)
      /\ \A X : Cardinality(Hits(P, X)) \in Nat /\ IsFiniteSet(Hits(P, X))
                /\ (Cardinality(Hits(P, X)) = 0 <=> Hits(P, X) = {})
      /\ \A q \in Routes : q \in N <=> Hits(P, Through(q)) # {}
  <2> HIDE DEF N
  <2>1. QED
    BY AllWaysIs DEF N
<1>6. to \in Routes /\ to \in Seq(Nat) /\ Len(to) = k
  BY <1>2, RouteUpto, UptoIs
<1>7. /\ Q \in [D -> Routes] /\ c \in Nat /\ IsFiniteSet(I)
      /\ \A X : Hits(Q, X) = (Hits(P, X) \ I) \cup (IF to \in X THEN I ELSE {})
      /\ \A X : Cardinality(Hits(Q, X)) = Cardinality(Hits(P, X))
                                          - (IF path \in X THEN c ELSE 0)
                                          + (IF to \in X THEN c ELSE 0)
  <2>1. to \in Routes
    BY <1>6
  <2> HIDE DEF to
  <2>2. /\ Moved(P, I, to) \in [D -> Routes]
        /\ IsFiniteSet(I) /\ Cardinality(I) \in Nat
        /\ \A X : Hits(Moved(P, I, to), X)
                    = (Hits(P, X) \ I) \cup (IF to \in X THEN I ELSE {})
        /\ \A X : Cardinality(Hits(Moved(P, I, to), X))
                    = Cardinality(Hits(P, X))
                      - (IF path \in X THEN Cardinality(I) ELSE 0)
                      + (IF to \in X THEN Cardinality(I) ELSE 0)
    BY <2>1, HitsMoved
  <2>3. QED
    BY <2>2
<1>8. /\ last \in (k + 1) .. n
      /\ dead # {} => dead = {q \in Nodes(t) : Upto(path, last) \in Way(q)}
      /\ walked \cup dead = B
      /\ \A q \in B : q \in dead <=> Hits(P, Through(q)) = I
      /\ \A q \in dead : t.count[q] = c
  <2>1. Removal(t, path, k, Cardinality(I), zero, last, walked, dead)
    BY DEF Removal
  <2> HIDE DEF zero, last, walked, dead
  <2>2. /\ last \in (k + 1) .. Len(path)
        /\ dead # {} => dead = {q \in Nodes(t) : Upto(path, last) \in Way(q)}
        /\ walked \cup dead = Below(path, k)
        /\ \A q \in Below(path, k) : q \in dead <=> Hits(P, Through(q)) = I
        /\ \A q \in dead : t.count[q] = Cardinality(I)
    BY <2>1, RemovedNodes
  <2>3. QED
    BY <2>2
<1> HIDE DEF last, walked, dead
<1>9. PICK i0 \in I : P[i0] = path /\ i0 \in D
  OBVIOUS
<1>10. Way(path) \subseteq N
  BY <1>9 DEF AllWays
<1>11. B = {q \in Way(path) : Len(q) > k}
  <2> HIDE DEF n
  <2>1. QED
    BY <1>2, BelowIs DEF n
<1>12. \A q \in Way(path) : /\ q \in Routes /\ q # << >> /\ q \in Seq(Nat)
                            /\ Len(q) \in 1 .. n /\ q = Upto(path, Len(q))
  BY <1>2, WayIs, RouteWay
<1>13. Way(to) = {q \in Way(path) : q \notin B}
  <2>1. \A q \in Way(path) : q \notin B <=> Len(q) <= k
    BY <1>2, <1>11, <1>12
  <2>2. CASE k = 0
    <3>1. Way(to) = {}
      BY <1>6, <2>2 DEF Way
    <3>2. QED
      BY <1>12, <2>1, <2>2, <3>1
  <2>3. CASE k # 0
    <3>1. k \in 1 .. n
      BY <1>2, <2>3
    <3>2. to \in Way(path)
      BY <1>2, <3>1, WayIs
    <3> HIDE DEF to
    <3>3. QED
      BY <1>2, <1>6, <2>1, <3>2, WayOfWay
  <2>4. QED
    BY <2>2, <2>3
<1>14. \A q : q \in N => q \in Routes /\ (path \in Through(q) <=> q \in Way(path))
                          /\ (to \in Through(q) <=> q \in Way(to))
  BY <1>5, <1>6 DEF Closed, Through
<1>15. dead \subseteq B /\ B \subseteq Way(path)
  BY <1>8, <1>11
<1>16. AllWays(Q) = N \ dead
  <2>1. \A q \in Routes : q \in AllWays(Q) <=> Hits(Q, Through(q)) # {}
    <3> HIDE DEF Q
    <3>1. QED
      BY <1>7, AllWaysIs
  <2>2. Closed(AllWays(Q))
    <3> HIDE DEF Q
    <3>1. QED
      BY <1>7, AllWaysIs
  <2>3. ASSUME NEW q \in Routes PROVE q \in AllWays(Q) <=> q \in N \ dead
    <3>1. CASE q \in B
      <4>1. q \notin Way(to) /\ q \in N
        BY <1>10, <1>13, <1>15, <3>1
      <4>2. to \notin Through(q)
        BY <1>14, <4>1
      <4>3. Hits(Q, Through(q)) = Hits(P, Through(q)) \ I
        BY <1>7, <4>2
      <4>4. I \subseteq Hits(P, Through(q))
        <5>1. path \in Through(q)
          BY <1>14, <1>15, <3>1, <4>1
        <5>2. QED
          BY <5>1 DEF Hits
      <4>5. QED
        BY <1>8, <2>1, <3>1, <4>1, <4>3, <4>4
    <3>2. CASE q \notin B
      <4>1. q \notin dead
        BY <1>15, <3>2
      <4>2. path \in Through(q) <=> to \in Through(q)
        <5>1. q \in Way(path) <=> q \in Way(to)
          BY <1>13, <3>2
        <5>2. QED
          BY <1>6, <5>1 DEF Through
      <4>3. path \in Through(q) => I \subseteq Hits(P, Through(q))
        BY DEF Hits
      <4>4. path \notin Through(q) => I \cap Hits(P, Through(q)) = {}
        BY DEF Hits
      <4>5. Hits(Q, Through(q)) = Hits(P, Through(q))
        <5>1. Hits(Q, Through(q)) = (Hits(P, Through(q)) \ I)
                                      \cup (IF to \in Through(q) THEN I ELSE {})
          BY <1>7
        <5>2. QED
          BY <4>2, <4>3, <4>4, <5>1
      <4>6. QED
        BY <1>5, <2>1, <4>1, <4>5
    <3>3. QED
      BY <3>1, <3>2
  <2>4. QED
    BY <1>5, <2>2, <2>3 DEF Closed
<1>17. count = [q \in AllWays(Q) |-> Cardinality(Hits(Q, Through(q)))]
  <2>1. ASSUME NEW q \in N \ dead
        PROVE  t.count[q] - (IF q \in walked THEN c ELSE 0) = Cardinality(Hits(Q, Through(q)))
    <3> DEFINE h == Cardinality(Hits(P, Through(q)))
    <3>1. h \in Nat /\ t.count[q] = h
      BY <1>4, <1>5
    <3>2. Cardinality(Hits(Q, Through(q))) = h - (IF q \in Way(path) THEN c ELSE 0)
                                               + (IF q \in Way(to) THEN c ELSE 0)
      BY <1>7, <1>14
    <3> HIDE DEF h, c, to, N, Q, B
    <3>3. CASE q \in B
      <4>1. q \in walked /\ q \in Way(path) /\ q \notin Way(to)
        BY <1>8, <1>13, <1>15, <3>3
      <4>2. QED
        BY <1>7, <3>1, <3>2, <4>1
    <3>4. CASE q \notin B
      <4>1. q \notin walked /\ (q \in Way(path) <=> q \in Way(to))
        BY <1>8, <1>13, <3>4
      <4>2. QED
        BY <1>7, <3>1, <3>2, <4>1
    <3>5. QED
      BY <3>3, <3>4
  <2>2. count = [q \in N \ dead |-> t.count[q] - (IF q \in walked THEN c ELSE 0)]
    BY <1>4
  <2> HIDE DEF count, N, c, Q
  <2>3. QED
    BY <1>16, <2>1, <2>2
<1>18. On(path) = On(to) \cup gains /\ On(to) \cap gains = {} /\ On(path) \subseteq F
  <2>1. On(path) = On(to) \cup gains /\ On(to) \cap gains = {}
    BY <1>2, OnParts
  <2>2. QED
    BY <1>3, <1>9, <2>1
<1>19. ASSUME NEW x \in F PROVE Loss(x) = IF x \in gains THEN c ELSE 0
  <2> DEFINE S == {p \in walked \cup dead : ItemOf(p) = x}
  <2>1. S = {p \in B : ItemOf(p) = x}
    BY <1>8
  <2>2. \A p \in B : Len(p) \in (k + 1) .. n /\ p = Upto(path, Len(p))
                     /\ ItemOf(p) = path[Len(p)]
    <3>1. ASSUME NEW p \in B
          PROVE  Len(p) \in (k + 1) .. n /\ p = Upto(path, Len(p)) /\ ItemOf(p) = path[Len(p)]
      <4>1. p \in Seq(Nat) /\ Len(p) \in 1 .. n /\ Len(p) > k /\ p = Upto(path, Len(p))
        BY <1>11, <1>12
      <4>2. Len(p) \in (k + 1) .. n /\ Len(p) \in 0 .. n /\ Len(p) \in 1 .. Len(p)
        BY <1>2, <4>1
      <4>3. Upto(path, Len(p))[Len(p)] = path[Len(p)]
        BY <1>2, <4>2, UptoIs
      <4>4. QED
        BY <4>1, <4>2, <4>3 DEF ItemOf
    <3>2. QED
      BY <3>1
  <2>3. ASSUME NEW p \in S, NEW q \in S PROVE p = q
    <3>1. /\ Len(p) \in 1 .. n /\ p = Upto(path, Len(p)) /\ path[Len(p)] = x
          /\ Len(q) \in 1 .. n /\ q = Upto(path, Len(q)) /\ path[Len(q)] = x
      BY <1>2, <2>1, <2>2
    <3>2. Len(p) = Len(q)
      BY <1>2, <3>1 DEF Distinct
    <3>3. QED
      BY <3>1, <3>2
  <2>4. \A p \in S : p \in walked \/ t.count[p] = c
    BY <1>8
  <2>5. S = {} <=> x \notin gains
    <3>1. ASSUME NEW p \in S PROVE x \in gains
      BY <2>1, <2>2
    <3>2. ASSUME NEW j \in (k + 1) .. n, path[j] = x PROVE S # {}
      <4>1. j \in 1 .. n /\ j \in 0 .. n /\ j > k
        BY <1>2
      <4>2. Upto(path, j) \in Way(path) /\ Len(Upto(path, j)) = j
        BY <1>2, <4>1, WayIs, UptoIs
      <4>3. Upto(path, j) \in B
        BY <1>11, <4>1, <4>2
      <4>4. ItemOf(Upto(path, j)) = x
        BY <2>2, <3>2, <4>2, <4>3
      <4>5. QED
        BY <2>1, <4>3, <4>4
    <3>3. QED
      BY <3>1, <3>2
  <2>6. Loss(x) = Losses(walked, t.count, c, S)
    <3> HIDE DEF c
    <3>1. QED
      BY DEF MapThenSumSet, MapThenFoldSet, Losses
  <2> HIDE DEF S, Loss
  <2>7. Losses(walked, t.count, c, S) = IF S = {} THEN 0 ELSE c
    BY <1>7, <2>3, <2>4, LossIs, SMTT(30)
  <2>8. QED
    BY <2>5, <2>6, <2>7
<1> HIDE DEF Loss
<1>20. freq = [x \in F |-> Cardinality(Hits(Q, With(x)))]
  <2>1. ASSUME NEW x \in F
        PROVE  t.freq[x] - Loss(x) = Cardinality(Hits(Q, With(x)))
    <3> DEFINE h == Cardinality(Hits(P, With(x)))
    <3>1. h \in Nat /\ t.freq[x] = h
      <4> HIDE DEF F
      <4>1. QED
        BY <1>3, <1>5
    <3>2. (to \in With(x) <=> x \in On(to)) /\ (path \in With(x) <=> x \in On(path))
      BY <1>6 DEF With
    <3>3. Cardinality(Hits(Q, With(x))) = h - (IF x \in On(path) THEN c ELSE 0)
                                            + (IF x \in On(to) THEN c ELSE 0)
      BY <1>7, <3>2
    <3>4. Loss(x) = IF x \in gains THEN c ELSE 0
      BY <1>19
    <3> HIDE DEF h, c, gains, to, F, Q
    <3>5. CASE x \in gains
      <4>1. x \in On(path) /\ x \notin On(to)
        BY <1>18, <3>5
      <4>2. QED
        BY <1>7, <3>1, <3>3, <3>4, <3>5, <4>1
    <3>6. CASE x \notin gains
      <4>1. x \in On(path) <=> x \in On(to)
        BY <1>18, <3>6
      <4>2. QED
        BY <1>7, <3>1, <3>3, <3>4, <3>6, <4>1
    <3>7. QED
      BY <3>5, <3>6
  <2> HIDE DEF F, Q
  <2>2. QED
    BY <2>1
<1>21. DOMAIN count = N \ dead
  BY <1>4
<1> HIDE DEF count, freq
<1>22. shrunk = [count |-> count, leaves |-> t.leaves, next |-> t.next, freq |-> freq]
  <2>1. IsTree(t)
    BY <1>3
  <2>2. QED
    BY <2>1, TreeCounts, Zenon
<1>23. /\ shrunk.count = count /\ shrunk.leaves = t.leaves /\ shrunk.next = t.next
       /\ shrunk.freq = freq
  BY <1>22
<1> HIDE DEF shrunk
<1>24. IsTree(shrunk) /\ IsList(shrunk) /\ Ahead(shrunk) = Ahead(t)
       /\ On(shrunk.leaves) = Childless(N)
  <2>1. IsTree(shrunk)
    BY <1>22, <1>23 DEF IsTree
  <2>2. IsList(t) /\ On(t.leaves) = Childless(N)
    BY <1>4 DEF Leafed
  <2>3. IsList(shrunk)
    BY <1>23, <2>2 DEF IsList
  <2>4. Ahead(shrunk) = Ahead(t)
    BY <1>23 DEF Ahead
  <2>5. QED
    BY <1>23, <2>1, <2>2, <2>3, <2>4
<1> DEFINE v == IF bare THEN AppendLeaf(shrunk, parent) ELSE shrunk
<1>25. Childless(N \ dead) = (Childless(N) \ dead) \cup (IF bare THEN {parent} ELSE {})
       /\ (bare => parent \in N \ dead /\ parent \notin Childless(N) /\ parent \in Routes)
  <2>1. CASE dead = {}
    <3>1. N \ dead = N /\ ~bare /\ Childless(N) \ dead = Childless(N)
      BY <2>1
    <3> HIDE DEF bare
    <3>2. QED
      BY <3>1
  <2>2. CASE dead # {}
    <3> DEFINE top == Upto(path, last)
    <3>1. last \in 1 .. n /\ last \in 0 .. n /\ last \in Nat /\ last - 1 \in 0 .. last
      BY <1>2, <1>8
    <3>2. top \in N /\ top \in Seq(Nat) /\ Len(top) = last /\ top # << >>
      BY <1>2, <1>10, <1>12, <3>1, WayIs, UptoIs
    <3>3. ParentOf(top) = parent
      <4>1. ParentOf(top) = Upto(top, last - 1)
        BY <3>2 DEF ParentOf
      <4>2. Upto(top, last - 1) = Upto(path, last - 1)
        <5> HIDE DEF n
        <5>1. last \in 0 .. Len(path)
          BY <3>1 DEF n
        <5>2. QED
          BY <1>2, <3>1, <5>1, UptoUpto
      <4>3. QED
        BY <4>1, <4>2
    <3>4. dead = {q \in N : top \in Way(q)}
      BY <1>4, <1>8, <2>2
    <3>5. bare <=> parent # << >> /\ Children(N \ dead, parent) = {}
      BY <1>21, <2>2
    <3> HIDE DEF bare, top, parent, N
    <3>6. /\ Childless(N \ dead)
                 = (Childless(N) \ dead)
                   \cup (IF ParentOf(top) # << >> /\ Children(N \ dead, ParentOf(top)) = {}
                         THEN {ParentOf(top)} ELSE {})
          /\ ParentOf(top) # << >> => ParentOf(top) \in N \ dead
                                      /\ ParentOf(top) \notin Childless(N)
      <4> DEFINE below == {q \in N : top \in Way(q)}
      <4>1. /\ Childless(N \ below)
                   = (Childless(N) \ below)
                     \cup (IF ParentOf(top) # << >> /\ Children(N \ below, ParentOf(top)) = {}
                           THEN {ParentOf(top)} ELSE {})
            /\ ParentOf(top) # << >> => ParentOf(top) \in N \ below
                                        /\ ParentOf(top) \notin Childless(N)
        BY <1>5, <3>2, Pruned, ZenonT(30)
      <4>2. dead = below
        BY <3>4
      <4> HIDE DEF below
      <4>3. QED
        BY <4>1, <4>2
    <3>7. bare => parent \in N \ dead /\ parent \notin Childless(N) /\ parent \in Routes
      BY <1>5, <3>3, <3>5, <3>6 DEF Closed
    <3>8. Childless(N \ dead) = (Childless(N) \ dead) \cup (IF bare THEN {parent} ELSE {})
      <4>1. CASE bare
        BY <3>3, <3>5, <3>6, <4>1
      <4>2. CASE ~bare
        BY <3>3, <3>5, <3>6, <4>2
      <4>3. QED
        BY <4>1, <4>2
    <3>9. QED
      BY <3>7, <3>8
  <2>3. QED
    BY <2>1, <2>2
<1> HIDE DEF bare, parent, N
<1>26. /\ IsTree(v) /\ IsList(v) /\ v.count = count /\ v.freq = freq
       /\ On(v.leaves) = Childless(N) \cup (IF bare THEN {parent} ELSE {})
       /\ v.next = t.next
       /\ \A q \in Ahead(t) : q \in Ahead(v)
       /\ bare => parent \in Ahead(v)
  <2>1. CASE bare
    <3>1. parent \in Routes /\ parent \notin On(shrunk.leaves)
      BY <1>24, <1>25, <2>1
    <3>2. LET e == AppendLeaf(shrunk, parent)
          IN /\ IsTree(e) /\ IsList(e)
             /\ e.count = shrunk.count /\ e.freq = shrunk.freq
             /\ On(e.leaves) = On(shrunk.leaves) \cup {parent}
             /\ e.next = shrunk.next
             /\ \A q \in Ahead(shrunk) \cup {parent} : q \in Ahead(e)
      BY <1>24, <3>1, AppendIs
    <3>3. v = AppendLeaf(shrunk, parent)
      BY <2>1
    <3> HIDE DEF v
    <3>4. /\ IsTree(v) /\ IsList(v)
          /\ v.count = shrunk.count /\ v.freq = shrunk.freq
          /\ On(v.leaves) = On(shrunk.leaves) \cup {parent}
          /\ v.next = shrunk.next
          /\ \A q \in Ahead(shrunk) \cup {parent} : q \in Ahead(v)
      BY <3>2, <3>3
    <3>5. QED
      BY <1>23, <1>24, <2>1, <3>4
  <2>2. CASE ~bare
    <3>1. v = shrunk
      BY <2>2
    <3> HIDE DEF v
    <3>2. QED
      BY <1>23, <1>24, <2>2, <3>1
  <2>3. QED
    BY <2>1, <2>2
<1>27. u = EraseLeaves(v, dead)
  BY <1>1
<1> HIDE DEF u, v
<1>28. /\ IsTree(u) /\ IsList(u)
       /\ u.count = v.count /\ u.freq = v.freq
       /\ On(u.leaves) = On(v.leaves) \ dead
       /\ u.next = 0 <=> v.next = 0
       /\ \A p \in Ahead(v) : p \in dead \/ p \in Ahead(u)
  BY <1>26, <1>27, EraseIs
<1> HIDE DEF Q, c, to, F
<1>29. Nodes(u) = AllWays(Q) /\ Nodes(u) = N \ dead /\ DOMAIN u.freq = F
  BY <1>16, <1>17, <1>20, <1>26, <1>28 DEF Nodes
<1>30. On(u.leaves) = Childless(N \ dead)
  BY <1>25, <1>26, <1>28
<1>31. Stands(u, Q)
  <2>1. u.freq = [x \in DOMAIN u.freq |-> Cardinality(Hits(Q, With(x)))]
    BY <1>20, <1>26, <1>28, <1>29
  <2>2. ASSUME NEW i \in D PROVE On(Q[i]) \subseteq F
    <3>1. Q[i] = to \/ Q[i] = P[i]
      BY DEF Q, Moved
    <3>2. QED
      BY <1>3, <1>18, <3>1
  <2>3. QED
    BY <1>7, <1>17, <1>26, <1>28, <1>29, <2>1, <2>2 DEF Stands
<1>32. Leafed(u)
  BY <1>28, <1>29, <1>30 DEF Leafed
<1>33. Childless(Nodes(u)) \subseteq Childless(Nodes(t)) \cup Ahead(u)
  BY <1>4, <1>25, <1>26, <1>28, <1>29
<1>34. \A q \in Ahead(t) : q \in Ahead(u) \/ q \notin Nodes(u)
  BY <1>26, <1>28, <1>29
<1>35. (u.next = 0) <=> (t.next = 0)
  BY <1>26, <1>28
<1>36. QED
  BY <1>29, <1>31, <1>32, <1>33, <1>34, <1>35 DEF u, Q, F, c, to
-----------------------------------------------------------------------------
(* The tree's own operations.                                              *)

(* The empty path adds nothing.                                            *)
LEMMA NoPath ==
  /\ << >> \in Routes /\ Way(<< >>) = {} /\ On(<< >>) = {}
  /\ \A q : << >> \notin Through(q) /\ << >> \notin With(q)
  /\ \A path \in Routes : Upto(path, 0) = << >>
<1>1. << >> \in Seq(Nat) /\ Len(<< >>) = 0 /\ DOMAIN << >> = {}
  OBVIOUS
<1>2. << >> \in Routes
  BY <1>1 DEF Routes, Distinct
<1>3. Way(<< >>) = {} /\ On(<< >>) = {}
  BY <1>1 DEF Way, On
<1>4. ASSUME NEW path \in Routes PROVE Upto(path, 0) = << >>
  <2>1. path \in Seq(Nat) /\ 0 \in 0 .. Len(path)
    BY SeqIs DEF Routes
  <2>2. Upto(path, 0) \in Seq(Nat) /\ Len(Upto(path, 0)) = 0
    BY <2>1, UptoIs
  <2>3. QED
    BY <2>2
<1>5. QED
  BY <1>2, <1>3, <1>4 DEF Through, With

(* Insert adds a path at the end.                                          *)
LEMMA InsertTree ==
  ASSUME NEW P \in Seq(Routes), NEW t, Stands(t, P), Leafed(t), NEW path \in Routes
  PROVE  LET u == Insert(t, path)
         IN /\ Stands(u, Append(P, path)) /\ Leafed(u)
            /\ DOMAIN u.freq = DOMAIN t.freq \cup On(path)
            /\ u.next = 0 <=> t.next = 0
            /\ Childless(Nodes(u)) \subseteq Childless(Nodes(t)) \cup {path}
            /\ \A q \in Ahead(t) : q \in Ahead(u) \/ q \in Way(path)
<1> DEFINE n == Len(P)
           D == 1 .. (n + 1)
           e == << >>
           R == Append(P, e)
           I == {n + 1}
<1>1. e \in Routes /\ Way(e) = {} /\ On(e) = {} /\ Upto(path, 0) = e
      /\ \A q : e \notin Through(q) /\ e \notin With(q)
  BY NoPath
<1> HIDE DEF e
<1>2. n \in Nat /\ DOMAIN P = 1 .. n /\ \A i \in 1 .. n : P[i] \in Routes
  BY SeqIs
<1>3. R \in Seq(Routes) /\ Len(R) = n + 1
      /\ \A i \in D : R[i] = IF i <= n THEN P[i] ELSE e
  BY <1>1, Appended
<1>4. Append(P, path) \in Seq(Routes) /\ Len(Append(P, path)) = n + 1
      /\ \A i \in D : Append(P, path)[i] = IF i <= n THEN P[i] ELSE path
  BY Appended
<1>5. \A q : /\ Cardinality(Hits(R, Through(q))) = Cardinality(Hits(P, Through(q)))
             /\ Cardinality(Hits(R, With(q))) = Cardinality(Hits(P, With(q)))
  <2>1. \A X : e \notin X => Cardinality(Hits(R, X)) = Cardinality(Hits(P, X))
    <3>1. ASSUME NEW X, e \notin X PROVE Cardinality(Hits(R, X)) = Cardinality(Hits(P, X))
      <4>1. Cardinality(Hits(P, X)) \in Nat
        BY HitsFinite
      <4>2. Cardinality(Hits(R, X)) = Cardinality(Hits(P, X)) + IF e \in X THEN 1 ELSE 0
        BY <1>1, HitsAppend
      <4> HIDE DEF R
      <4>3. QED
        BY <3>1, <4>1, <4>2
    <3>2. QED
      BY <3>1
  <2> HIDE DEF R
  <2>2. QED
    BY <1>1, <2>1
<1> HIDE DEF n, R
<1>6. DOMAIN R = D /\ R \in [D -> Routes] /\ DOMAIN Append(P, path) = D
      /\ Append(P, path) \in [D -> Routes]
  <2>1. \A s \in Seq(Routes) : Len(s) = n + 1 => DOMAIN s = D /\ s \in [D -> Routes]
    BY SeqIs
  <2>2. QED
    BY <1>3, <1>4, <2>1, Zenon
<1>7. \A i \in 1 .. n : i \in D /\ i <= n
  BY <1>2
<1>8. n + 1 \in D /\ ~ (n + 1 <= n) /\ \A i \in D : i = n + 1 \/ i \in 1 .. n
  BY <1>2
<1>9. AllWays(R) = AllWays(P)
  <2>1. ASSUME NEW i \in D PROVE Way(R[i]) \subseteq AllWays(P)
    BY <1>1, <1>2, <1>3, <1>7, <1>8 DEF AllWays
  <2>2. ASSUME NEW i \in 1 .. n PROVE Way(P[i]) \subseteq AllWays(R)
    BY <1>3, <1>6, <1>7 DEF AllWays
  <2>3. QED
    BY <1>2, <1>6, <2>1, <2>2 DEF AllWays
<1>10. Stands(t, R)
  <2>1. \A i \in D : On(R[i]) \subseteq DOMAIN t.freq
    BY <1>1, <1>2, <1>3, <1>7, <1>8 DEF Stands
  <2>2. QED
    BY <1>5, <1>6, <1>9, <2>1 DEF Stands
<1>11. Moved(R, I, path) = Append(P, path)
  <2>1. \A i \in D : Moved(R, I, path)[i] = Append(P, path)[i]
    BY <1>3, <1>4, <1>6, <1>7, <1>8 DEF Moved
  <2>2. Moved(R, I, path) = [i \in D |-> Moved(R, I, path)[i]]
    BY <1>6 DEF Moved
  <2>3. Append(P, path) = [i \in D |-> Append(P, path)[i]]
    BY <1>6
  <2>4. QED
    BY <2>1, <2>2, <2>3
<1>12. I \in SUBSET D /\ I # {} /\ Cardinality(I) = 1 /\ IsFiniteSet(D)
       /\ \A i \in I : R[i] = Upto(path, 0)
  <2>1. IsFiniteSet(D)
    BY <1>2, FS_Interval
  <2>2. Cardinality(I) = 1
    BY FS_Singleton
  <2>3. QED
    BY <1>1, <1>3, <1>8, <2>1, <2>2
<1>13. 0 \in 0 .. Len(path)
  BY SeqIs DEF Routes
<1> HIDE DEF I, D
<1>14. LET u == InsertPath(t, path, 0, Cardinality(I))
       IN /\ Stands(u, Moved(R, I, path)) /\ Leafed(u)
          /\ DOMAIN u.freq = DOMAIN t.freq \cup On(path)
          /\ u.next = 0 <=> t.next = 0
          /\ Childless(Nodes(u)) \subseteq Childless(Nodes(t)) \cup {path}
          /\ \A q \in Ahead(t) : q \in Ahead(u) \/ q \in Way(path)
  BY <1>6, <1>10, <1>12, <1>13, InsertStands
<1>15. QED
  BY <1>11, <1>12, <1>14 DEF Insert

(* Remove takes the first path away.                                       *)
LEMMA RemoveTree ==
  ASSUME NEW P \in Seq(Routes), P # << >>, P[1] # << >>, NEW t, Stands(t, P), Leafed(t)
  PROVE  LET u == Remove(t, P[1])
         IN /\ Stands(u, Tail(P)) /\ Leafed(u)
            /\ DOMAIN u.freq = DOMAIN t.freq
            /\ u.next = 0 <=> t.next = 0
<1> DEFINE n == Len(P)
           D == 1 .. n
           path == P[1]
           e == << >>
           I == {1}
           Q == Moved(P, I, e)
           u == RemovePath(t, path, 0, Cardinality(I))
<1>1. /\ n \in Nat \ {0} /\ DOMAIN P = D /\ \A i \in D : P[i] \in Routes
      /\ P \in [D -> Routes] /\ 1 \in D
  OBVIOUS
<1>2. path \in Routes /\ path \in Seq(Nat) /\ Len(path) \in Nat \ {0}
      /\ 0 \in 0 .. (Len(path) - 1)
  <2>1. path \in Routes /\ path # << >>
    BY <1>1
  <2> HIDE DEF path
  <2>2. path \in Seq(Nat) /\ Len(path) \in Nat /\ Len(path) # 0
    BY <2>1, SeqIs DEF Routes
  <2>3. QED
    BY <2>1, <2>2
<1>3. e \in Routes /\ Way(e) = {} /\ On(e) = {} /\ Upto(path, 0) = e
      /\ \A q : e \notin Through(q) /\ e \notin With(q)
  BY <1>2, NoPath
<1> HIDE DEF e
<1>4. I \in SUBSET D /\ I # {} /\ Cardinality(I) = 1 /\ IsFiniteSet(D)
      /\ \A i \in I : P[i] = path
  <2>1. IsFiniteSet(D)
    BY <1>1, FS_Interval
  <2>2. Cardinality(I) = 1
    BY FS_Singleton
  <2>3. QED
    BY <1>1, <2>1, <2>2
<1> HIDE DEF n, D, path, I
<1>5. /\ Stands(u, Moved(P, I, Upto(path, 0))) /\ Leafed(u)
      /\ DOMAIN u.freq = DOMAIN t.freq
      /\ u.next = 0 <=> t.next = 0
  BY <1>1, <1>2, <1>4, RemoveStands, SMTT(30)
<1>6. Stands(u, Q)
  BY <1>3, <1>5
<1> HIDE DEF u
<1>7. Q \in Seq(Routes) /\ Q \in [D -> Routes] /\ Len(Q) = n /\ Q # << >>
      /\ \A i \in D : Q[i] = IF i = 1 THEN e ELSE P[i]
  <2>1. Q \in [D -> Routes] /\ \A i \in D : Q[i] = IF i = 1 THEN e ELSE P[i]
    BY <1>1, <1>3 DEF Moved, I
  <2> HIDE DEF Q
  <2>2. QED
    BY <1>1, <2>1 DEF D
<1> HIDE DEF Q
<1>8. /\ Tail(P) \in Seq(Routes) /\ Len(Tail(P)) = n - 1 /\ DOMAIN Tail(P) = 1 .. (n - 1)
      /\ \A i \in 1 .. (n - 1) : Tail(P)[i] = P[i + 1]
      /\ Tail(Q) \in Seq(Routes) /\ Len(Tail(Q)) = n - 1
      /\ \A i \in 1 .. (n - 1) : Tail(Q)[i] = Q[i + 1]
      /\ Head(Q) = Q[1]
  <2>1. /\ Tail(P) \in Seq(Routes) /\ Len(Tail(P)) = n - 1 /\ DOMAIN Tail(P) = 1 .. (n - 1)
        /\ \A i \in 1 .. (n - 1) : Tail(P)[i] = P[i + 1]
    BY <1>1 DEF n
  <2>2. /\ Tail(Q) \in Seq(Routes) /\ Len(Tail(Q)) = n - 1
        /\ \A i \in 1 .. (n - 1) : Tail(Q)[i] = Q[i + 1]
        /\ Head(Q) = Q[1]
    BY <1>7
  <2>3. QED
    BY <2>1, <2>2
<1>9. ASSUME NEW i \in 1 .. (n - 1) PROVE i + 1 \in D /\ i + 1 # 1
  BY <1>1 DEF D
<1>10. Tail(Q) = Tail(P) /\ Head(Q) = e
  <2>1. \A i \in 1 .. (n - 1) : Tail(Q)[i] = Tail(P)[i]
    BY <1>7, <1>8, <1>9
  <2>2. Tail(Q) = Tail(P)
    BY <1>8, <2>1, SeqEq
  <2>3. QED
    BY <1>1, <1>7, <1>8, <2>2
<1>11. \A q : /\ Cardinality(Hits(Tail(P), Through(q))) = Cardinality(Hits(Q, Through(q)))
              /\ Cardinality(Hits(Tail(P), With(q))) = Cardinality(Hits(Q, With(q)))
  <2>1. \A X : e \notin X => Cardinality(Hits(Tail(P), X)) = Cardinality(Hits(Q, X))
    <3>1. ASSUME NEW X, e \notin X
          PROVE  Cardinality(Hits(Tail(P), X)) = Cardinality(Hits(Q, X))
      <4>1. Cardinality(Hits(Q, X)) \in Nat
        BY <1>7, HitsFinite
      <4>2. Cardinality(Hits(Tail(Q), X)) = Cardinality(Hits(Q, X)) - IF Head(Q) \in X THEN 1 ELSE 0
        BY <1>7, HitsTail
      <4>3. (IF Head(Q) \in X THEN 1 ELSE 0) = 0
        BY <1>10, <3>1
      <4> DEFINE before == Cardinality(Hits(Q, X))
                 after == Cardinality(Hits(Tail(P), X))
                 lost == IF Head(Q) \in X THEN 1 ELSE 0
      <4>4. after = before - lost
        BY <1>10, <4>2
      <4>5. before \in Nat /\ lost = 0
        BY <4>1, <4>3
      <4> HIDE DEF before, after, lost
      <4>6. after = before
        BY <4>4, <4>5
      <4>7. QED
        BY <4>6 DEF before, after
    <3>2. QED
      BY <3>1
  <2>2. QED
    BY <1>3, <2>1
<1>12. ASSUME NEW i \in D, i # 1
       PROVE  i - 1 \in 1 .. (n - 1) /\ Tail(P)[i - 1] = Q[i] /\ Q[i] = P[i]
  <2>1. i - 1 \in 1 .. (n - 1) /\ (i - 1) + 1 = i
    BY <1>1, <1>12 DEF D
  <2>2. QED
    BY <1>7, <1>8, <1>12, <2>1
<1>13. AllWays(Tail(P)) = AllWays(Q)
  <2>1. ASSUME NEW i \in D PROVE Way(Q[i]) \subseteq AllWays(Tail(P))
    BY <1>3, <1>7, <1>8, <1>12 DEF AllWays
  <2>2. ASSUME NEW i \in 1 .. (n - 1) PROVE Way(Tail(P)[i]) \subseteq AllWays(Q)
    <3>1. Tail(P)[i] = Q[i + 1] /\ i + 1 \in DOMAIN Q
      BY <1>7, <1>8, <1>9, <1>10
    <3>2. QED
      BY <3>1 DEF AllWays
  <2>3. QED
    BY <1>7, <1>8, <2>1, <2>2 DEF AllWays
<1>14. Stands(u, Tail(P))
  <2>1. \A i \in 1 .. (n - 1) : On(Tail(P)[i]) \subseteq DOMAIN u.freq
    <3>1. \A i \in 1 .. (n - 1) : Tail(P)[i] = Q[i + 1] /\ i + 1 \in DOMAIN Q
      BY <1>7, <1>8, <1>9, <1>10
    <3>2. QED
      BY <1>6, <3>1 DEF Stands
  <2>2. QED
    BY <1>6, <1>8, <1>11, <1>13, <2>1 DEF Stands
<1>15. u = Remove(t, P[1])
  BY <1>4 DEF u, Remove, path
<1>16. QED
  BY <1>5, <1>14, <1>15

(* A sequence without repetition has as many elements as places.           *)
LEMMA DistinctCard ==
  ASSUME NEW T, NEW p \in Seq(T), Distinct(p)
  PROVE  IsFiniteSet(On(p)) /\ Cardinality(On(p)) = Len(p)
<1> DEFINE n == Len(p)
           f == [k \in 1 .. n |-> p[k]]
<1>1. p \in Seq(T) /\ Distinct(p) /\ n \in Nat /\ DOMAIN p = 1 .. n
  OBVIOUS
<1> HIDE DEF n
<1>2. IsFiniteSet(1 .. n) /\ Cardinality(1 .. n) = n
  BY <1>1, FS_Interval
<1>3. f \in [1 .. n -> On(p)] /\ \A k \in 1 .. n : f[k] = p[k]
  BY <1>1 DEF On
<1> HIDE DEF f
<1>4. \A j, k \in 1 .. n : f[j] = f[k] => j = k
  BY <1>1, <1>3 DEF Distinct
<1>5. \A x \in On(p) : \E k \in 1 .. n : f[k] = x
  BY <1>1, <1>3 DEF On
<1>6. f \in Bijection(1 .. n, On(p))
  BY <1>3, <1>4, <1>5 DEF Bijection, Injection, IsInjective, Surjection
<1>7. Cardinality(On(p)) = Cardinality(1 .. n) /\ IsFiniteSet(On(p))
  BY <1>2, <1>6, FS_Bijection DEF ExistsBijection
<1>8. QED
  BY <1>2, <1>7 DEF n

(* A route has as many items as nodes.                                     *)
LEMMA RouteCard ==
  ASSUME NEW p \in Routes
  PROVE  IsFiniteSet(On(p)) /\ Cardinality(On(p)) = Len(p)
BY DistinctCard DEF Routes

(* Two different paths of one length part before their end.                *)
LEMMA CommonDepthIs ==
  ASSUME NEW T, NEW from \in Seq(T), NEW to \in Seq(T), Len(from) = Len(to), from # to
  PROVE  LET k == CommonDepth(from, to)
         IN k \in 0 .. (Len(from) - 1) /\ Upto(from, k) = Upto(to, k)
<1> DEFINE n == Len(from)
           same == {k \in 0 .. n : Upto(from, k) = Upto(to, k)}
<1>1. n \in Nat /\ n = Len(to)
  BY SeqIs
<1>2. Upto(from, 0) = Upto(to, 0)
  <2>1. /\ Upto(from, 0) \in Seq(T) /\ Len(Upto(from, 0)) = 0
        /\ Upto(to, 0) \in Seq(T) /\ Len(Upto(to, 0)) = 0
    BY <1>1, UptoIs
  <2>2. QED
    BY <2>1, SeqEq
<1>3. n \notin same
  BY <1>1, UptoAll
<1>4. same \in SUBSET (0 .. n) /\ 0 \in same
  BY <1>1, <1>2
<1> HIDE DEF same, n
<1>5. PICK k \in same : \A m \in same : m <= k
  BY <1>1, <1>4, GreatestExists
<1>6. \A m \in same : k >= m
  BY <1>1, <1>4, <1>5
<1>7. \E x \in same : \A y \in same : x >= y
  BY <1>6
<1>8. Max(same) \in same
  BY <1>7 DEF Max
<1>9. CommonDepth(from, to) = Max(same)
  BY DEF CommonDepth, same, n
<1>10. Max(same) \in 0 .. (n - 1)
  <2>1. \A m \in same : m \in 0 .. n /\ m # n
    BY <1>3, <1>4
  <2>2. \A m \in 0 .. n : m # n => m \in 0 .. (n - 1)
    BY <1>1
  <2>3. QED
    BY <1>8, <2>1, <2>2, Zenon
<1>11. Upto(from, Max(same)) = Upto(to, Max(same))
  BY <1>8 DEF same
<1>12. QED
  BY <1>9, <1>10, <1>11 DEF n

(* A path that passes through a childless node ends there.                 *)
LEMMA LeafPaths ==
  ASSUME NEW D, IsFiniteSet(D), NEW P \in [D -> Routes], NEW leaf \in Childless(AllWays(P))
  PROVE  /\ leaf \in Routes /\ leaf # << >>
         /\ \A i \in D : leaf \in Way(P[i]) <=> P[i] = leaf
         /\ Hits(P, Through(leaf)) = {i \in D : P[i] = leaf}
         /\ {i \in D : P[i] = leaf} # {}
<1>1. leaf \in AllWays(P) /\ Children(AllWays(P), leaf) = {}
  BY DEF Childless
<1>2. leaf \in Routes /\ leaf # << >> /\ leaf \in Way(leaf) /\ leaf \in Seq(Nat)
      /\ Len(leaf) \in Nat
  <2>1. leaf \in Routes /\ leaf # << >> /\ leaf \in Seq(Nat)
    BY <1>1, AllWaysIs DEF Closed, Routes
  <2>2. QED
    BY <2>1, WayIs
<1>3. ASSUME NEW i \in D, leaf \in Way(P[i]), P[i] # leaf PROVE FALSE
  <2> DEFINE p == P[i]
             m == Len(leaf)
             child == Upto(p, m + 1)
  <2>1. p \in Routes /\ p \in Seq(Nat)
    BY DEF Routes
  <2> HIDE DEF p
  <2>2. m \in 1 .. Len(p) /\ leaf = Upto(p, m) /\ Len(p) \in Nat
    BY <1>3, <2>1, WayIs DEF p
  <2>3. m # Len(p)
    BY <1>3, <2>1, <2>2, UptoAll DEF p
  <2>4. m + 1 \in 1 .. Len(p) /\ m + 1 \in 0 .. Len(p) /\ m \in 0 .. (m + 1)
    BY <2>2, <2>3
  <2>5. child \in Seq(Nat) /\ Len(child) = m + 1 /\ child \in Way(p)
    BY <2>1, <2>4, UptoIs, WayIs
  <2>6. Upto(child, m) = leaf
    BY <2>1, <2>2, <2>4, UptoUpto
  <2>7. ParentOf(child) = leaf
    BY <2>2, <2>5, <2>6 DEF ParentOf
  <2>8. child \in AllWays(P)
    BY <2>5 DEF AllWays, p
  <2>9. QED
    BY <1>1, <2>7, <2>8 DEF Children
<1>4. \A i \in D : leaf \in Way(P[i]) <=> P[i] = leaf
  BY <1>2, <1>3
<1>5. Hits(P, Through(leaf)) = {i \in D : P[i] = leaf}
  BY <1>4 DEF Hits, Through
<1>6. Hits(P, Through(leaf)) # {}
  BY <1>1, <1>2, AllWaysIs
<1>7. QED
  BY <1>2, <1>4, <1>5, <1>6

(* The Removal of all that end at a leaf, and their insertion elsewhere:   *)
(* after it each leaf lies ahead of the iterator, or on the way to the new *)
(* path, or is one that lay behind it before.                              *)
LEMMA ReplaceStands ==
  ASSUME NEW D, IsFiniteSet(D), NEW P \in [D -> Routes], NEW t, Stands(t, P), Leafed(t),
         NEW from \in On(t.leaves), NEW to \in Routes, On(to) = On(from), to # from
  PROVE  LET u == Replace(t, from, to, t.count[from])
             I == {i \in D : P[i] = from}
         IN /\ I \in SUBSET D
            /\ Stands(u, Moved(P, I, to)) /\ Leafed(u)
            /\ DOMAIN u.freq = DOMAIN t.freq
            /\ u.next = 0 <=> t.next = 0
            /\ \A q \in On(u.leaves) :
                 q \in Ahead(u) \cup Way(to) \/ (q \in On(t.leaves) \ Ahead(t) /\ q # from)
<1> DEFINE I == {i \in D : P[i] = from}
           k == CommonDepth(from, to)
           mid == Upto(from, k)
           Q == Moved(P, I, mid)
           v == RemovePath(t, from, k, Cardinality(I))
           u == InsertPath(v, to, k, Cardinality(I))
<1>1. Nodes(t) = AllWays(P) /\ On(t.leaves) = Childless(Nodes(t)) /\ DOMAIN P = D
      /\ from \in Childless(AllWays(P))
  BY DEF Stands, Leafed, Nodes
<1>2. /\ from \in Routes /\ from # << >> /\ I # {} /\ I \in SUBSET D
      /\ \A i \in D : from \in Way(P[i]) <=> P[i] = from
      /\ Hits(P, Through(from)) = I
  BY <1>1, LeafPaths
<1>3. t.count[from] = Cardinality(I)
  <2>1. from \in AllWays(P)
    BY <1>1 DEF Childless
  <2>2. t.count = [q \in AllWays(P) |-> Cardinality(Hits(P, Through(q)))]
    BY DEF Stands
  <2> HIDE DEF I
  <2>3. QED
    BY <1>2, <2>1, <2>2
<1>4. from \in Seq(Nat) /\ to \in Seq(Nat) /\ Len(from) = Len(to)
  <2>1. Len(from) = Len(to)
    BY <1>2, RouteCard
  <2>2. QED
    BY <1>2, <2>1 DEF Routes
<1>5. k \in 0 .. (Len(from) - 1) /\ mid = Upto(to, k)
  BY <1>4, CommonDepthIs
<1> HIDE DEF k
<1>6. k \in 0 .. Len(from) /\ k \in 0 .. Len(to) /\ mid \in Routes /\ Len(mid) = k
      /\ from \notin Way(mid)
  <2>1. k \in 0 .. Len(from) /\ k \in 0 .. Len(to) /\ k < Len(from)
    BY <1>4, <1>5, SeqIs
  <2>2. mid \in Routes /\ Len(mid) = k
    BY <1>2, <1>4, <2>1, RouteUpto, UptoIs
  <2>3. ASSUME from \in Way(mid) PROVE FALSE
    <3>1. mid \in Seq(Nat)
      BY <2>2 DEF Routes
    <3>2. Len(from) \in 1 .. Len(mid)
      BY <2>3, <3>1, WayIs
    <3>3. QED
      BY <1>5, <2>1, <2>2, <3>2
  <2>4. QED
    BY <2>1, <2>2, <2>3
<1>7. \A i \in I : P[i] = from
  OBVIOUS
<1> HIDE DEF mid, I
<1>8. /\ Stands(v, Q) /\ Leafed(v)
      /\ DOMAIN v.freq = DOMAIN t.freq
      /\ v.next = 0 <=> t.next = 0
      /\ Childless(Nodes(v)) \subseteq Childless(Nodes(t)) \cup Ahead(v)
      /\ \A q \in Ahead(t) : q \in Ahead(v) \/ q \notin Nodes(v)
  BY <1>2, <1>5, <1>7, RemoveStands DEF mid
<1> HIDE DEF v
<1>9. Q \in [D -> Routes] /\ \A i \in D : Q[i] = IF i \in I THEN mid ELSE P[i]
  BY <1>1, <1>6 DEF Moved
<1>10. Moved(Q, I, to) = Moved(P, I, to)
  <2>1. DOMAIN Q = D
    BY <1>9
  <2>2. \A i \in D : ~ (i \in I) => Q[i] = P[i]
    BY <1>9
  <2> HIDE DEF Q
  <2>3. QED
    BY <1>1, <2>1, <2>2 DEF Moved
<1> HIDE DEF Q
<1>11. \A i \in I : Q[i] = Upto(to, k)
  BY <1>2, <1>5, <1>9
<1>12. /\ Stands(u, Moved(Q, I, to)) /\ Leafed(u)
       /\ DOMAIN u.freq = DOMAIN v.freq \cup On(to)
       /\ u.next = 0 <=> v.next = 0
       /\ Childless(Nodes(u)) \subseteq Childless(Nodes(v)) \cup {to}
       /\ \A q \in Ahead(v) : q \in Ahead(u) \/ q \in Way(to)
  BY <1>2, <1>6, <1>8, <1>9, <1>11, InsertStands
<1>13. u = Replace(t, from, to, t.count[from])
  BY <1>3 DEF u, v, k, Replace
<1> HIDE DEF u
<1>14. from \notin Nodes(v)
  <2>1. \A i \in D : from \notin Way(Q[i])
    BY <1>2, <1>6, <1>7, <1>9 DEF I
  <2>2. Nodes(v) = AllWays(Q) /\ DOMAIN Q = D
    BY <1>8, <1>9 DEF Stands, Nodes
  <2>3. QED
    BY <2>1, <2>2 DEF AllWays
<1>15. DOMAIN u.freq = DOMAIN t.freq
  <2>1. PICK i \in I : TRUE
    BY <1>2
  <2>2. On(from) \subseteq DOMAIN t.freq
    BY <1>1, <1>2, <1>7, <2>1 DEF Stands
  <2>3. QED
    BY <1>8, <1>12, <2>2
<1>16. to \in Way(to)
  <2>1. to # << >>
    BY <1>2, <1>4, SeqIs
  <2>2. QED
    BY <1>4, <2>1, WayIs
<1>17. ASSUME NEW q \in On(u.leaves)
       PROVE  q \in Ahead(u) \cup Way(to) \/ (q \in On(t.leaves) \ Ahead(t) /\ q # from)
  <2>1. q \in Childless(Nodes(u))
    BY <1>12 DEF Leafed
  <2>2. CASE q \in Ahead(v)
    BY <1>12, <2>2
  <2>3. CASE q = to
    BY <1>16, <2>3
  <2>4. CASE q \notin Ahead(v) /\ q # to
    <3>1. q \in Childless(Nodes(v))
      BY <1>12, <2>1, <2>4
    <3>2. q \in Nodes(v)
      BY <3>1 DEF Childless
    <3>3. q \in On(t.leaves) /\ q \notin Ahead(t) /\ q # from
      BY <1>1, <1>8, <1>14, <2>4, <3>1, <3>2
    <3>4. QED
      BY <3>3
  <2>5. QED
    BY <2>2, <2>3, <2>4
<1>18. QED
  BY <1>2, <1>8, <1>10, <1>12, <1>13, <1>15, <1>17 DEF I
(* The paths a tree stands for, but for the order of the items on each.    *)
Resorted(P, Q) == DOMAIN Q = DOMAIN P /\ \A i \in DOMAIN P : On(Q[i]) = On(P[i])

(* Trees that stand for paths with the same items count items the same.    *)
LEMMA SameFrequencies ==
  ASSUME NEW D, NEW P \in [D -> Routes], NEW Q \in [D -> Routes], Resorted(P, Q),
         NEW t, Stands(t, P), NEW u, Stands(u, Q), DOMAIN u.freq = DOMAIN t.freq
  PROVE  u.freq = t.freq
<1>1. DOMAIN P = D /\ DOMAIN Q = D /\ \A i \in D : P[i] \in Routes /\ Q[i] \in Routes
  OBVIOUS
<1>2. \A i \in D : On(Q[i]) = On(P[i])
  BY <1>1 DEF Resorted
<1>3. \A x : Hits(Q, With(x)) = Hits(P, With(x))
  BY <1>1, <1>2 DEF Hits, With
<1>4. /\ t.freq = [x \in DOMAIN t.freq |-> Cardinality(Hits(P, With(x)))]
      /\ u.freq = [x \in DOMAIN u.freq |-> Cardinality(Hits(Q, With(x)))]
  BY DEF Stands
<1>5. u.freq = [x \in DOMAIN t.freq |-> Cardinality(Hits(P, With(x)))]
  BY <1>3, <1>4, Zenon
<1>6. QED
  BY <1>4, <1>5, Zenon

(* A turn of Sort's loop: the leaf's path and all that end there are       *)
(* sorted; a leaf behind the iterator is in order unless it was there      *)
(* before, out of order.                                                   *)
LEMMA SortPathStands ==
  ASSUME NEW D, IsFiniteSet(D), NEW P \in [D -> Routes], NEW t, Stands(t, P), Leafed(t),
         NEW leaf \in On(t.leaves), NEW table, IsTable(table)
  PROVE  LET u == SortPath(t, leaf, table)
         IN \E Q \in [D -> Routes] :
              /\ Resorted(P, Q) /\ Stands(u, Q) /\ Leafed(u) /\ u.freq = t.freq
              /\ u.next = 0 <=> t.next = 0
              /\ \A q \in On(u.leaves) :
                   \/ q \in Ahead(u) \/ Ordered(q, table)
                   \/ q \in On(t.leaves) \ Ahead(t) /\ q # leaf
<1> DEFINE to == SortItems(On(leaf), table)
           u == SortPath(t, leaf, table)
           Wanted(Q) == /\ Resorted(P, Q) /\ Stands(u, Q) /\ Leafed(u) /\ u.freq = t.freq
                        /\ u.next = 0 <=> t.next = 0
                        /\ \A q \in On(u.leaves) :
                             \/ q \in Ahead(u) \/ Ordered(q, table)
                             \/ q \in On(t.leaves) \ Ahead(t) /\ q # leaf
<1>1. leaf \in Routes /\ leaf \in Seq(Nat)
  BY SeqIs DEF Leafed, IsList, On, Routes
<1>2. On(leaf) \in SUBSET Nat /\ IsFiniteSet(On(leaf))
  <2>1. On(leaf) \in SUBSET Nat
    BY <1>1 DEF On
  <2>2. QED
    BY <1>1, <2>1, RouteCard
<1>3. to \in Routes /\ On(to) = On(leaf) /\ Ordered(to, table)
  BY <1>2, SortItemsIs
<1>4. u = IF to = leaf THEN t ELSE Replace(t, leaf, to, t.count[leaf])
  BY DEF SortPath, On
<1> HIDE DEF to, u
<1>5. DOMAIN P = D
  OBVIOUS
<1>6. CASE to = leaf
  <2>1. u = t
    BY <1>4, <1>6
  <2>2. \A q \in On(t.leaves) :
           \/ q \in Ahead(t) \/ Ordered(q, table)
           \/ q \in On(t.leaves) \ Ahead(t) /\ q # leaf
    BY <1>3, <1>6
  <2>3. Wanted(P)
    BY <2>1, <2>2 DEF Resorted
  <2>4. QED
    BY <2>3 DEF u
<1>7. CASE to # leaf
  <2> DEFINE I == {i \in D : P[i] = leaf}
             Q == Moved(P, I, to)
  <2>1. u = Replace(t, leaf, to, t.count[leaf])
    BY <1>4, <1>7
  <2>2. /\ I \in SUBSET D
        /\ Stands(u, Q) /\ Leafed(u)
        /\ DOMAIN u.freq = DOMAIN t.freq
        /\ u.next = 0 <=> t.next = 0
        /\ \A q \in On(u.leaves) :
              q \in Ahead(u) \cup Way(to) \/ (q \in On(t.leaves) \ Ahead(t) /\ q # leaf)
    BY <1>3, <1>7, <2>1, ReplaceStands
  <2>3. Q \in [D -> Routes] /\ \A i \in D : Q[i] = IF i \in I THEN to ELSE P[i]
    BY <1>3, <1>5 DEF Moved
  <2>4. \A i \in I : P[i] = leaf
    OBVIOUS
  <2> HIDE DEF Q, I
  <2>5. Resorted(P, Q)
    BY <1>3, <1>5, <2>3, <2>4 DEF Resorted
  <2>6. u.freq = t.freq
    BY <2>2, <2>3, <2>5, SameFrequencies
  <2>7. to \in Seq(Nat)
    BY <1>3 DEF Routes
  <2>8. \A q \in Way(to) : Ordered(q, table)
    BY <1>3, <2>7, OrderedUpto
  <2>9. Wanted(Q)
    BY <2>2, <2>5, <2>6, <2>8
  <2>10. QED
    BY <2>3, <2>9 DEF u
<1>8. QED
  BY <1>6, <1>7-----------------------------------------------------------------------------
(* What a tree holds.                                                      *)

(* A finite family of paths has finitely many nodes.                       *)
LEMMA NodesFinite ==
  ASSUME NEW D, IsFiniteSet(D), NEW P \in [D -> Routes]
  PROVE  IsFiniteSet(AllWays(P))
<1>1. DOMAIN P = D
  OBVIOUS
<1>2. ASSUME NEW p \in Routes PROVE IsFiniteSet(Way(p))
  <2>1. p \in Seq(Nat) /\ 0 \in 0 .. Len(p)
    BY SeqIs DEF Routes
  <2>2. Way(p) = Below(p, 0)
    BY DEF Way, Below
  <2>3. QED
    BY <2>1, <2>2, BelowCard
<1> DEFINE f == [i \in D |-> Way(P[i])]
           ways == {f[i] : i \in D}
<1>3. IsFiniteSet(ways)
  <2>1. f \in Surjection(D, ways)
    BY DEF Surjection
  <2> HIDE DEF f, ways
  <2>2. QED
    BY <2>1, FS_Surjection
<1>4. \A w \in ways : IsFiniteSet(w)
  BY <1>2
<1>5. UNION ways = AllWays(P)
  BY <1>1 DEF AllWays
<1> HIDE DEF ways
<1>6. QED
  BY <1>3, <1>4, <1>5, FS_UNION

(* What EndingAt subtracts: the sum of the counts of the nodes S.          *)
Total(f, S) ==
  LET iter[s \in SUBSET S] ==
        IF s = {} THEN 0
        ELSE LET x == CHOOSE x \in s : TRUE IN f[x] + iter[s \ {x}]
  IN iter[S]

(* It is a sum.                                                            *)
LEMMA TotalIs ==
  ASSUME NEW S, IsFiniteSet(S), NEW f
  PROVE  \E g : Sums(g, f, S) /\ Total(f, S) = g[S]
<1> DEFINE g == CHOOSE g : Sums(g, f, S)
<1>1. Sums(g, f, S)
  BY SumExists
<1>2. Total(f, S) = g[S]
  BY DEF Total, Sums
<1>3. QED
  BY <1>1, <1>2

(* What Holds sums for the nodes S.                                        *)
Endings(t, S) ==
  LET iter[s \in SUBSET S] ==
        IF s = {} THEN 0
        ELSE LET x == CHOOSE x \in s : TRUE IN EndingAt(t, x) + iter[s \ {x}]
  IN iter[S]

(* It is a sum, too.                                                       *)
LEMMA EndingsIs ==
  ASSUME NEW S, IsFiniteSet(S), NEW t
  PROVE  \E g : Sums(g, [p \in S |-> EndingAt(t, p)], S) /\ Endings(t, S) = g[S]
<1> DEFINE f == [p \in S |-> EndingAt(t, p)]
           pick(s) == CHOOSE x \in s : TRUE
           Adds(g) == g = [s \in SUBSET S |->
                             IF s = {} THEN 0
                             ELSE EndingAt(t, pick(s)) + g[s \ {pick(s)}]]
           g == CHOOSE g : Adds(g)
<1>1. \A s \in SUBSET S : s # {} => f[pick(s)] = EndingAt(t, pick(s))
  <2>1. \A s \in SUBSET S : s # {} => pick(s) \in s
    OBVIOUS
  <2> HIDE DEF pick
  <2>2. QED
    BY <2>1
<1>2. \A h : Sums(h, f, S) <=> Adds(h)
  <2>1. ASSUME NEW h
        PROVE  Sums(h, f, S) <=>
                 h = [s \in SUBSET S |-> IF s = {} THEN 0 ELSE f[pick(s)] + h[s \ {pick(s)}]]
    BY DEF Sums
  <2>2. ASSUME NEW h
        PROVE  [s \in SUBSET S |-> IF s = {} THEN 0 ELSE f[pick(s)] + h[s \ {pick(s)}]]
                 = [s \in SUBSET S |->
                      IF s = {} THEN 0 ELSE EndingAt(t, pick(s)) + h[s \ {pick(s)}]]
    <3> HIDE DEF pick, f
    <3>1. QED
      BY <1>1
  <2> HIDE DEF pick, f
  <2>3. QED
    BY <2>1, <2>2
<1>3. \E h : Sums(h, f, S)
  BY SumExists
<1>4. Endings(t, S) = g[S]
  BY DEF Endings
<1> HIDE DEF f, Adds
<1>5. Adds(g)
  BY <1>2, <1>3
<1>6. Sums(g, f, S)
  BY <1>2, <1>5
<1> HIDE DEF g
<1>7. QED
  BY <1>4, <1>6 DEF f
(* Of the paths through a node, those that end there.                      *)
LEMMA EndingAtIs ==
  ASSUME NEW D, IsFiniteSet(D), NEW P \in [D -> Routes], NEW t, Stands(t, P),
         NEW p \in Nodes(t)
  PROVE  EndingAt(t, p) = Cardinality({i \in D : P[i] = p})
<1> DEFINE m == Len(p)
           S == Children(Nodes(t), p)
           F == [i \in D |-> IF m < Len(P[i]) THEN Upto(P[i], m + 1) ELSE << >>]
           through == {i \in D : p \in Way(P[i])}
           ending == {i \in D : P[i] = p}
           going == {i \in D : F[i] \in S}
<1>1. Nodes(t) = AllWays(P) /\ DOMAIN P = D /\ IsFiniteSet(Nodes(t)) /\ Closed(Nodes(t))
  <2>1. Nodes(t) = AllWays(P) /\ DOMAIN P = D
    BY DEF Stands, Nodes
  <2>2. QED
    BY <2>1, NodesFinite, AllWaysIs
<1>2. p \in Routes /\ p # << >> /\ p \in Seq(Nat) /\ m \in Nat \ {0} /\ p \in Way(p)
  <2>1. p \in Routes /\ p # << >> /\ p \in Seq(Nat)
    BY <1>1 DEF Closed, Routes
  <2>2. QED
    BY <2>1, SeqIs, WayIs
<1>3. \A i \in D : P[i] \in Routes /\ P[i] \in Seq(Nat) /\ Len(P[i]) \in Nat
  BY SeqIs DEF Routes
<1>4. \A q \in Nodes(t) : t.count[q] = Cardinality({i \in D : q \in Way(P[i])})
  <2>1. t.count = [q \in AllWays(P) |-> Cardinality(Hits(P, Through(q)))]
    BY DEF Stands
  <2>2. \A q : Hits(P, Through(q)) = {i \in D : q \in Way(P[i])}
    BY <1>1, <1>3 DEF Hits, Through
  <2>3. \A q \in AllWays(P) : t.count[q] = Cardinality(Hits(P, Through(q)))
    BY <2>1
  <2>4. QED
    BY <1>1, <2>2, <2>3, Zenon
<1>5. EndingAt(t, p) = t.count[p] - Total(t.count, S)
  BY DEF EndingAt, MapThenSumSet, MapThenFoldSet, Total
<1>6. IsFiniteSet(S) /\ S \subseteq Nodes(t)
  <2>1. S \subseteq Nodes(t)
    BY DEF Children
  <2>2. QED
    BY <1>1, <2>1, FS_Subset
<1>7. \A q \in S : /\ q \in Seq(Nat) /\ Len(q) = m + 1 /\ q # << >>
                    /\ ParentOf(q) = p
  <2>1. ASSUME NEW q \in S
        PROVE  q \in Seq(Nat) /\ Len(q) = m + 1 /\ q # << >> /\ ParentOf(q) = p
    <3>1. q \in Nodes(t) /\ ParentOf(q) = p
      BY DEF Children
    <3>2. q \in Seq(Nat) /\ q # << >>
      BY <1>1, <3>1 DEF Closed, Routes
    <3>3. Len(p) = Len(q) - 1
      BY <3>1, <3>2, ParentIs
    <3>4. QED
      BY <3>1, <3>2, <3>3, SeqIs
  <2>2. QED
    BY <2>1
<1>8. ASSUME NEW i \in D, NEW q \in S PROVE q \in Way(P[i]) <=> F[i] = q
  <2> DEFINE r == P[i]
  <2>1. r \in Seq(Nat) /\ Len(r) \in Nat
    BY <1>3
  <2>2. F[i] = IF m < Len(r) THEN Upto(r, m + 1) ELSE << >>
    OBVIOUS
  <2> HIDE DEF r, F
  <2>3. q \in Way(r) => m < Len(r) /\ q = Upto(r, m + 1)
    <3>1. SUFFICES ASSUME q \in Way(r) PROVE m < Len(r) /\ q = Upto(r, m + 1)
      OBVIOUS
    <3>2. Len(q) \in 1 .. Len(r) /\ q = Upto(r, Len(q))
      BY <2>1, <3>1, WayIs
    <3> HIDE DEF m
    <3>3. QED
      BY <1>2, <1>7, <2>1, <3>2
  <2>4. m < Len(r) => Upto(r, m + 1) \in Way(r)
    <3>1. SUFFICES ASSUME m < Len(r) PROVE Upto(r, m + 1) \in Way(r)
      OBVIOUS
    <3>2. m + 1 \in 1 .. Len(r)
      BY <1>2, <2>1, <3>1
    <3>3. QED
      BY <2>1, <3>2, WayIs
  <2> HIDE DEF m
  <2>5. QED
    BY <1>7, <2>2, <2>3, <2>4 DEF r
<1>9. Total(t.count, S) = Cardinality(going)
  <2>1. PICK g : Sums(g, t.count, S) /\ Total(t.count, S) = g[S]
    BY <1>6, TotalIs
  <2>2. ASSUME NEW q \in S PROVE t.count[q] = Cardinality({i \in D : F[i] = q})
    <3>1. {i \in D : q \in Way(P[i])} = {i \in D : F[i] = q}
      BY <1>8
    <3>2. QED
      BY <1>4, <1>6, <3>1
  <2> HIDE DEF F, S
  <2>3. CountsValues(t.count, D, F, S)
    BY <2>2 DEF CountsValues
  <2>4. g[S] = Cardinality({i \in D : F[i] \in S})
    BY <1>6, <2>1, <2>3, SumFibers
  <2>5. QED
    BY <2>1, <2>4
<1>10. ASSUME NEW i \in D PROVE F[i] \in S <=> p \in Way(P[i]) /\ P[i] # p
  <2> DEFINE r == P[i]
             q == Upto(r, m + 1)
  <2>1. r \in Seq(Nat) /\ Len(r) \in Nat /\ r \in Routes
    BY <1>3
  <2>2. F[i] = IF m < Len(r) THEN q ELSE << >>
    OBVIOUS
  <2>3. << >> \notin S
    BY <1>7
  <2>4. \A x : x \in S <=> x \in Nodes(t) /\ ParentOf(x) = p
    BY DEF Children
  <2>5. m < Len(r) => /\ q \in Seq(Nat) /\ Len(q) = m + 1 /\ q \in Nodes(t)
                      /\ ParentOf(q) = Upto(r, m)
    <3>1. SUFFICES ASSUME m < Len(r)
                   PROVE  /\ q \in Seq(Nat) /\ Len(q) = m + 1 /\ q \in Nodes(t)
                          /\ ParentOf(q) = Upto(r, m)
      OBVIOUS
    <3> HIDE DEF r, m
    <3>2. m + 1 \in 0 .. Len(r) /\ m + 1 \in 1 .. Len(r) /\ m \in 0 .. (m + 1)
          /\ (m + 1) - 1 = m
      BY <1>2, <2>1, <3>1
    <3>3. q \in Seq(Nat) /\ Len(q) = m + 1 /\ q \in Way(r)
      BY <2>1, <3>2, UptoIs, WayIs
    <3>4. ParentOf(q) = Upto(q, m)
      BY <3>2, <3>3 DEF ParentOf
    <3>5. Upto(q, m) = Upto(r, m)
      BY <2>1, <3>2, UptoUpto
    <3>6. q \in Nodes(t)
      BY <1>1, <3>3 DEF AllWays, r
    <3>7. QED
      BY <3>3, <3>4, <3>5, <3>6
  <2>6. p \in Way(r) <=> m <= Len(r) /\ p = Upto(r, m)
    <3>1. p \in Way(r) => m <= Len(r) /\ p = Upto(r, m)
      BY <2>1, WayIs
    <3>2. m <= Len(r) => Upto(r, m) \in Way(r)
      <4>1. m <= Len(r) => m \in 1 .. Len(r)
        BY <1>2, <2>1
      <4>2. QED
        BY <2>1, <4>1, WayIs
    <3>3. QED
      BY <3>1, <3>2
  <2>7. r = p => ~ (m < Len(r))
    BY <1>2
  <2>8. m = Len(r) => Upto(r, m) = r
    BY <2>1, UptoAll
  <2> HIDE DEF r, q, S, F, m
  <2>9. CASE m < Len(r)
    BY <1>2, <2>1, <2>2, <2>4, <2>5, <2>6, <2>7, <2>9 DEF r
  <2>10. CASE ~ (m < Len(r))
    <3>1. m <= Len(r) => m = Len(r)
      BY <1>2, <2>1, <2>10
    <3>2. QED
      BY <2>2, <2>3, <2>6, <2>8, <2>10, <3>1 DEF r
  <2>11. QED
    BY <2>9, <2>10
<1>11. through = going \cup ending /\ going \cap ending = {}
  <2>1. \A i \in D : P[i] = p => p \in Way(P[i])
    BY <1>2
  <2> HIDE DEF F, S
  <2>2. QED
    BY <1>10, <2>1
<1>12. /\ IsFiniteSet(going) /\ IsFiniteSet(ending)
       /\ Cardinality(going) \in Nat /\ Cardinality(ending) \in Nat
  <2>1. IsFiniteSet(going) /\ IsFiniteSet(ending)
    BY FS_Subset
  <2> HIDE DEF going, ending
  <2>2. QED
    BY <2>1, FS_CardinalityType
<1> HIDE DEF going, ending, S
<1>13. Cardinality(through) = Cardinality(going) + Cardinality(ending)
  <2>1. Cardinality(going \cap ending) = 0
    BY <1>11, FS_EmptySet
  <2>2. Cardinality(going \cup ending)
          = Cardinality(going) + Cardinality(ending) - Cardinality(going \cap ending)
    BY <1>12, FS_Union
  <2> HIDE DEF through
  <2>3. QED
    BY <1>11, <1>12, <2>1, <2>2
<1>14. t.count[p] = Cardinality(through)
  BY <1>4
<1>15. QED
  BY <1>5, <1>9, <1>12, <1>13, <1>14 DEF ending

(* A tree holds a set of items as often as it is the items of a path.      *)
LEMMA HoldsIs ==
  ASSUME NEW D, IsFiniteSet(D), NEW P \in [D -> Routes], NEW t, Stands(t, P),
         NEW S, S # {}
  PROVE  Holds(t, S) = Cardinality({i \in D : On(P[i]) = S})
<1> DEFINE with == {p \in Nodes(t) : On(p) = S}
           ends == [p \in with |-> EndingAt(t, p)]
<1>1. Holds(t, S) = Endings(t, with)
  BY DEF Holds, MapThenSumSet, MapThenFoldSet, Endings, On
<1>2. Nodes(t) = AllWays(P) /\ DOMAIN P = D /\ IsFiniteSet(with)
  <2>1. Nodes(t) = AllWays(P) /\ DOMAIN P = D
    BY DEF Stands, Nodes
  <2>2. IsFiniteSet(AllWays(P))
    BY NodesFinite
  <2>3. QED
    BY <2>1, <2>2, FS_Subset
<1>3. \A p \in with : ends[p] = Cardinality({i \in D : P[i] = p})
  BY EndingAtIs
<1>4. \A i \in D : On(P[i]) = S <=> P[i] \in with
  <2>1. ASSUME NEW i \in D, On(P[i]) = S PROVE P[i] \in Nodes(t)
    <3>1. P[i] \in Seq(Nat) /\ P[i] # << >>
      BY <2>1, NoPath DEF Routes
    <3>2. P[i] \in Way(P[i])
      BY <3>1, WayIs
    <3>3. QED
      BY <1>2, <3>2 DEF AllWays
  <2>2. QED
    BY <2>1
<1> HIDE DEF with
<1>5. PICK sum : Sums(sum, ends, with) /\ Endings(t, with) = sum[with]
  BY <1>2, EndingsIs
<1> HIDE DEF ends
<1>6. CountsValues(ends, D, P, with)
  BY <1>3 DEF CountsValues
<1>7. sum[with] = Cardinality({i \in D : P[i] \in with})
  BY <1>2, <1>5, <1>6, SumFibers
<1>8. {i \in D : P[i] \in with} = {i \in D : On(P[i]) = S}
  BY <1>4
<1>9. QED
  BY <1>1, <1>5, <1>7, <1>8
=============================================================================
