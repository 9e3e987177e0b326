-------------------------- MODULE StreamTreeProofs --------------------------
(***************************************************************************)
(* Proofs about StreamTree for every functor, length, interval, number of  *)
(* items and set of scores: that the tree holds the window, that its leaf  *)
(* list and its order are right, when it is mined, and that the counts of  *)
(* the disc tree are the window's.                                         *)
(***************************************************************************)
EXTENDS StreamTree, FPTreeProofs

(* A tree keeps a window: it stands for paths of the window's items.       *)
Spells(P, W) ==
  P \in Seq(Routes) /\ Len(P) = Len(W) /\ \A i \in 1 .. Len(W) : On(P[i]) = W[i]

Keeps(t, W) == Leafed(t) /\ \E P : Spells(P, W) /\ Stands(t, P)

(* Windows of transactions over the items 1 to N.                          *)
Windows(N) == Seq((SUBSET (1 .. N)) \ {{}})

InOrder(t, table) == \A p \in Nodes(t) : Ordered(p, table)

(* Sort's iterator has left the leaves behind it in order, but for held.   *)
SortedBehind(t, table, held) ==
  \A p \in On(t.leaves) : p \in Ahead(t) \/ p = held \/ Ordered(p, table)

(* The facts about such paths that the proofs use.                         *)
LEMMA PathsIs ==
  ASSUME NEW N \in Nat, NEW W \in Windows(N), NEW P, Spells(P, W)
  PROVE  /\ Len(W) \in Nat /\ DOMAIN W = 1 .. Len(W) /\ DOMAIN P = 1 .. Len(W)
         /\ P \in [1 .. Len(W) -> Routes] /\ P \in Seq(Routes) /\ IsFiniteSet(1 .. Len(W))
         /\ \A i \in 1 .. Len(W) : /\ P[i] \in Routes /\ On(P[i]) = W[i] /\ P[i] # << >>
                                  /\ W[i] \subseteq 1 .. N /\ W[i] # {}
<1>1. /\ P \in Seq(Routes) /\ Len(P) = Len(W)
      /\ \A i \in 1 .. Len(W) : On(P[i]) = W[i]
  BY DEF Spells
<1>2. Len(W) \in Nat /\ DOMAIN W = 1 .. Len(W)
      /\ \A i \in 1 .. Len(W) : W[i] \subseteq 1 .. N /\ W[i] # {}
  BY SeqIs DEF Windows
<1>3. DOMAIN P = 1 .. Len(W) /\ \A i \in 1 .. Len(W) : P[i] \in Routes
  BY <1>1, SeqIs
<1>4. P \in [1 .. Len(W) -> Routes]
  BY <1>1, <1>3
<1>5. IsFiniteSet(1 .. Len(W))
  BY <1>2, FS_Interval
<1>6. \A i \in 1 .. Len(W) : P[i] # << >>
  BY <1>1, <1>2, NoPath
<1>7. QED
  BY <1>1, <1>2, <1>3, <1>4, <1>5, <1>6

(* The nodes of a tree, its counts and its frequencies.                    *)
LEMMA KeptNodes ==
  ASSUME NEW N \in Nat, NEW W \in Windows(N), NEW t, Keeps(t, W)
  PROVE  /\ \A p \in Nodes(t) : /\ p \in Routes /\ p # << >> /\ On(p) \subseteq 1 .. N
                               /\ Len(p) \in 1 .. N
                               /\ On(p) \subseteq DOMAIN t.freq
                               /\ t.count[p] \in 1 .. Len(W)
         /\ Closed(Nodes(t))
         /\ \A x \in DOMAIN t.freq :
              /\ t.freq[x] = Cardinality({k \in DOMAIN W : x \in W[k]})
              /\ t.freq[x] \in 0 .. Len(W)
         /\ \A S : S # {} => Holds(t, S) = Cardinality({i \in DOMAIN W : W[i] = S})
<1> DEFINE D == 1 .. Len(W)
<1>1. PICK P : Spells(P, W) /\ Stands(t, P)
  BY DEF Keeps
<1>2. /\ Len(W) \in Nat /\ DOMAIN W = D /\ DOMAIN P = D
      /\ P \in [D -> Routes] /\ P \in Seq(Routes) /\ IsFiniteSet(D)
      /\ \A i \in D : /\ P[i] \in Routes /\ On(P[i]) = W[i] /\ P[i] # << >>
                      /\ W[i] \subseteq 1 .. N /\ W[i] # {}
  BY <1>1, PathsIs
<1> HIDE DEF D
<1>3. Len(P) = Len(W)
  BY <1>1 DEF Spells
<1>4. Nodes(t) = AllWays(P) /\ Closed(Nodes(t))
  <2>1. Nodes(t) = AllWays(P)
    BY <1>1 DEF Stands, Nodes
  <2>2. QED
    BY <1>2, <2>1, AllWaysIs
<1>5. ASSUME NEW X
      PROVE  Cardinality(Hits(P, X)) \in 0 .. Len(W)
  <2>1. Cardinality(Hits(P, X)) \in Nat /\ Cardinality(Hits(P, X)) <= Len(P)
    BY <1>2, HitsFinite
  <2> HIDE DEF Hits
  <2>2. QED
    BY <1>2, <1>3, <2>1
<1>6. ASSUME NEW p \in Nodes(t)
      PROVE  /\ p \in Routes /\ p # << >> /\ On(p) \subseteq 1 .. N
             /\ Len(p) \in 1 .. N
             /\ On(p) \subseteq DOMAIN t.freq
             /\ t.count[p] \in 1 .. Len(W)
  <2>1. p \in Routes /\ p # << >> /\ p \in Seq(Nat)
    BY <1>4 DEF Closed, Routes
  <2>2. PICK i \in D : p \in Way(P[i])
    BY <1>2, <1>4 DEF AllWays
  <2>3. On(p) \subseteq On(P[i])
    <3>1. P[i] \in Seq(Nat)
      BY <1>2 DEF Routes
    <3>2. Len(p) \in 1 .. Len(P[i]) /\ p = Upto(P[i], Len(p))
      BY <2>2, <3>1, WayIs
    <3>3. P[i] \in Routes /\ Len(p) \in 0 .. Len(P[i])
      BY <1>2, <3>2
    <3>4. On(P[i]) = On(Upto(P[i], Len(p))) \cup {P[i][j] : j \in (Len(p) + 1) .. Len(P[i])}
      BY <3>3, OnParts
    <3>5. QED
      BY <3>2, <3>4
  <2>4. On(p) \subseteq 1 .. N /\ On(p) \subseteq DOMAIN t.freq
    BY <1>1, <1>2, <2>3 DEF Stands
  <2>5. Len(p) \in 1 .. N
    <3>1. Len(p) <= N
      BY <2>1, <2>4, RouteLength
    <3>2. Len(p) \in Nat /\ Len(p) # 0
      BY <2>1, SeqIs
    <3>3. QED
      BY <3>1, <3>2
  <2>6. t.count[p] = Cardinality(Hits(P, Through(p)))
    <3>1. t.count = [q \in AllWays(P) |-> Cardinality(Hits(P, Through(q)))]
      BY <1>1 DEF Stands
    <3>2. QED
      BY <1>4, <3>1
  <2>7. Cardinality(Hits(P, Through(p))) # 0
    <3>1. p \in AllWays(P)
      BY <1>4
    <3>2. Hits(P, Through(p)) # {}
      BY <1>2, <2>1, <3>1, AllWaysIs
    <3>3. QED
      BY <1>2, <3>2, AllWaysIs
  <2>8. t.count[p] \in 1 .. Len(W)
    BY <1>2, <1>5, <2>6, <2>7
  <2>9. QED
    BY <2>1, <2>4, <2>5, <2>8
<1>7. ASSUME NEW x \in DOMAIN t.freq
      PROVE  /\ t.freq[x] = Cardinality({k \in DOMAIN W : x \in W[k]})
             /\ t.freq[x] \in 0 .. Len(W)
  <2>1. t.freq[x] = Cardinality(Hits(P, With(x)))
    <3>1. t.freq = [y \in DOMAIN t.freq |-> Cardinality(Hits(P, With(y)))]
      BY <1>1 DEF Stands
    <3>2. QED
      BY <3>1
  <2>2. Hits(P, With(x)) = {k \in DOMAIN W : x \in W[k]}
    BY <1>2 DEF Hits, With
  <2>3. QED
    BY <1>5, <2>1, <2>2
<1>8. ASSUME NEW S, S # {}
      PROVE  Holds(t, S) = Cardinality({i \in DOMAIN W : W[i] = S})
  <2>1. Holds(t, S) = Cardinality({i \in D : On(P[i]) = S})
    BY <1>1, <1>2, <1>8, HoldsIs
  <2>2. {i \in D : On(P[i]) = S} = {i \in DOMAIN W : W[i] = S}
    BY <1>2
  <2>3. QED
    BY <2>1, <2>2
<1>9. QED
  BY <1>4, <1>6, <1>7, <1>8
(* The items of a transaction, sorted.                                     *)
LEMMA TransactionPath ==
  ASSUME NEW N \in Nat, NEW txn \in (SUBSET (1 .. N)) \ {{}}, NEW table, IsTable(table)
  PROVE  LET way == SortItems(txn, table)
         IN way \in Routes /\ On(way) = txn /\ Ordered(way, table)
<1>1. txn \in SUBSET Nat /\ IsFiniteSet(txn)
  <2>1. IsFiniteSet(1 .. N) /\ txn \subseteq 1 .. N
    BY FS_Interval
  <2>2. IsFiniteSet(txn)
    BY <2>1, FS_Subset, Zenon
  <2>3. QED
    BY <2>1, <2>2
<1>2. QED
  BY <1>1, SortItemsIs

(* Loading a transaction.                                                  *)
LEMMA KeepsLoad ==
  ASSUME NEW N \in Nat, NEW W \in Windows(N), NEW t, Keeps(t, W),
         NEW txn \in (SUBSET (1 .. N)) \ {{}}, NEW table, IsTable(table), InOrder(t, table)
  PROVE  LET u == Insert(t, SortItems(txn, table))
         IN /\ Append(W, txn) \in Windows(N) /\ Len(Append(W, txn)) = Len(W) + 1
            /\ Keeps(u, Append(W, txn)) /\ InOrder(u, table)
            /\ DOMAIN u.freq = DOMAIN t.freq \cup txn
<1> DEFINE way == SortItems(txn, table)
           u == Insert(t, way)
           n == Len(W)
<1>1. way \in Routes /\ On(way) = txn /\ Ordered(way, table)
  BY TransactionPath
<1> HIDE DEF way
<1>2. PICK P : Spells(P, W) /\ Stands(t, P)
  BY DEF Keeps
<1>3. Leafed(t)
  BY DEF Keeps
<1>4. /\ n \in Nat /\ DOMAIN P = 1 .. n /\ P \in Seq(Routes) /\ Len(P) = n
      /\ \A i \in 1 .. n : On(P[i]) = W[i] /\ P[i] \in Routes
  BY <1>2, PathsIs DEF Spells
<1> DEFINE R == Append(P, way)
           V == Append(W, txn)
<1>5. /\ Stands(u, R) /\ Leafed(u)
      /\ DOMAIN u.freq = DOMAIN t.freq \cup On(way)
  BY <1>1, <1>2, <1>3, <1>4, InsertTree
<1> HIDE DEF u
<1>6. /\ R \in Seq(Routes) /\ Len(R) = n + 1
      /\ \A i \in 1 .. (n + 1) : R[i] = IF i <= n THEN P[i] ELSE way
  BY <1>1, <1>4, Appended
<1>7. /\ V \in Windows(N) /\ Len(V) = n + 1
      /\ \A i \in 1 .. (n + 1) : V[i] = IF i <= n THEN W[i] ELSE txn
  BY Appended DEF Windows
<1> HIDE DEF R, V
<1>8. Spells(R, V)
  <2>1. ASSUME NEW i \in 1 .. (n + 1) PROVE On(R[i]) = V[i]
    <3>1. i <= n => i \in 1 .. n
      BY <1>4
    <3>2. QED
      BY <1>1, <1>4, <1>6, <1>7, <3>1
  <2> HIDE DEF n
  <2>2. QED
    BY <1>6, <1>7, <2>1 DEF Spells
<1>9. Keeps(u, V)
  BY <1>5, <1>8 DEF Keeps
<1>10. InOrder(u, table)
  <2>1. SUFFICES ASSUME NEW p \in Nodes(u) PROVE Ordered(p, table)
    BY DEF InOrder
  <2>2. Nodes(u) = AllWays(R)
    BY <1>5 DEF Stands, Nodes
  <2>3. PICK i \in DOMAIN R : p \in Way(R[i])
    BY <2>2 DEF AllWays
  <2>4. DOMAIN R = 1 .. (n + 1)
    BY <1>6, SeqIs
  <2>5. CASE i <= n
    <3>1. i \in DOMAIN P /\ R[i] = P[i]
      BY <1>4, <1>6, <2>4, <2>5
    <3>2. p \in AllWays(P)
      BY <2>3, <3>1 DEF AllWays
    <3>3. p \in Nodes(t)
      BY <1>2, <3>2 DEF Stands, Nodes
    <3>4. QED
      BY <3>3 DEF InOrder
  <2>6. CASE ~ (i <= n)
    <3>1. p \in Way(way)
      BY <1>6, <2>3, <2>4, <2>6
    <3>2. way \in Seq(Nat)
      BY <1>1 DEF Routes
    <3>3. QED
      BY <1>1, <3>1, <3>2, OrderedUpto
  <2>7. QED
    BY <2>5, <2>6
<1>11. QED
  BY <1>1, <1>5, <1>7, <1>9, <1>10 DEF u, V, way

(* Unloading the oldest transaction.                                       *)
LEMMA KeepsUnload ==
  ASSUME NEW N \in Nat, NEW W \in Windows(N), W # << >>, NEW t, Keeps(t, W),
         NEW table, IsTable(table), InOrder(t, table)
  PROVE  LET u == Remove(t, SortItems(Head(W), table))
         IN /\ Tail(W) \in Windows(N) /\ Len(Tail(W)) = Len(W) - 1
            /\ Keeps(u, Tail(W)) /\ InOrder(u, table)
            /\ DOMAIN u.freq = DOMAIN t.freq
<1> DEFINE n == Len(W)
<1>1. PICK P : Spells(P, W) /\ Stands(t, P)
  BY DEF Keeps
<1>2. Leafed(t)
  BY DEF Keeps
<1>3. /\ n \in Nat \ {0} /\ DOMAIN P = 1 .. n /\ P \in Seq(Routes) /\ Len(P) = n
      /\ \A i \in 1 .. n : On(P[i]) = W[i] /\ P[i] \in Routes /\ P[i] # << >>
  <2>1. n # 0
    BY SeqIs DEF Windows
  <2>2. QED
    BY <1>1, <2>1, PathsIs DEF Spells
<1>4. 1 \in 1 .. n /\ P # << >>
  BY <1>3
<1> DEFINE way == P[1]
<1>5. way \in Routes /\ way # << >> /\ way \in Seq(Nat) /\ On(way) = W[1]
  BY <1>3, <1>4 DEF Routes
<1>6. Ordered(way, table)
  <2>1. way \in Way(way)
    BY <1>5, WayIs
  <2>2. way \in AllWays(P)
    BY <1>3, <1>4, <2>1 DEF AllWays
  <2>3. way \in Nodes(t)
    BY <1>1, <2>2 DEF Stands, Nodes
  <2>4. QED
    BY <2>3 DEF InOrder
<1> HIDE DEF way
<1>7. way = SortItems(On(way), table)
  BY <1>5, <1>6, OrderedUnique
<1>8. Head(W) = W[1]
  BY DEF Windows
<1> DEFINE u == Remove(t, P[1])
           R == Tail(P)
           V == Tail(W)
<1>9. Stands(u, R) /\ Leafed(u) /\ DOMAIN u.freq = DOMAIN t.freq
  BY <1>1, <1>2, <1>3, <1>4, <1>5, RemoveTree DEF way
<1>10. u = Remove(t, SortItems(Head(W), table))
  BY <1>5, <1>7, <1>8 DEF way
<1> HIDE DEF u
<1>11. /\ R \in Seq(Routes) /\ Len(R) = n - 1
       /\ \A i \in 1 .. (n - 1) : R[i] = P[i + 1]
  BY <1>3, <1>4
<1>12. /\ V \in Windows(N) /\ Len(V) = n - 1
       /\ \A i \in 1 .. (n - 1) : V[i] = W[i + 1]
  BY DEF Windows
<1> HIDE DEF R, V
<1>13. \A i \in 1 .. (n - 1) : i + 1 \in 1 .. n
  BY <1>3
<1>14. Spells(R, V)
  <2>1. \A i \in 1 .. (n - 1) : On(R[i]) = V[i]
    BY <1>3, <1>11, <1>12, <1>13
  <2> HIDE DEF n
  <2>2. QED
    BY <1>11, <1>12, <2>1 DEF Spells
<1>15. Keeps(u, V)
  BY <1>9, <1>14 DEF Keeps
<1>16. InOrder(u, table)
  <2>1. SUFFICES ASSUME NEW p \in Nodes(u) PROVE p \in Nodes(t)
    BY DEF InOrder
  <2>2. Nodes(u) = AllWays(R) /\ Nodes(t) = AllWays(P)
    BY <1>1, <1>9 DEF Stands, Nodes
  <2>3. PICK i \in DOMAIN R : p \in Way(R[i])
    BY <2>2 DEF AllWays
  <2>4. DOMAIN R = 1 .. (n - 1)
    BY <1>11, SeqIs
  <2>5. R[i] = P[i + 1] /\ i + 1 \in DOMAIN P
    BY <1>3, <1>11, <1>13, <2>4
  <2>6. QED
    BY <2>2, <2>3, <2>5 DEF AllWays
<1>17. QED
  BY <1>9, <1>10, <1>12, <1>15, <1>16 DEF V

(* Moving the iterator changes nothing else.                               *)
LEMMA KeepsIterator ==
  ASSUME NEW W, NEW t, Keeps(t, W), NEW next \in 0 .. (Len(t.leaves) + 1)
  PROVE  LET u == [t EXCEPT !.next = next]
         IN /\ Keeps(u, W) /\ Nodes(u) = Nodes(t) /\ u.freq = t.freq
            /\ u.leaves = t.leaves /\ u.next = next
<1> DEFINE u == [t EXCEPT !.next = next]
<1>1. PICK P : Spells(P, W) /\ Stands(t, P)
  BY DEF Keeps
<1>2. IsTree(t)
  BY <1>1 DEF Stands
<1>3. u = [count |-> t.count, leaves |-> t.leaves, next |-> next, freq |-> t.freq]
  BY <1>2, TreeExcept
<1> HIDE DEF u
<1>4. u.count = t.count /\ u.leaves = t.leaves /\ u.next = next /\ u.freq = t.freq /\ IsTree(u)
  BY <1>3 DEF IsTree
<1>5. Stands(u, P)
  BY <1>1, <1>4 DEF Stands
<1>6. Leafed(u)
  BY <1>4 DEF Leafed, Keeps, IsList, Nodes
<1>7. Keeps(u, W)
  BY <1>1, <1>5, <1>6 DEF Keeps
<1>8. QED
  BY <1>4, <1>7 DEF u, Nodes

(* A turn of Sort's loop.                                                  *)
LEMMA KeepsSortPath ==
  ASSUME NEW N \in Nat, NEW W \in Windows(N), NEW t, Keeps(t, W),
         NEW leaf \in On(t.leaves), NEW table, IsTable(table), SortedBehind(t, table, leaf)
  PROVE  LET u == SortPath(t, leaf, table)
         IN /\ Keeps(u, W) /\ u.freq = t.freq
            /\ u.next = 0 <=> t.next = 0
            /\ SortedBehind(u, table, << >>)
<1> DEFINE u == SortPath(t, leaf, table)
           D == 1 .. Len(W)
<1>1. PICK P : Spells(P, W) /\ Stands(t, P)
  BY DEF Keeps
<1>2. Leafed(t)
  BY DEF Keeps
<1>3. /\ Len(W) \in Nat /\ DOMAIN P = D /\ P \in [D -> Routes] /\ IsFiniteSet(D)
      /\ \A i \in D : On(P[i]) = W[i]
  BY <1>1, PathsIs
<1> HIDE DEF D
<1>4. \E Q \in [D -> Routes] :
         /\ Resorted(P, Q) /\ Stands(u, Q) /\ Leafed(u) /\ u.freq = t.freq
         /\ u.next = 0 <=> t.next = 0
         /\ \A q \in On(u.leaves) :
              \/ q \in Ahead(u) \/ Ordered(q, table)
              \/ q \in On(t.leaves) \ Ahead(t) /\ q # leaf
  BY <1>1, <1>2, <1>3, SortPathStands
<1> HIDE DEF u
<1>5. PICK Q \in [D -> Routes] :
         /\ Resorted(P, Q) /\ Stands(u, Q) /\ Leafed(u) /\ u.freq = t.freq
         /\ u.next = 0 <=> t.next = 0
         /\ \A q \in On(u.leaves) :
              \/ q \in Ahead(u) \/ Ordered(q, table)
              \/ q \in On(t.leaves) \ Ahead(t) /\ q # leaf
  BY <1>4
<1>6. Spells(Q, W)
  <2>1. Q \in Seq(Routes) /\ Len(Q) = Len(W)
    BY <1>3 DEF D
  <2>2. \A i \in D : On(Q[i]) = W[i]
    BY <1>3, <1>5 DEF Resorted
  <2>3. QED
    BY <2>1, <2>2 DEF Spells, D
<1>7. Keeps(u, W)
  BY <1>5, <1>6 DEF Keeps
<1>8. SortedBehind(u, table, << >>)
  BY <1>5 DEF SortedBehind
<1>9. QED
  BY <1>5, <1>7, <1>8 DEF u

(* When nothing is ahead of the iterator all nodes are in order.           *)
LEMMA SortedAtEnd ==
  ASSUME NEW N \in Nat, NEW W \in Windows(N), NEW t, Keeps(t, W),
         NEW table, SortedBehind(t, table, << >>), t.next > Len(t.leaves)
  PROVE  InOrder(t, table)
<1>1. /\ Closed(Nodes(t))
      /\ \A p \in Nodes(t) : p \in Routes /\ p # << >> /\ Len(p) <= N
  <2>1. /\ Closed(Nodes(t))
        /\ \A p \in Nodes(t) : p \in Routes /\ p # << >> /\ Len(p) \in 1 .. N
    BY KeptNodes
  <2>2. QED
    BY <2>1
<1>2. On(t.leaves) = Childless(Nodes(t)) /\ t.leaves \in Seq(Routes) /\ t.next \in Nat
  BY SeqIs DEF Keeps, Leafed, IsList
<1>3. Ahead(t) = {}
  BY <1>2 DEF Ahead
<1>4. SUFFICES ASSUME NEW q \in Nodes(t) PROVE Ordered(q, table)
  BY DEF InOrder
<1>5. PICK p \in Childless(Nodes(t)) : q \in Way(p)
  BY <1>1, LeafBelow
<1>6. p \in Routes /\ p # << >> /\ p \in Seq(Nat)
  BY <1>1 DEF Childless, Routes
<1>7. Ordered(p, table)
  BY <1>2, <1>3, <1>6 DEF SortedBehind
<1>8. QED
  BY <1>5, <1>6, <1>7, OrderedUpto
-----------------------------------------------------------------------------
(* How many transactions of W have all the items S.                        *)
Occurring(W, S) == Cardinality({k \in DOMAIN W : S \subseteq W[k]})

(* It counts up by a load and down by an unload.                           *)
LEMMA OccurringMoves ==
  ASSUME NEW N \in Nat, NEW W \in Windows(N)
  PROVE  /\ \A S : Occurring(W, S) \in Nat
         /\ \A txn \in (SUBSET (1 .. N)) \ {{}} : \A S :
              Occurring(Append(W, txn), S) = Occurring(W, S) + IF S \subseteq txn THEN 1 ELSE 0
         /\ W # << >> => \A S :
              Occurring(Tail(W), S) = Occurring(W, S) - IF S \subseteq Head(W) THEN 1 ELSE 0
<1> DEFINE T == (SUBSET (1 .. N)) \ {{}}
           Over(S) == {txn \in T : S \subseteq txn}
<1>1. W \in Seq(T)
  BY DEF Windows
<1> HIDE DEF T
<1>2. ASSUME NEW V \in Seq(T), NEW S PROVE Occurring(V, S) = Cardinality(Hits(V, Over(S)))
  <2>1. \A k \in DOMAIN V : V[k] \in T
    BY SeqIs
  <2>2. {k \in DOMAIN V : S \subseteq V[k]} = Hits(V, Over(S))
    BY <2>1 DEF Hits
  <2>3. QED
    BY <2>2 DEF Occurring
<1>3. ASSUME NEW S PROVE Occurring(W, S) \in Nat
  <2>1. Cardinality(Hits(W, Over(S))) \in Nat
    BY <1>1, HitsFinite
  <2>2. QED
    BY <1>1, <1>2, <2>1
<1>4. ASSUME NEW txn \in T, NEW S
      PROVE  Occurring(Append(W, txn), S) = Occurring(W, S) + IF S \subseteq txn THEN 1 ELSE 0
  <2>1. Append(W, txn) \in Seq(T)
    BY <1>1
  <2>2. Cardinality(Hits(Append(W, txn), Over(S)))
          = Cardinality(Hits(W, Over(S))) + IF txn \in Over(S) THEN 1 ELSE 0
    BY <1>1, HitsAppend
  <2>3. txn \in Over(S) <=> S \subseteq txn
    OBVIOUS
  <2> HIDE DEF Over
  <2>4. QED
    BY <1>1, <1>2, <2>1, <2>2, <2>3
<1>5. ASSUME W # << >>, NEW S
      PROVE  Occurring(Tail(W), S) = Occurring(W, S) - IF S \subseteq Head(W) THEN 1 ELSE 0
  <2>1. Tail(W) \in Seq(T) /\ Head(W) \in T
    BY <1>1, <1>5
  <2>2. Cardinality(Hits(Tail(W), Over(S)))
          = Cardinality(Hits(W, Over(S))) - IF Head(W) \in Over(S) THEN 1 ELSE 0
    BY <1>1, <1>5, HitsTail
  <2>3. Head(W) \in Over(S) <=> S \subseteq Head(W)
    BY <2>1
  <2> HIDE DEF Over
  <2>4. QED
    BY <1>1, <1>2, <2>1, <2>2, <2>3
<1>6. QED
  BY <1>3, <1>4, <1>5 DEF T

(* A tally counts the items and the pairs of items of W.                   *)
Tallies(y, W, N) ==
  /\ DOMAIN y.coocurrences
       = {p \in (1 .. N) \X (1 .. N) : p[1] # p[2] /\ Occurring(W, {p[1], p[2]}) > 0}
  /\ \A p \in DOMAIN y.coocurrences : y.coocurrences[p] = Occurring(W, {p[1], p[2]})
  /\ y.mItems = {x \in 1 .. N : Occurring(W, {x}) > 0}
  /\ \A x \in DOMAIN y.mItemFreq : y.mItemFreq[x] = Occurring(W, {x})
  /\ \A x \in 1 .. N : x \in DOMAIN y.mItemFreq \/ Occurring(W, {x}) = 0

(* Nothing is counted for the empty window.                                *)
LEMMA TalliesEmpty ==
  ASSUME NEW N \in Nat
  PROVE  Tallies(NoTally, << >>, N)
<1>1. \A S : {k \in DOMAIN << >> : S \subseteq << >>[k]} = {}
  OBVIOUS
<1>2. \A S : Occurring(<< >>, S) = 0
  BY <1>1, FS_EmptySet DEF Occurring
<1>3. DOMAIN << >> = {}
  OBVIOUS
<1>4. NoTally.coocurrences = << >> /\ NoTally.mItemFreq = << >> /\ NoTally.mItems = {}
  BY DEF NoTally
<1>5. QED
  BY <1>2, <1>3, <1>4 DEF Tallies

(* A load keeps the tally.                                                 *)
LEMMA TalliesLoad ==
  ASSUME NEW N \in Nat, NEW W \in Windows(N), NEW y, Tallies(y, W, N),
         NEW txn \in (SUBSET (1 .. N)) \ {{}}
  PROVE  Tallies(TallyLoad(y, txn), Append(W, txn), N)
<1> DEFINE V == Append(W, txn)
           z == TallyLoad(y, txn)
           Ids2 == (1 .. N) \X (1 .. N)
           g == y.coocurrences
           f == y.mItemFreq
<1>1. \A S : /\ Occurring(W, S) \in Nat
             /\ Occurring(V, S) = Occurring(W, S) + IF S \subseteq txn THEN 1 ELSE 0
  BY OccurringMoves
<1> HIDE DEF V
<1>2. \A p \in Ids2 : {p[1], p[2]} \subseteq txn <=> p[1] \in txn /\ p[2] \in txn
  OBVIOUS
<1>3. \A p : p \in PairsOf(txn) <=> p \in Ids2 /\ p[1] # p[2] /\ {p[1], p[2]} \subseteq txn
  BY DEF PairsOf
<1>4. /\ z.coocurrences = [k \in DOMAIN g \cup PairsOf(txn) |->
                             (IF k \in DOMAIN g THEN g[k] ELSE 0)
                             + (IF k \in PairsOf(txn) THEN 1 ELSE 0)]
      /\ z.mItemFreq = [x \in DOMAIN f \cup txn |->
                          (IF x \in DOMAIN f THEN f[x] ELSE 0) + (IF x \in txn THEN 1 ELSE 0)]
      /\ z.mItems = y.mItems \cup {x \in txn : x \in DOMAIN f => f[x] = 0}
  BY DEF TallyLoad, Increment, CountUp
<1> HIDE DEF z
<1>5. /\ DOMAIN g = {p \in Ids2 : p[1] # p[2] /\ Occurring(W, {p[1], p[2]}) > 0}
      /\ \A p \in DOMAIN g : g[p] = Occurring(W, {p[1], p[2]})
      /\ y.mItems = {x \in 1 .. N : Occurring(W, {x}) > 0}
      /\ \A x \in DOMAIN f : f[x] = Occurring(W, {x})
      /\ \A x \in 1 .. N : x \in DOMAIN f \/ Occurring(W, {x}) = 0
  BY DEF Tallies
<1> HIDE DEF g, f, Ids2
<1>6. ASSUME NEW p \in Ids2, p[1] # p[2]
      PROVE  /\ p \in DOMAIN g \cup PairsOf(txn) <=> Occurring(V, {p[1], p[2]}) > 0
             /\ (IF p \in DOMAIN g THEN g[p] ELSE 0) + (IF p \in PairsOf(txn) THEN 1 ELSE 0)
                  = Occurring(V, {p[1], p[2]})
  <2> DEFINE S == {p[1], p[2]}
             old == Occurring(W, S)
             new == Occurring(V, S)
  <2>1. old \in Nat /\ new = old + IF S \subseteq txn THEN 1 ELSE 0
    BY <1>1
  <2>2. p \in PairsOf(txn) <=> S \subseteq txn
    BY <1>3, <1>6
  <2>3. p \in DOMAIN g <=> old > 0
    BY <1>5, <1>6
  <2>4. p \in DOMAIN g => g[p] = old
    BY <1>5
  <2> HIDE DEF S, old, new
  <2>5. /\ p \in DOMAIN g \cup PairsOf(txn) <=> new > 0
        /\ (IF p \in DOMAIN g THEN g[p] ELSE 0) + (IF p \in PairsOf(txn) THEN 1 ELSE 0) = new
    BY <2>1, <2>2, <2>3, <2>4
  <2>6. QED
    BY <2>5 DEF new, S
<1>7. \A p \in DOMAIN z.coocurrences : p \in Ids2 /\ p[1] # p[2]
  BY <1>3, <1>4, <1>5
<1>8. DOMAIN z.coocurrences = {p \in Ids2 : p[1] # p[2] /\ Occurring(V, {p[1], p[2]}) > 0}
  <2>1. DOMAIN z.coocurrences = DOMAIN g \cup PairsOf(txn)
    BY <1>4
  <2>2. QED
    BY <1>6, <1>7, <2>1
<1>9. \A p \in DOMAIN z.coocurrences : z.coocurrences[p] = Occurring(V, {p[1], p[2]})
  BY <1>4, <1>6, <1>7
<1>10. ASSUME NEW x \in 1 .. N
       PROVE  Occurring(W, {x}) \in Nat
              /\ Occurring(V, {x}) = Occurring(W, {x}) + IF x \in txn THEN 1 ELSE 0
  <2>1. {x} \subseteq txn <=> x \in txn
    OBVIOUS
  <2>2. QED
    BY <1>1, <2>1
<1>11. \A x \in txn : x \in 1 .. N
  OBVIOUS
<1>12. z.mItems = {x \in 1 .. N : Occurring(V, {x}) > 0}
  <2>1. ASSUME NEW x \in 1 .. N PROVE x \in z.mItems <=> Occurring(V, {x}) > 0
    <3> DEFINE old == Occurring(W, {x})
               new == Occurring(V, {x})
    <3>1. old \in Nat /\ new = old + IF x \in txn THEN 1 ELSE 0
      BY <1>10
    <3>2. x \in y.mItems <=> old > 0
      BY <1>5
    <3>3. (x \in DOMAIN f => f[x] = old) /\ (x \in DOMAIN f \/ old = 0)
      BY <1>5
    <3>4. x \in z.mItems <=> x \in y.mItems \/ (x \in txn /\ (x \in DOMAIN f => f[x] = 0))
      BY <1>4
    <3> HIDE DEF old, new
    <3>5. x \in z.mItems <=> new > 0
      BY <3>1, <3>2, <3>3, <3>4
    <3>6. QED
      BY <3>5 DEF new
  <2>2. \A x \in z.mItems : x \in 1 .. N
    BY <1>4, <1>5, <1>11
  <2>3. QED
    BY <2>1, <2>2
<1>13. \A x \in DOMAIN z.mItemFreq : z.mItemFreq[x] = Occurring(V, {x})
  <2>0. \A x \in DOMAIN f \cup txn : z.mItemFreq[x]
          = (IF x \in DOMAIN f THEN f[x] ELSE 0) + (IF x \in txn THEN 1 ELSE 0)
    BY <1>4
  <2>1. ASSUME NEW x \in txn PROVE z.mItemFreq[x] = Occurring(V, {x})
    BY <1>5, <1>10, <1>11, <2>0
  <2>2. ASSUME NEW x \in DOMAIN f, x \notin txn PROVE z.mItemFreq[x] = Occurring(V, {x})
    <3>1. Occurring(W, {x}) \in Nat /\ Occurring(V, {x}) = Occurring(W, {x}) + 0
      <4>1. ~ ({x} \subseteq txn)
        BY <2>2
      <4>2. QED
        BY <1>1, <4>1
    <3>2. f[x] = Occurring(W, {x}) /\ z.mItemFreq[x] = f[x] + 0
      BY <1>5, <2>0, <2>2
    <3>3. QED
      BY <3>1, <3>2
  <2>3. QED
    BY <1>4, <2>1, <2>2
<1>14. \A x \in 1 .. N : x \in DOMAIN z.mItemFreq \/ Occurring(V, {x}) = 0
  <2>1. DOMAIN z.mItemFreq = DOMAIN f \cup txn
    BY <1>4
  <2>2. ASSUME NEW x \in 1 .. N, x \notin DOMAIN f, x \notin txn PROVE Occurring(V, {x}) = 0
    <3>1. Occurring(W, {x}) = 0 /\ ~ ({x} \subseteq txn)
      BY <1>5, <2>2
    <3>2. Occurring(V, {x}) = Occurring(W, {x}) + 0
      BY <1>1, <3>1
    <3>3. QED
      BY <3>1, <3>2
  <2>3. QED
    BY <2>1, <2>2
<1>15. QED
  BY <1>8, <1>9, <1>12, <1>13, <1>14 DEF Tallies, z, V, Ids2

(* An unload keeps the tally.                                              *)
LEMMA TalliesUnload ==
  ASSUME NEW N \in Nat, NEW W \in Windows(N), W # << >>, NEW y, Tallies(y, W, N)
  PROVE  Tallies(TallyUnload(y, Head(W)), Tail(W), N)
<1> DEFINE V == Tail(W)
           txn == Head(W)
           z == TallyUnload(y, txn)
           Ids2 == (1 .. N) \X (1 .. N)
           g == y.coocurrences
           f == y.mItemFreq
           less == [k \in DOMAIN g |-> g[k] - (IF k \in PairsOf(txn) THEN 1 ELSE 0)]
<1>1. \A S : /\ Occurring(W, S) \in Nat
             /\ Occurring(V, S) = Occurring(W, S) - IF S \subseteq txn THEN 1 ELSE 0
  BY OccurringMoves
<1>2. \A S : Occurring(V, S) \in Nat
  <2>1. V \in Windows(N)
    BY DEF Windows
  <2>2. QED
    BY <2>1, OccurringMoves
<1>3. txn \in (SUBSET (1 .. N)) \ {{}}
  BY DEF Windows
<1> HIDE DEF V, txn
<1>4. \A p : p \in PairsOf(txn) <=> p \in Ids2 /\ p[1] # p[2] /\ {p[1], p[2]} \subseteq txn
  BY <1>3 DEF PairsOf
<1>5. /\ z.coocurrences = [p \in {q \in DOMAIN less : less[q] > 0} |-> less[p]]
      /\ z.mItemFreq = [x \in DOMAIN f |-> f[x] - (IF x \in txn THEN 1 ELSE 0)]
      /\ z.mItems = y.mItems \ {x \in txn : f[x] = 1}
  BY DEF TallyUnload, Decrement, CountDown
<1> HIDE DEF z
<1>6. /\ DOMAIN g = {p \in Ids2 : p[1] # p[2] /\ Occurring(W, {p[1], p[2]}) > 0}
      /\ \A p \in DOMAIN g : g[p] = Occurring(W, {p[1], p[2]})
      /\ y.mItems = {x \in 1 .. N : Occurring(W, {x}) > 0}
      /\ \A x \in DOMAIN f : f[x] = Occurring(W, {x})
      /\ \A x \in 1 .. N : x \in DOMAIN f \/ Occurring(W, {x}) = 0
  BY DEF Tallies
<1>7. DOMAIN less = DOMAIN g
      /\ \A p \in DOMAIN g : less[p] = g[p] - (IF p \in PairsOf(txn) THEN 1 ELSE 0)
  OBVIOUS
<1> HIDE DEF g, f, Ids2, less
<1>8. ASSUME NEW p \in Ids2, p[1] # p[2]
      PROVE  /\ p \in DOMAIN g /\ less[p] > 0 <=> Occurring(V, {p[1], p[2]}) > 0
             /\ p \in DOMAIN g => less[p] = Occurring(V, {p[1], p[2]})
  <2> DEFINE S == {p[1], p[2]}
             old == Occurring(W, S)
             new == Occurring(V, S)
  <2>1. old \in Nat /\ new \in Nat /\ new = old - IF S \subseteq txn THEN 1 ELSE 0
    BY <1>1, <1>2
  <2>2. p \in PairsOf(txn) <=> S \subseteq txn
    BY <1>4, <1>8
  <2>3. p \in DOMAIN g <=> old > 0
    BY <1>6, <1>8
  <2>4. p \in DOMAIN g => g[p] = old
    BY <1>6
  <2> HIDE DEF S, old, new
  <2>5. /\ p \in DOMAIN g /\ less[p] > 0 <=> new > 0
        /\ p \in DOMAIN g => less[p] = new
    BY <1>7, <2>1, <2>2, <2>3, <2>4
  <2>6. QED
    BY <2>5 DEF new, S
<1>9. \A p : p \in DOMAIN z.coocurrences <=> p \in DOMAIN g /\ less[p] > 0
  BY <1>5, <1>7
<1>10. DOMAIN z.coocurrences = {p \in Ids2 : p[1] # p[2] /\ Occurring(V, {p[1], p[2]}) > 0}
  <2>1. \A p \in DOMAIN g : p \in Ids2 /\ p[1] # p[2]
    BY <1>6
  <2>2. QED
    BY <1>8, <1>9, <2>1
<1>11. \A p \in DOMAIN z.coocurrences : z.coocurrences[p] = Occurring(V, {p[1], p[2]})
  <2>1. \A p \in DOMAIN z.coocurrences : z.coocurrences[p] = less[p]
    BY <1>5
  <2>2. QED
    BY <1>8, <1>9, <1>10, <2>1
<1>12. ASSUME NEW x
       PROVE  /\ Occurring(W, {x}) \in Nat /\ Occurring(V, {x}) \in Nat
              /\ Occurring(V, {x}) = Occurring(W, {x}) - IF x \in txn THEN 1 ELSE 0
  <2>1. {x} \subseteq txn <=> x \in txn
    OBVIOUS
  <2>2. QED
    BY <1>1, <1>2, <2>1
<1>13. ASSUME NEW x \in txn PROVE x \in 1 .. N /\ x \in DOMAIN f /\ f[x] = Occurring(W, {x})
                                  /\ Occurring(W, {x}) > 0
  <2>1. x \in 1 .. N
    BY <1>3
  <2>2. Occurring(W, {x}) # 0 /\ Occurring(W, {x}) > 0
    BY <1>12
  <2>3. QED
    BY <1>6, <2>1, <2>2
<1>14. z.mItems = {x \in 1 .. N : Occurring(V, {x}) > 0}
  <2>1. ASSUME NEW x \in 1 .. N PROVE x \in z.mItems <=> Occurring(V, {x}) > 0
    <3> DEFINE old == Occurring(W, {x})
               new == Occurring(V, {x})
    <3>1. old \in Nat /\ new \in Nat /\ new = old - IF x \in txn THEN 1 ELSE 0
      BY <1>12
    <3>2. x \in y.mItems <=> old > 0
      BY <1>6
    <3>3. x \in txn => f[x] = old /\ old > 0
      BY <1>13
    <3>4. x \in z.mItems <=> x \in y.mItems /\ ~ (x \in txn /\ f[x] = 1)
      BY <1>5
    <3> HIDE DEF old, new
    <3>5. x \in z.mItems <=> new > 0
      BY <3>1, <3>2, <3>3, <3>4
    <3>6. QED
      BY <3>5 DEF new
  <2>2. \A x \in z.mItems : x \in 1 .. N
    BY <1>5, <1>6
  <2>3. QED
    BY <2>1, <2>2
<1>15. \A x \in DOMAIN z.mItemFreq : z.mItemFreq[x] = Occurring(V, {x})
  <2>1. \A x \in DOMAIN f : z.mItemFreq[x] = f[x] - (IF x \in txn THEN 1 ELSE 0)
    BY <1>5
  <2>2. DOMAIN z.mItemFreq = DOMAIN f
    BY <1>5
  <2>3. QED
    BY <1>6, <1>12, <2>1, <2>2, ZenonT(30)
<1>16. \A x \in 1 .. N : x \in DOMAIN z.mItemFreq \/ Occurring(V, {x}) = 0
  <2>1. DOMAIN z.mItemFreq = DOMAIN f
    BY <1>5
  <2>2. ASSUME NEW x \in 1 .. N, x \notin DOMAIN f PROVE Occurring(V, {x}) = 0
    <3>1. Occurring(W, {x}) = 0 /\ x \notin txn
      BY <1>6, <1>13, <2>2
    <3>2. ~ ({x} \subseteq txn)
      BY <3>1
    <3>3. Occurring(V, {x}) = Occurring(W, {x}) - 0
      BY <1>1, <3>2
    <3>4. QED
      BY <3>1, <3>3
  <2>3. QED
    BY <2>1, <2>2
<1>17. QED
  BY <1>10, <1>11, <1>14, <1>15, <1>16 DEF Tallies, z, V, txn, Ids2-----------------------------------------------------------------------------
(* The inductive invariant.                                                *)

StateType ==
  /\ pc \in Phases
  /\ setup \in Setups
  /\ transaction \in SUBSET Ids
  /\ window \in Windows(setup.items) /\ Len(window) <= setup.length
  /\ Seen \subseteq Ids
  /\ DOMAIN order \subseteq Seen
  /\ \A i \in DOMAIN order : order[i] \in Counts \cup Scores
  /\ mTxnNum \in 0 .. (setup.length - 1)

(* Ids are handed out in the order of appearance.                          *)
Interned ==
  \E m \in Nat :
    /\ Seen = 1 .. m
    /\ pc \in {"unload", "load"} =>
         \E k \in Nat : transaction \ Seen = (m + 1) .. (m + k)

(* What each phase finds.                                                  *)
Flow ==
  /\ pc \in {"unload", "load", "mine"} => transaction # {}
  /\ pc = "read" => transaction = {}
  /\ pc = "unload" => Len(window) = setup.length
  /\ pc = "load" => Len(window) < setup.length
  /\ InSort => tree.next # 0
  /\ IF pc = "replace" THEN path \in On(tree.leaves) ELSE path = << >>

(* The order of the paths, and of the table: by frequency items are        *)
(* counted from the first one on.                                          *)
Orders ==
  /\ ~InSort => InOrder(tree, order)
  /\ InSort => SortedBehind(tree, order, path)
  /\ setup.functor \in {"cp", "spo"} =>
       /\ \E m \in Nat : DOMAIN order = 1 .. m
       /\ \A i \in DOMAIN order : order[i] \in Nat
       /\ InSort \/ pc = "sorted" => order = tree.freq

(* A count that starts a sort is met before it is passed.                  *)
SortCount ==
  /\ count \in Nat
  /\ setup.functor = "spo" => count = 0
  /\ ~NeverDue => count <= Due
  /\ pc \in {"read", "unload", "load", "mine"} /\ setup.functor # "spo" /\ Due # 0 => count # Due

(* As long as the window has never been full, its length and the count of  *)
(* the transactions are the same.                                          *)
MineCount ==
  /\ pc = "read" /\ Len(window) < setup.length => mTxnNum = Len(window)
  /\ pc = "load" /\ Len(window) < setup.length - 1 => mTxnNum = Len(window)
  /\ (InSort \/ pc \in {"sorted", "mine"}) /\ transaction # {} /\ Len(window) < setup.length
       => mTxnNum = Len(window) - 1

TallyCount ==
  IF setup.functor = "disc" THEN Tallies(tally, window, setup.items)
                            ELSE tally = NoTally

IInv ==
  /\ StateType /\ Keeps(tree, window) /\ Interned /\ Flow /\ Orders
  /\ SortCount /\ MineCount /\ TallyCount

(* What the invariant says of the constants and of the types.              *)
LEMMA Known ==
  ASSUME IInv
  PROVE  /\ setup.items \in Nat /\ Ids = 1 .. setup.items
         /\ setup.length \in Nat \ {0} /\ setup.interval \in Nat
         /\ Scores \subseteq Int
         /\ IsTable(order)
         /\ Len(window) \in 0 .. setup.length
         /\ Len(tree.leaves) \in Nat /\ tree.next \in 0 .. (Len(tree.leaves) + 1)
         /\ Seen \subseteq Nat
<1>1. /\ setup.items \in Nat /\ setup.length \in Nat \ {0} /\ setup.interval \in Nat
      /\ Scores \subseteq Int
  BY StreamAssumption DEF IInv, StateType
<1>2. Ids = 1 .. setup.items
  BY DEF Ids
<1>3. IsTable(order)
  <2>1. \A i \in DOMAIN order : order[i] \in Counts \cup Scores
    BY DEF IInv, StateType
  <2>2. Counts \subseteq Int
    BY <1>1 DEF Counts
  <2>3. QED
    BY <1>1, <2>1, <2>2 DEF IsTable
<1>4. Len(window) \in 0 .. setup.length
  <2>1. Len(window) \in Nat /\ Len(window) <= setup.length
    BY SeqIs DEF IInv, StateType, Windows
  <2>2. QED
    BY <1>1, <2>1
<1>5. Len(tree.leaves) \in Nat /\ tree.next \in 0 .. (Len(tree.leaves) + 1)
  BY SeqIs DEF IInv, Keeps, Leafed, IsList
<1>6. Seen \subseteq Nat
  BY DEF IInv, Interned
<1>7. QED
  BY <1>1, <1>2, <1>3, <1>4, <1>5, <1>6

(* The empty tree keeps the empty window.                                  *)
LEMMA KeepsEmpty ==
  /\ Keeps(Empty, << >>) /\ InOrder(Empty, NoTable)
  /\ Empty.freq = << >> /\ DOMAIN Empty.freq = {} /\ Empty.next = 0
<1>1. /\ Empty.count = << >> /\ Empty.leaves = << >> /\ Empty.next = 0 /\ Empty.freq = << >>
  BY DEF Empty, NoTable
<1>2. DOMAIN << >> = {} /\ << >> \in Seq(Routes) /\ Len(<< >>) = 0
  OBVIOUS
<1>3. IsTree(Empty)
  BY DEF IsTree, Empty, NoTable
<1>4. Nodes(Empty) = {}
  BY <1>1, <1>2 DEF Nodes
<1>5. Leafed(Empty)
  BY <1>1, <1>2, <1>4 DEF Leafed, IsList, Distinct, On, Childless
<1>6. AllWays(<< >>) = {}
  BY <1>2 DEF AllWays
<1>7. \A f : << >> = [x \in {} |-> f[x]]
  OBVIOUS
<1>8. Stands(Empty, << >>)
  <2>1. Empty.count = [q \in AllWays(<< >>) |-> Cardinality(Hits(<< >>, Through(q)))]
    BY <1>1, <1>6
  <2>2. Empty.freq = [x \in DOMAIN Empty.freq |-> Cardinality(Hits(<< >>, With(x)))]
    BY <1>1, <1>2
  <2>3. QED
    BY <1>2, <1>3, <2>1, <2>2 DEF Stands
<1>9. Spells(<< >>, << >>)
  BY <1>2 DEF Spells
<1>10. QED
  BY <1>1, <1>2, <1>4, <1>5, <1>8, <1>9 DEF Keeps, InOrder

(* The invariant holds initially.                                          *)
LEMMA InitHolds == Init => IInv
<1> SUFFICES ASSUME Init PROVE IInv
  OBVIOUS
<1>1. /\ pc = "read" /\ setup \in Setups /\ transaction = {} /\ window = << >> /\ tree = Empty
      /\ path = << >> /\ order = NoTable /\ count = 0 /\ tally = NoTally /\ mTxnNum = 0
  BY DEF Init
<1>2. /\ setup.items \in Nat /\ setup.length \in Nat \ {0} /\ setup.interval \in Nat
  BY <1>1, StreamAssumption
<1>3. Len(window) = 0 /\ window \in Windows(setup.items) /\ DOMAIN order = {} /\ Seen = {}
  BY <1>1, KeepsEmpty DEF Windows, NoTable, Seen
<1>4. StateType
  BY <1>1, <1>2, <1>3 DEF StateType, Phases
<1>5. Keeps(tree, window)
  BY <1>1, KeepsEmpty
<1>6. Interned
  <2>1. Seen = 1 .. 0
    BY <1>3
  <2>2. QED
    BY <1>1, <2>1 DEF Interned
<1>7. Flow
  BY <1>1 DEF Flow, InSort
<1>8. Orders
  <2>1. DOMAIN order = 1 .. 0
    BY <1>3
  <2>2. InOrder(tree, order)
    BY <1>1, KeepsEmpty
  <2>3. QED
    BY <1>1, <1>3, <2>1, <2>2 DEF Orders, InSort
<1>9. SortCount
  BY <1>1, <1>2 DEF SortCount, Due, NeverDue
<1>10. MineCount
  BY <1>1, <1>2, <1>3 DEF MineCount, InSort
<1>11. TallyCount
  BY <1>1, <1>2, TalliesEmpty DEF TallyCount
<1>12. QED
  BY <1>4, <1>5, <1>6, <1>7, <1>8, <1>9, <1>10, <1>11 DEF IInv

(* A transaction arrives.                                                  *)
LEMMA GetNextHolds ==
  ASSUME IInv, NEW txn \in Transactions, GetNext(txn) PROVE IInv'
<1>1. /\ pc = "read"
      /\ txn \ Seen = (Cardinality(Seen) + 1) .. (Cardinality(Seen) + Cardinality(txn \ Seen))
      /\ transaction' = txn
      /\ pc' = IF Len(window) = setup.length THEN "unload" ELSE "load"
      /\ UNCHANGED <<setup, window, tree, path, order, count, ranks, tally, mTxnNum>>
  BY DEF GetNext
<1>2. /\ setup.items \in Nat /\ setup.length \in Nat \ {0} /\ Len(window) \in 0 .. setup.length
  BY Known
<1>3. txn \in SUBSET Ids /\ txn # {}
  BY DEF Transactions
<1>4. pc' \in {"unload", "load"} /\ ~ InSort /\ ~ InSort'
  BY <1>1 DEF InSort
<1>5. StateType'
  BY <1>1, <1>3, <1>4 DEF IInv, StateType, Phases, Ids, Seen, Counts
<1>6. Keeps(tree, window)'
  BY <1>1 DEF IInv
<1>7. Interned'
  <2>1. PICK m \in Nat : Seen = 1 .. m
    BY DEF IInv, Interned
  <2>2. Cardinality(Seen) = m
    BY <2>1, FS_Interval
  <2>3. IsFiniteSet(txn \ Seen)
    <3>1. IsFiniteSet(Ids)
      <4> DEFINE N == setup.items
      <4>1. N \in Nat /\ Ids = 1 .. N
        BY <1>2 DEF Ids
      <4> HIDE DEF N
      <4>2. IsFiniteSet(1 .. N)
        BY <4>1, FS_Interval
      <4>3. QED
        BY <4>1, <4>2
    <3>2. txn \ Seen \subseteq Ids
      BY <1>3
    <3>3. QED
      BY <3>1, <3>2, FS_Subset
  <2>4. Cardinality(txn \ Seen) \in Nat
    BY <2>3, FS_CardinalityType
  <2>5. txn \ Seen = (m + 1) .. (m + Cardinality(txn \ Seen))
    BY <1>1, <2>2
  <2>6. Seen' = Seen
    BY <1>1 DEF Seen
  <2>7. \E k \in Nat : transaction' \ Seen' = (m + 1) .. (m + k)
    BY <1>1, <2>4, <2>5, <2>6
  <2>8. QED
    BY <2>1, <2>6, <2>7 DEF Interned
<1>8. Flow'
  BY <1>1, <1>2, <1>3, <1>4 DEF IInv, Flow
<1>9. Orders'
  BY <1>1, <1>4 DEF IInv, Orders
<1>10. SortCount'
  BY <1>1, <1>4 DEF IInv, SortCount, Due, NeverDue
<1>11. MineCount'
  BY <1>1, <1>2, <1>4 DEF IInv, MineCount
<1>12. TallyCount'
  BY <1>1 DEF IInv, TallyCount
<1>13. QED
  BY <1>5, <1>6, <1>7, <1>8, <1>9, <1>10, <1>11, <1>12 DEF IInv

(* The oldest transaction leaves.                                          *)
LEMMA OnUnloadHolds == ASSUME IInv, OnUnload PROVE IInv'
<1>1. /\ pc = "unload" /\ pc' = "load"
      /\ tree' = Remove(tree, SortItems(Head(window), order))
      /\ tally' = IF setup.functor = "disc" THEN TallyUnload(tally, Head(window)) ELSE tally
      /\ window' = Tail(window)
      /\ UNCHANGED <<setup, transaction, path, order, count, ranks, mTxnNum>>
  BY DEF OnUnload, SortTransaction
<1>2. /\ setup.items \in Nat /\ setup.length \in Nat \ {0} /\ Len(window) \in 0 .. setup.length
      /\ IsTable(order)
  BY Known
<1>3. ~ InSort /\ ~ InSort'
  BY <1>1 DEF InSort
<1>4. Len(window) = setup.length /\ window # << >> /\ window \in Windows(setup.items)
  <2>1. Len(window) = setup.length /\ window \in Windows(setup.items)
    BY <1>1 DEF IInv, Flow, StateType
  <2>2. QED
    BY <1>2, <2>1, SeqIs DEF Windows
<1>5. Keeps(tree, window) /\ InOrder(tree, order)
  BY <1>3 DEF IInv, Orders
<1>6. /\ window' \in Windows(setup.items) /\ Len(window') = Len(window) - 1
      /\ Keeps(tree', window') /\ InOrder(tree', order)
      /\ DOMAIN tree'.freq = DOMAIN tree.freq
  BY <1>1, <1>2, <1>4, <1>5, KeepsUnload
<1>7. Seen' = Seen
  BY <1>6 DEF Seen
<1>8. Len(window') \in Nat /\ Len(window') = setup.length - 1 /\ Len(window') < setup.length
      /\ Len(window') <= setup.length
  BY <1>2, <1>4, <1>6
<1>9. StateType'
  BY <1>1, <1>6, <1>7, <1>8 DEF IInv, StateType, Phases, Ids, Counts
<1>10. Keeps(tree, window)'
  BY <1>6
<1>11. Interned'
  BY <1>1, <1>7 DEF IInv, Interned
<1>12. Flow'
  BY <1>1, <1>3, <1>8 DEF IInv, Flow
<1>13. Orders'
  BY <1>1, <1>3, <1>6 DEF IInv, Orders
<1>14. SortCount'
  BY <1>1 DEF IInv, SortCount, Due, NeverDue
<1>15. MineCount'
  BY <1>1, <1>3, <1>8 DEF MineCount
<1>16. TallyCount'
  <2>1. CASE setup.functor = "disc"
    <3>1. Tallies(tally, window, setup.items)
      BY <2>1 DEF IInv, TallyCount
    <3>2. Tallies(TallyUnload(tally, Head(window)), Tail(window), setup.items)
      BY <1>2, <1>4, <3>1, TalliesUnload
    <3>3. QED
      BY <1>1, <2>1, <3>2 DEF TallyCount
  <2>2. CASE setup.functor # "disc"
    BY <1>1, <2>2 DEF IInv, TallyCount
  <2>3. QED
    BY <2>1, <2>2
<1>17. QED
  BY <1>9, <1>10, <1>11, <1>12, <1>13, <1>14, <1>15, <1>16 DEF IInv

(* The tree with the new transaction.                                      *)
LEMMA LoadedIs ==
  ASSUME IInv, pc = "load"
  PROVE  /\ Append(window, transaction) \in Windows(setup.items)
         /\ Len(Append(window, transaction)) = Len(window) + 1
         /\ Len(window) + 1 \in 1 .. setup.length
         /\ Keeps(Loaded, Append(window, transaction)) /\ InOrder(Loaded, order)
         /\ DOMAIN Loaded.freq = Seen \cup transaction
         /\ \A i \in DOMAIN Loaded.freq : Loaded.freq[i] \in Counts
         /\ \E m \in Nat : DOMAIN Loaded.freq = 1 .. m
<1> DEFINE u == Loaded
           V == Append(window, transaction)
           N == setup.items
<1>1. /\ N \in Nat /\ setup.length \in Nat \ {0} /\ Len(window) \in 0 .. setup.length
      /\ IsTable(order)
  BY Known
<1>2. /\ transaction # {} /\ transaction \in SUBSET Ids /\ Len(window) < setup.length
      /\ window \in Windows(N) /\ Keeps(tree, window)
  BY DEF IInv, Flow, StateType
<1>3. InOrder(tree, order)
  BY DEF IInv, Orders, InSort
<1>4. transaction \in (SUBSET (1 .. N)) \ {{}}
  BY <1>2 DEF Ids
<1>5. /\ V \in Windows(N) /\ Len(V) = Len(window) + 1
      /\ Keeps(u, V) /\ InOrder(u, order)
      /\ DOMAIN u.freq = DOMAIN tree.freq \cup transaction
  <2> DEFINE w == Insert(tree, SortItems(transaction, order))
  <2>1. w = u
    BY DEF Loaded, SortTransaction
  <2> HIDE DEF N, u
  <2>2. /\ V \in Windows(N) /\ Len(V) = Len(window) + 1
        /\ Keeps(w, V) /\ InOrder(w, order)
        /\ DOMAIN w.freq = DOMAIN tree.freq \cup transaction
    BY <1>1, <1>2, <1>3, <1>4, KeepsLoad
  <2> HIDE DEF w
  <2>3. QED
    BY <2>1, <2>2
<1> HIDE DEF u, V, N
<1>6. Len(window) + 1 \in 1 .. setup.length
  BY <1>1, <1>2
<1>7. \A x \in DOMAIN u.freq : u.freq[x] \in 0 .. Len(V)
  BY <1>1, <1>5, KeptNodes
<1>8. \A x \in DOMAIN u.freq : u.freq[x] \in Counts
  <2>1. 0 .. Len(V) \subseteq Counts
    BY <1>1, <1>5, <1>6 DEF Counts
  <2>2. QED
    BY <1>7, <2>1
<1>9. \E m \in Nat : DOMAIN u.freq = 1 .. m
  <2>1. PICK m \in Nat : Seen = 1 .. m /\ \E k \in Nat : transaction \ Seen = (m + 1) .. (m + k)
    BY DEF IInv, Interned
  <2>2. PICK k \in Nat : transaction \ Seen = (m + 1) .. (m + k)
    BY <2>1
  <2>3. DOMAIN u.freq = Seen \cup (transaction \ Seen)
    BY <1>5 DEF Seen
  <2>4. (1 .. m) \cup ((m + 1) .. (m + k)) = 1 .. (m + k)
    OBVIOUS
  <2>5. DOMAIN u.freq = 1 .. (m + k)
    BY <2>1, <2>2, <2>3, <2>4
  <2>6. m + k \in Nat
    OBVIOUS
  <2>7. QED
    BY <2>5, <2>6, Zenon
<1>10. QED
  BY <1>5, <1>6, <1>8, <1>9 DEF u, V, N, Seen

(* The tables a load sorts by.                                             *)
Sortable(table) ==
  /\ DOMAIN table \subseteq DOMAIN Loaded.freq
  /\ \A i \in DOMAIN table : table[i] \in Counts \cup Scores
  /\ setup.functor \in {"cp", "spo"} => table = Loaded.freq

(* What every functor's OnLoad keeps, whether it sorts or not.             *)
LEMMA LoadHolds ==
  ASSUME IInv, Enter, LeaveUnsorted \/ \E table : Sortable(table) /\ SortBy(table)
  PROVE  /\ StateType' /\ Keeps(tree, window)' /\ Interned' /\ Flow' /\ Orders' /\ MineCount'
         /\ setup' = setup
<1> DEFINE u == Loaded
           V == Append(window, transaction)
<1>1. /\ pc = "load" /\ window' = V
      /\ UNCHANGED <<setup, transaction, path, mTxnNum>>
  BY DEF Enter
<1>2. /\ V \in Windows(setup.items) /\ Len(V) = Len(window) + 1
      /\ Len(window) + 1 \in 1 .. setup.length
      /\ Keeps(u, V) /\ InOrder(u, order)
      /\ DOMAIN u.freq = Seen \cup transaction
      /\ \A i \in DOMAIN u.freq : u.freq[i] \in Counts
      /\ \E m \in Nat : DOMAIN u.freq = 1 .. m
  BY <1>1, LoadedIs
<1>3. /\ setup.items \in Nat /\ setup.length \in Nat \ {0} /\ Len(window) \in 0 .. setup.length
  BY Known
<1>4. /\ path = << >> /\ transaction # {} /\ transaction \in SUBSET Ids
      /\ mTxnNum \in 0 .. (setup.length - 1)
      /\ DOMAIN order \subseteq Seen /\ \A i \in DOMAIN order : order[i] \in Counts \cup Scores
  BY <1>1 DEF IInv, Flow, StateType
<1> HIDE DEF u, V
<1>5. LeaveUnsorted \/ \E table : Sortable(table) /\ SortBy(table)
  OBVIOUS
<1>6. /\ Keeps(tree', V) /\ DOMAIN tree'.freq = DOMAIN u.freq
      /\ \/ pc' = "mine" /\ order' = order /\ InOrder(tree', order)
         \/ /\ pc' = "sort" /\ tree'.next = 1 /\ tree'.freq = u.freq /\ Sortable(order')
            /\ On(tree'.leaves) = Ahead(tree')
  <2>1. CASE LeaveUnsorted
    <3>1. tree' = u /\ pc' = "mine" /\ order' = order
      BY <2>1 DEF LeaveUnsorted, u
    <3>2. QED
      BY <1>2, <3>1
  <2>2. CASE \E table : Sortable(table) /\ SortBy(table)
    <3>1. order' = order' /\ Sortable(order') /\ tree' = StartSort(u) /\ pc' = "sort"
      BY <2>2 DEF SortBy, u
    <3>2. tree' = [u EXCEPT !.next = 1]
      BY <3>1 DEF StartSort
    <3>3. 1 \in 0 .. (Len(u.leaves) + 1) /\ u.leaves \in Seq(Routes)
      BY <1>2, SeqIs DEF Keeps, Leafed, IsList
    <3>4. /\ Keeps(tree', V) /\ tree'.freq = u.freq
          /\ tree'.leaves = u.leaves /\ tree'.next = 1
      <4> DEFINE w == [u EXCEPT !.next = 1]
      <4>1. Keeps(u, V)
        BY <1>2
      <4>2. /\ Keeps(w, V) /\ w.freq = u.freq /\ w.leaves = u.leaves /\ w.next = 1
        BY <3>3, <4>1, KeepsIterator
      <4> HIDE DEF w
      <4>3. w = tree'
        BY <3>2 DEF w
      <4>4. QED
        BY <4>2, <4>3
    <3>5. On(tree'.leaves) = Ahead(tree')
      <4>1. DOMAIN u.leaves = 1 .. Len(u.leaves)
        BY <3>3, SeqIs
      <4>2. \A i \in DOMAIN u.leaves : i >= 1
        BY <4>1
      <4>3. QED
        BY <3>4, <4>2 DEF On, Ahead
    <3>6. QED
      BY <3>1, <3>4, <3>5
  <2>3. QED
    BY <1>5, <2>1, <2>2
<1>7. Seen' = DOMAIN u.freq
  BY <1>6 DEF Seen
<1>8. pc' \in {"mine", "sort"}
  BY <1>6
<1>9. Ids' = Ids /\ Counts' = Counts
  BY <1>1 DEF Ids, Counts
<1>10. StateType'
  <2>1. pc' \in Phases /\ setup' \in Setups /\ transaction' \in SUBSET Ids'
        /\ mTxnNum' \in 0 .. (setup'.length - 1)
    BY <1>1, <1>4, <1>8, <1>9 DEF IInv, StateType, Phases
  <2>2. window' \in Windows(setup'.items) /\ Len(window') <= setup'.length
    BY <1>1, <1>2
  <2>3. DOMAIN order' \subseteq Seen' /\ \A i \in DOMAIN order' : order'[i] \in Counts' \cup Scores
    <3>1. CASE order' = order
      BY <1>2, <1>4, <1>7, <1>9, <3>1
    <3>2. CASE Sortable(order')
      BY <1>7, <1>9, <3>2 DEF Sortable, u
    <3>3. QED
      BY <1>6, <3>1, <3>2
  <2>4. Seen' \subseteq Ids'
    BY <1>2, <1>4, <1>7, <1>9 DEF IInv, StateType
  <2>5. QED
    BY <2>1, <2>2, <2>3, <2>4 DEF StateType
<1>11. Keeps(tree, window)'
  BY <1>1, <1>6
<1>12. Interned'
  BY <1>2, <1>7, <1>8 DEF Interned
<1>13. Flow'
  <2>1. pc' = "sort" => tree'.next # 0
    BY <1>6
  <2>2. QED
    BY <1>1, <1>4, <1>8, <2>1 DEF Flow, InSort
<1>14. Orders'
  <2>1. CASE pc' = "mine"
    <3>1. InOrder(tree', order') /\ order' = order /\ ~ InSort'
      BY <1>6, <2>1 DEF InSort
    <3>2. QED
      BY <1>1, <2>1, <3>1 DEF IInv, Orders
  <2>2. CASE pc' = "sort"
    <3>1. /\ tree'.freq = u.freq /\ Sortable(order')
          /\ On(tree'.leaves) = Ahead(tree') /\ InSort'
      BY <1>6, <2>2 DEF InSort
    <3>2. SortedBehind(tree', order', path')
      BY <3>1 DEF SortedBehind
    <3>3. setup.functor \in {"cp", "spo"} =>
            /\ \E m \in Nat : DOMAIN order' = 1 .. m
            /\ \A i \in DOMAIN order' : order'[i] \in Nat
            /\ order' = tree'.freq
      <4>1. Counts \subseteq Nat
        BY <1>3 DEF Counts
      <4>2. setup.functor \in {"cp", "spo"} => order' = u.freq
        BY <3>1 DEF Sortable, u
      <4>3. QED
        BY <1>2, <3>1, <4>1, <4>2
    <3>4. QED
      BY <1>1, <3>1, <3>2, <3>3 DEF Orders
  <2>3. QED
    BY <1>8, <2>1, <2>2
<1>15. MineCount'
  <2>1. Len(window) < setup.length - 1 => mTxnNum = Len(window)
    BY <1>1, <1>2, <1>3 DEF IInv, MineCount
  <2>2. Len(window') < setup.length => mTxnNum' = Len(window') - 1
    BY <1>1, <1>2, <1>3, <2>1
  <2>3. QED
    BY <1>1, <1>8, <2>2 DEF MineCount
<1>16. QED
  BY <1>1, <1>10, <1>11, <1>12, <1>13, <1>14, <1>15

(* The OnLoad of a CP-tree or CanTree.                                     *)
LEMMA CpOnLoadHolds == ASSUME IInv, CpOnLoad PROVE IInv'
<1>1. /\ setup.functor = "cp" /\ Enter /\ UNCHANGED <<ranks, tally>>
      /\ IF count + 1 = setup.interval THEN SortBy(Loaded.freq) ELSE LeaveUnsorted
      /\ count' = IF setup.interval = 0 THEN count ELSE count + 1
  BY DEF CpOnLoad
<1>2. pc = "load"
  BY <1>1 DEF Enter
<1>3. Sortable(Loaded.freq)
  BY <1>2, LoadedIs DEF Sortable
<1>4. /\ StateType' /\ Keeps(tree, window)' /\ Interned' /\ Flow' /\ Orders' /\ MineCount'
      /\ setup' = setup
  <2>1. LeaveUnsorted \/ \E table : Sortable(table) /\ SortBy(table)
    BY <1>1, <1>3
  <2>2. QED
    BY <1>1, <2>1, LoadHolds
<1>5. SortCount'
  <2>1. count \in Nat /\ (setup.interval # 0 => count < setup.interval)
        /\ (setup.interval = 0 => count = 0) /\ setup.interval \in Nat
    BY <1>1, <1>2, Known DEF IInv, SortCount, Due, NeverDue
  <2>2. pc' \in {"read", "unload", "load", "mine"} => count + 1 # setup.interval
    BY <1>1 DEF SortBy
  <2>3. count' \in Nat /\ count' <= setup.interval
        /\ (pc' \in {"read", "unload", "load", "mine"} /\ setup.interval # 0
              => count' # setup.interval)
    BY <1>1, <2>1, <2>2
  <2>4. QED
    BY <1>1, <1>4, <2>3 DEF SortCount, Due, NeverDue
<1>6. TallyCount'
  BY <1>1, <1>4 DEF IInv, TallyCount
<1>7. QED
  BY <1>4, <1>5, <1>6 DEF IInv

(* The OnLoad of an SPO-tree.                                              *)
LEMMA SpoOnLoadHolds == ASSUME IInv, SpoOnLoad PROVE IInv'
<1>1. /\ setup.functor = "spo" /\ Enter /\ UNCHANGED <<count, tally>>
      /\ \/ SortBy(Loaded.freq)
         \/ LeaveUnsorted
  BY DEF SpoOnLoad
<1>2. pc = "load"
  BY <1>1 DEF Enter
<1>3. Sortable(Loaded.freq)
  BY <1>2, LoadedIs DEF Sortable
<1>4. /\ StateType' /\ Keeps(tree, window)' /\ Interned' /\ Flow' /\ Orders' /\ MineCount'
      /\ setup' = setup
  <2>1. LeaveUnsorted \/ \E table : Sortable(table) /\ SortBy(table)
    BY <1>1, <1>3
  <2>2. QED
    BY <1>1, <2>1, LoadHolds
<1>5. SortCount'
  BY <1>1, <1>4 DEF IInv, SortCount, Due, NeverDue
<1>6. TallyCount'
  BY <1>1, <1>4 DEF IInv, TallyCount
<1>7. QED
  BY <1>4, <1>5, <1>6 DEF IInv

(* The OnLoad of an extrapolation tree.                                    *)
LEMMA ExtrapOnLoadHolds == ASSUME IInv, ExtrapOnLoad PROVE IInv'
<1>1. /\ setup.functor = "extrap" /\ Enter /\ UNCHANGED <<ranks, tally>> /\ count' = count + 1
      /\ IF count + 1 = setup.length
         THEN \E mList \in [DOMAIN Loaded.freq -> Scores] : SortBy(mList)
         ELSE LeaveUnsorted
  BY DEF ExtrapOnLoad
<1>2. pc = "load"
  BY <1>1 DEF Enter
<1>3. \A mList \in [DOMAIN Loaded.freq -> Scores] : Sortable(mList)
  BY <1>1 DEF Sortable
<1>4. /\ StateType' /\ Keeps(tree, window)' /\ Interned' /\ Flow' /\ Orders' /\ MineCount'
      /\ setup' = setup
  <2>1. LeaveUnsorted \/ \E table : Sortable(table) /\ SortBy(table)
    BY <1>1, <1>3
  <2>2. QED
    BY <1>1, <2>1, LoadHolds
<1>5. SortCount'
  <2>1. count \in Nat /\ count < setup.length /\ setup.length \in Nat \ {0}
    BY <1>1, <1>2, Known DEF IInv, SortCount, Due, NeverDue
  <2>2. pc' \in {"read", "unload", "load", "mine"} => count + 1 # setup.length
    BY <1>1 DEF SortBy
  <2>3. count' \in Nat /\ count' <= setup.length
        /\ (pc' \in {"read", "unload", "load", "mine"} => count' # setup.length)
    BY <1>1, <2>1, <2>2
  <2>4. QED
    BY <1>1, <1>4, <2>3 DEF SortCount, Due, NeverDue
<1>6. TallyCount'
  BY <1>1, <1>4 DEF IInv, TallyCount
<1>7. QED
  BY <1>4, <1>5, <1>6 DEF IInv

(* The OnLoad of a disc tree.                                              *)
LEMMA DiscOnLoadHolds == ASSUME IInv, DiscOnLoad PROVE IInv'
<1> DEFINE Table(score) == [x \in DOMAIN order \cup tally'.mItems |->
                              IF x \in tally'.mItems THEN score[x] ELSE order[x]]
<1>1. /\ setup.functor = "disc" /\ Enter /\ UNCHANGED ranks /\ count' = count + 1
      /\ tally' = TallyLoad(tally, transaction)
      /\ IF count + 1 = setup.interval
         THEN \E score \in [tally'.mItems -> Scores] : SortBy(Table(score))
         ELSE LeaveUnsorted
  BY DEF DiscOnLoad
<1>2. pc = "load" /\ window' = Append(window, transaction)
  BY <1>1 DEF Enter
<1>3. /\ setup.items \in Nat /\ window \in Windows(setup.items)
      /\ transaction \in (SUBSET (1 .. setup.items)) \ {{}}
      /\ Tallies(tally, window, setup.items)
  BY <1>1, <1>2, Known DEF IInv, StateType, Flow, TallyCount, Ids
<1>4. Tallies(tally', window', setup.items)
  <2>1. Tallies(TallyLoad(tally, transaction), Append(window, transaction), setup.items)
    BY <1>3, TalliesLoad
  <2>2. QED
    BY <1>1, <1>2, <2>1
<1>5. tally'.mItems \subseteq DOMAIN Loaded.freq
  <2>1. SUFFICES ASSUME NEW x \in tally'.mItems PROVE x \in DOMAIN Loaded.freq
    OBVIOUS
  <2> DEFINE V == Append(window, transaction)
             K == {k \in DOMAIN V : {x} \subseteq V[k]}
  <2>2. V \in Windows(setup.items) /\ Keeps(Loaded, V)
    BY <1>2, LoadedIs
  <2>3. Cardinality(K) > 0
    BY <1>2, <1>4 DEF Tallies, Occurring
  <2>4. PICK k \in DOMAIN V : x \in V[k]
    <3>1. K # {}
      <4> HIDE DEF K
      <4>1. SUFFICES ASSUME K = {} PROVE FALSE
        OBVIOUS
      <4>2. Cardinality(K) = 0
        BY <4>1, FS_EmptySet
      <4>3. QED
        BY <2>3, <4>2
    <3>2. QED
      BY <3>1
  <2> HIDE DEF V, K
  <2>5. PICK P : Spells(P, V) /\ Stands(Loaded, P)
    BY <2>2 DEF Keeps
  <2>6. On(P[k]) = V[k] /\ k \in DOMAIN P
    BY <1>3, <2>2, <2>4, <2>5, PathsIs
  <2>7. QED
    BY <2>4, <2>5, <2>6 DEF Stands
<1>6. \A score \in [tally'.mItems -> Scores] : Sortable(Table(score))
  <2>1. SUFFICES ASSUME NEW score \in [tally'.mItems -> Scores] PROVE Sortable(Table(score))
    OBVIOUS
  <2>2. DOMAIN order \subseteq Seen /\ \A i \in DOMAIN order : order[i] \in Counts \cup Scores
    BY DEF IInv, StateType
  <2>3. DOMAIN Loaded.freq = Seen \cup transaction
    BY <1>2, LoadedIs
  <2>4. QED
    BY <1>1, <1>5, <2>2, <2>3 DEF Sortable
<1>7. /\ StateType' /\ Keeps(tree, window)' /\ Interned' /\ Flow' /\ Orders' /\ MineCount'
      /\ setup' = setup
  <2> HIDE DEF Table
  <2>1. LeaveUnsorted \/ \E table : Sortable(table) /\ SortBy(table)
    BY <1>1, <1>6
  <2>2. QED
    BY <1>1, <2>1, LoadHolds
<1>8. SortCount'
  <2>1. /\ count \in Nat /\ setup.interval \in Nat
        /\ setup.interval # 0 => count < setup.interval
    BY <1>1, <1>2, Known DEF IInv, SortCount, Due, NeverDue
  <2>2. pc' \in {"read", "unload", "load", "mine"} => count + 1 # setup.interval
    BY <1>1 DEF SortBy
  <2>3. count' \in Nat /\ (setup.interval # 0 => count' <= setup.interval)
        /\ (pc' \in {"read", "unload", "load", "mine"} => count' # setup.interval)
    BY <1>1, <2>1, <2>2
  <2>4. QED
    BY <1>1, <1>7, <2>3 DEF SortCount, Due, NeverDue
<1>9. TallyCount'
  BY <1>1, <1>4, <1>7 DEF TallyCount
<1>10. QED
  BY <1>7, <1>8, <1>9 DEF IInv

(* Sort's iterator returns a path, or the loop ends.                       *)
LEMMA SortNextHolds == ASSUME IInv, SortNext PROVE IInv'
<1>1. /\ pc = "sort"
      /\ IF HasNext(tree)
         THEN path' = NextLeaf(tree) /\ tree' = Advance(tree) /\ pc' = "replace"
         ELSE tree' = EndSort(tree) /\ pc' = "sorted" /\ path' = path
      /\ UNCHANGED <<setup, transaction, window, order, count, ranks, tally, mTxnNum>>
  BY DEF SortNext
<1>2. /\ Len(tree.leaves) \in Nat /\ tree.next \in 0 .. (Len(tree.leaves) + 1)
      /\ setup.items \in Nat
  BY Known
<1>3. /\ path = << >> /\ tree.next # 0 /\ SortedBehind(tree, order, << >>) /\ Keeps(tree, window)
      /\ window \in Windows(setup.items)
      /\ setup.functor \in {"cp", "spo"} =>
           /\ \E m \in Nat : DOMAIN order = 1 .. m
           /\ \A i \in DOMAIN order : order[i] \in Nat
           /\ order = tree.freq
  BY <1>1 DEF IInv, Flow, Orders, StateType, InSort
<1> DEFINE next == IF HasNext(tree) THEN tree.next + 1 ELSE 0
           u == [tree EXCEPT !.next = next]
<1>4. tree' = u
  BY <1>1 DEF Advance, EndSort
<1>5. next \in 0 .. (Len(tree.leaves) + 1)
  BY <1>2 DEF HasNext
<1>6. /\ Keeps(tree', window) /\ Nodes(tree') = Nodes(tree) /\ tree'.freq = tree.freq
      /\ tree'.leaves = tree.leaves /\ tree'.next = next
  <2> HIDE DEF next
  <2>1. /\ Keeps(u, window) /\ Nodes(u) = Nodes(tree) /\ u.freq = tree.freq
        /\ u.leaves = tree.leaves /\ u.next = next
    BY <1>3, <1>5, KeepsIterator
  <2> HIDE DEF u
  <2>2. QED
    BY <1>4, <2>1
<1> HIDE DEF u
<1>7. ASSUME HasNext(tree) PROVE pc' = "replace" /\ Flow' /\ Orders'
  <2>1. path' = tree.leaves[tree.next] /\ pc' = "replace" /\ tree'.next = tree.next + 1
    BY <1>1, <1>6, <1>7 DEF NextLeaf
  <2>2. tree.next \in DOMAIN tree.leaves /\ tree.leaves \in Seq(Routes)
        /\ DOMAIN tree.leaves = 1 .. Len(tree.leaves)
    BY <1>2, <1>3, <1>7, SeqIs DEF HasNext, Keeps, Leafed, IsList
  <2>3. path' \in On(tree'.leaves)
    BY <1>6, <2>1, <2>2 DEF On
  <2>4. SortedBehind(tree', order, path')
    <3>1. ASSUME NEW p \in Ahead(tree) PROVE p \in Ahead(tree') \/ p = path'
      <4>1. PICK j \in DOMAIN tree.leaves : j >= tree.next /\ p = tree.leaves[j]
        BY DEF Ahead
      <4>2. j = tree.next \/ j >= tree.next + 1
        BY <1>2, <2>2, <4>1
      <4>3. QED
        BY <1>6, <2>1, <4>1, <4>2 DEF Ahead
    <3>2. \A p \in On(tree.leaves) : p # << >>
      BY <1>2, <1>3, KeptNodes DEF Keeps, Leafed, Childless
    <3>3. QED
      BY <1>3, <1>6, <3>1, <3>2 DEF SortedBehind
  <2>5. tree'.next # 0
    BY <1>2, <2>1
  <2>6. Flow'
    BY <2>1, <2>3, <2>5 DEF Flow
  <2>7. Orders'
    <3>1. InSort' /\ order' = order /\ setup' = setup
      BY <1>1, <2>1 DEF InSort
    <3>2. setup'.functor \in {"cp", "spo"} =>
            /\ \E m \in Nat : DOMAIN order' = 1 .. m
            /\ \A i \in DOMAIN order' : order'[i] \in Nat
            /\ InSort' \/ pc' = "sorted" => order' = tree'.freq
      BY <1>3, <1>6, <3>1
    <3>3. SortedBehind(tree, order, path)'
      BY <2>4, <3>1
    <3>4. QED
      BY <3>1, <3>2, <3>3 DEF Orders
  <2>8. QED
    BY <2>1, <2>6, <2>7
<1>8. ASSUME ~ HasNext(tree) PROVE pc' = "sorted" /\ Flow' /\ Orders'
  <2>1. path' = << >> /\ pc' = "sorted"
    BY <1>1, <1>3, <1>8
  <2>2. tree.next > Len(tree.leaves)
    BY <1>2, <1>8 DEF HasNext
  <2>3. InOrder(tree, order)
    BY <1>2, <1>3, <2>2, SortedAtEnd
  <2>4. InOrder(tree', order)
    BY <1>6, <2>3 DEF InOrder
  <2>5. Flow'
    BY <2>1 DEF Flow, InSort
  <2>6. Orders'
    <3>1. ~ InSort' /\ order' = order /\ setup' = setup
      BY <1>1, <2>1 DEF InSort
    <3>2. setup'.functor \in {"cp", "spo"} =>
            /\ \E m \in Nat : DOMAIN order' = 1 .. m
            /\ \A i \in DOMAIN order' : order'[i] \in Nat
            /\ InSort' \/ pc' = "sorted" => order' = tree'.freq
      BY <1>3, <1>6, <3>1
    <3>3. InOrder(tree, order)'
      BY <2>4, <3>1
    <3>4. QED
      BY <3>1, <3>2, <3>3 DEF Orders
  <2>7. QED
    BY <2>1, <2>5, <2>6
<1>9. pc' \in {"replace", "sorted"} /\ Flow' /\ Orders'
  BY <1>7, <1>8
<1>10. Seen' = Seen
  BY <1>6 DEF Seen
<1>11. StateType'
  BY <1>1, <1>9, <1>10 DEF IInv, StateType, Phases, Ids, Counts
<1>12. Keeps(tree, window)'
  BY <1>1, <1>6
<1>13. Interned'
  BY <1>9, <1>10 DEF IInv, Interned
<1>14. SortCount'
  BY <1>1, <1>9 DEF IInv, SortCount, Due, NeverDue
<1>15. MineCount'
  BY <1>1, <1>9 DEF IInv, MineCount, InSort
<1>16. TallyCount'
  BY <1>1 DEF IInv, TallyCount
<1>17. QED
  BY <1>9, <1>11, <1>12, <1>13, <1>14, <1>15, <1>16 DEF IInv

(* A turn of Sort's loop.                                                  *)
LEMMA SortReplaceHolds == ASSUME IInv, SortReplace PROVE IInv'
<1>1. /\ pc = "replace" /\ pc' = "sort" /\ path' = << >>
      /\ tree' = SortPath(tree, path, Comparator)
      /\ UNCHANGED <<setup, transaction, window, order, count, ranks, tally, mTxnNum>>
  BY DEF SortReplace
<1>2. setup.items \in Nat /\ IsTable(order)
  BY Known
<1>3. /\ path \in On(tree.leaves) /\ tree.next # 0
      /\ SortedBehind(tree, order, path) /\ Keeps(tree, window)
      /\ window \in Windows(setup.items)
      /\ setup.functor \in {"cp", "spo"} =>
           /\ \E m \in Nat : DOMAIN order = 1 .. m
           /\ \A i \in DOMAIN order : order[i] \in Nat
           /\ order = tree.freq
  BY <1>1 DEF IInv, Flow, Orders, StateType, InSort
<1>4. Comparator = order
  BY <1>3 DEF Comparator
<1>5. /\ Keeps(tree', window) /\ tree'.freq = tree.freq
      /\ tree'.next = 0 <=> tree.next = 0
      /\ SortedBehind(tree', order, << >>)
  <2> DEFINE u == SortPath(tree, path, order)
  <2>1. /\ Keeps(u, window) /\ u.freq = tree.freq
        /\ u.next = 0 <=> tree.next = 0
        /\ SortedBehind(u, order, << >>)
    BY <1>2, <1>3, KeepsSortPath
  <2>2. tree' = u
    BY <1>1, <1>4
  <2> HIDE DEF u
  <2>3. QED
    BY <2>1, <2>2
<1>6. Seen' = Seen
  BY <1>5 DEF Seen
<1>7. StateType'
  BY <1>1, <1>6 DEF IInv, StateType, Phases, Ids, Counts
<1>8. Keeps(tree, window)'
  BY <1>1, <1>5
<1>9. Interned'
  BY <1>1, <1>6 DEF IInv, Interned
<1>10. Flow'
  BY <1>1, <1>3, <1>5 DEF Flow
<1>11. Orders'
  BY <1>1, <1>3, <1>5 DEF Orders, InSort
<1>12. SortCount'
  BY <1>1 DEF IInv, SortCount, Due, NeverDue
<1>13. MineCount'
  BY <1>1 DEF IInv, MineCount, InSort
<1>14. TallyCount'
  BY <1>1 DEF IInv, TallyCount
<1>15. QED
  BY <1>7, <1>8, <1>9, <1>10, <1>11, <1>12, <1>13, <1>14 DEF IInv

(* The sort returns to OnLoad.                                             *)
LEMMA SortReturnsHolds == ASSUME IInv, SortReturns PROVE IInv'
<1>1. /\ pc = "sorted" /\ pc' = "mine" /\ transaction # {} /\ count' = 0
      /\ UNCHANGED <<setup, transaction, window, tree, path, order, tally, mTxnNum>>
  BY DEF SortReturns
<1>2. ~ InSort /\ ~ InSort' /\ Seen' = Seen
  BY <1>1 DEF InSort, Seen
<1>3. setup.length \in Nat \ {0} /\ setup.interval \in Nat
  BY Known
<1>4. StateType'
  BY <1>1, <1>2 DEF IInv, StateType, Phases, Ids, Counts
<1>5. Keeps(tree, window)'
  BY <1>1 DEF IInv
<1>6. Interned'
  BY <1>1, <1>2 DEF IInv, Interned
<1>7. Flow'
  BY <1>1, <1>2 DEF IInv, Flow
<1>8. Orders'
  BY <1>1, <1>2 DEF IInv, Orders
<1>9. SortCount'
  <2>1. Due \in Nat
    BY <1>3 DEF Due
  <2>2. Due' = Due /\ NeverDue' = NeverDue
    BY <1>1 DEF Due, NeverDue
  <2>3. QED
    BY <1>1, <2>1, <2>2 DEF SortCount
<1>10. MineCount'
  BY <1>1, <1>2 DEF IInv, MineCount
<1>11. TallyCount'
  BY <1>1 DEF IInv, TallyCount
<1>12. QED
  BY <1>4, <1>5, <1>6, <1>7, <1>8, <1>9, <1>10, <1>11 DEF IInv

(* The transaction is counted, and the tree perhaps mined.                 *)
LEMMA MineHolds == ASSUME IInv, Mine PROVE IInv'
<1> DEFINE n == setup.length
           m == mTxnNum
<1>1. /\ pc = "mine" /\ pc' = "read" /\ transaction' = {} /\ mTxnNum' = (m + 1) % n
      /\ UNCHANGED <<setup, window, tree, path, order, count, ranks, tally>>
  BY DEF Mine
<1>2. ~ InSort /\ ~ InSort' /\ Seen' = Seen
  BY <1>1 DEF InSort, Seen
<1>3. n \in Nat \ {0} /\ m \in 0 .. (n - 1) /\ Len(window) \in 0 .. n
  BY Known DEF IInv, StateType
<1>4. mTxnNum' \in 0 .. (n - 1)
  <2> HIDE DEF n, m
  <2>1. (m + 1) % n \in 0 .. (n - 1)
    BY <1>3
  <2>2. QED
    BY <1>1, <2>1
<1>5. StateType'
  BY <1>1, <1>2, <1>4 DEF IInv, StateType, Phases, Ids, Counts
<1>6. Keeps(tree, window)'
  BY <1>1 DEF IInv
<1>7. Interned'
  BY <1>1, <1>2 DEF IInv, Interned
<1>8. Flow'
  BY <1>1, <1>2 DEF IInv, Flow
<1>9. Orders'
  BY <1>1, <1>2 DEF IInv, Orders
<1>10. SortCount'
  BY <1>1 DEF IInv, SortCount, Due, NeverDue
<1>11. MineCount'
  <2>1. Len(window) < n => m = Len(window) - 1
    BY <1>1 DEF IInv, MineCount, Flow
  <2>2. Len(window) < n => mTxnNum' = Len(window)
    <3>1. SUFFICES ASSUME Len(window) < n PROVE mTxnNum' = Len(window)
      OBVIOUS
    <3>2. m + 1 = Len(window) /\ m + 1 \in 0 .. (n - 1)
      BY <1>3, <2>1, <3>1
    <3> HIDE DEF n, m
    <3>3. (m + 1) % n = m + 1
      BY <1>3, <3>2
    <3>4. QED
      BY <1>1, <3>2, <3>3
  <2>3. QED
    BY <1>1, <1>2, <2>2 DEF MineCount
<1>12. TallyCount'
  BY <1>1 DEF IInv, TallyCount
<1>13. QED
  BY <1>5, <1>6, <1>7, <1>8, <1>9, <1>10, <1>11, <1>12 DEF IInv

(* The file ends: an SPO-tree is sorted once more.                         *)
LEMMA OnEndLoadHolds == ASSUME IInv, OnEndLoad PROVE IInv'
<1>1. /\ pc = "read"
      /\ \/ /\ setup.functor = "spo" /\ order' = tree.freq
            /\ tree' = StartSort(tree) /\ pc' = "sort"
         \/ pc' = "end" /\ order' = order /\ tree' = tree
      /\ UNCHANGED <<setup, transaction, window, path, count, ranks, tally, mTxnNum>>
  BY DEF OnEndLoad
<1>2. setup.length \in Nat \ {0} /\ setup.items \in Nat /\ Len(window) \in 0 .. setup.length
  BY Known
<1>3. /\ path = << >> /\ Keeps(tree, window) /\ InOrder(tree, order) /\ ~ InSort
      /\ window \in Windows(setup.items)
      /\ \E m \in Nat : Seen = 1 .. m
  BY <1>1 DEF IInv, Flow, Orders, StateType, InSort, Interned
<1>4. \A i \in DOMAIN tree.freq : tree.freq[i] \in 0 .. Len(window)
  BY <1>2, <1>3, KeptNodes
<1>5. CASE pc' = "end" /\ order' = order /\ tree' = tree
  <2>1. ~ InSort' /\ Seen' = Seen
    BY <1>5 DEF InSort, Seen
  <2>2. StateType'
    BY <1>1, <1>5, <2>1 DEF IInv, StateType, Phases, Ids, Counts
  <2>3. Flow'
    BY <1>3, <1>1, <1>5, <2>1 DEF Flow
  <2>4. Orders'
    BY <1>1, <1>3, <1>5, <2>1 DEF IInv, Orders
  <2>5. Interned'
    BY <1>1, <1>5, <2>1 DEF IInv, Interned
  <2>6. Keeps(tree, window)' /\ TallyCount'
    BY <1>1, <1>5 DEF IInv, TallyCount
  <2>7. SortCount'
    BY <1>1, <1>5 DEF IInv, SortCount, Due, NeverDue
  <2>8. MineCount'
    BY <1>1, <1>5, <2>1 DEF MineCount
  <2>9. QED
    BY <2>2, <2>3, <2>4, <2>5, <2>6, <2>7, <2>8 DEF IInv
<1>6. CASE /\ setup.functor = "spo" /\ order' = tree.freq
           /\ tree' = StartSort(tree) /\ pc' = "sort"
  <2>1. /\ Keeps(tree', window) /\ tree'.freq = tree.freq
        /\ tree'.leaves = tree.leaves /\ tree'.next = 1
    <3> DEFINE w == [tree EXCEPT !.next = 1]
    <3>1. 1 \in 0 .. (Len(tree.leaves) + 1)
      BY <1>3, SeqIs DEF Keeps, Leafed, IsList
    <3>2. Keeps(w, window) /\ w.freq = tree.freq /\ w.leaves = tree.leaves /\ w.next = 1
      BY <1>3, <3>1, KeepsIterator
    <3>3. tree' = w
      BY <1>6 DEF StartSort
    <3> HIDE DEF w
    <3>4. QED
      BY <3>2, <3>3
  <2>2. InSort' /\ Seen' = Seen
    BY <1>6, <2>1 DEF InSort, Seen
  <2>3. transaction = {}
    BY <1>1 DEF IInv, Flow
  <2>4. \A i \in Seen : tree.freq[i] \in Counts /\ tree.freq[i] \in Nat
    BY <1>2, <1>4 DEF Counts, Seen
  <2>5. StateType'
    <3>1. DOMAIN order' = Seen /\ \A i \in DOMAIN order' : order'[i] \in Counts
      BY <1>6, <2>4 DEF Seen
    <3>2. QED
      BY <1>1, <1>6, <2>2, <3>1 DEF IInv, StateType, Phases, Ids, Counts
  <2>6. Flow'
    BY <1>1, <1>3, <1>6, <2>1 DEF Flow
  <2>7. Orders'
    <3>1. SortedBehind(tree', order', path')
      <4>1. On(tree'.leaves) = Ahead(tree')
        <5>1. DOMAIN tree.leaves = 1 .. Len(tree.leaves) /\ Len(tree.leaves) \in Nat
          BY <1>3, SeqIs DEF Keeps, Leafed, IsList
        <5>2. \A i \in DOMAIN tree.leaves : i >= 1
          BY <5>1
        <5>3. QED
          BY <2>1, <5>2 DEF On, Ahead
      <4>2. QED
        BY <4>1 DEF SortedBehind
    <3>2. \E m \in Nat : DOMAIN order' = 1 .. m
      BY <1>3, <1>6 DEF Seen
    <3>3. \A i \in DOMAIN order' : order'[i] \in Nat
      BY <1>6, <2>4 DEF Seen
    <3>4. order' = tree'.freq
      BY <1>6, <2>1
    <3>5. QED
      BY <2>2, <3>1, <3>2, <3>3, <3>4 DEF Orders
  <2>8. Interned'
    BY <1>3, <1>6, <2>2 DEF Interned
  <2>9. Keeps(tree, window)'
    BY <1>1, <2>1
  <2>10. SortCount'
    BY <1>1, <1>6 DEF IInv, SortCount, Due, NeverDue
  <2>11. MineCount'
    BY <1>1, <1>6, <2>3 DEF MineCount
  <2>12. TallyCount'
    BY <1>1 DEF IInv, TallyCount
  <2>13. QED
    BY <2>5, <2>6, <2>7, <2>8, <2>9, <2>10, <2>11, <2>12 DEF IInv
<1>7. QED
  BY <1>1, <1>5, <1>6

(* The last sort returns, and the loading ends.                            *)
LEMMA EndLoadReturnsHolds == ASSUME IInv, EndLoadReturns PROVE IInv'
<1>1. /\ pc = "sorted" /\ pc' = "end"
      /\ UNCHANGED <<setup, transaction, window, tree, path, order, count, ranks, tally, mTxnNum>>
  BY DEF EndLoadReturns
<1>2. ~ InSort /\ ~ InSort' /\ Seen' = Seen
  BY <1>1 DEF InSort, Seen
<1>3. StateType'
  BY <1>1, <1>2 DEF IInv, StateType, Phases, Ids, Counts
<1>4. Keeps(tree, window)'
  BY <1>1 DEF IInv
<1>5. Interned'
  BY <1>1, <1>2 DEF IInv, Interned
<1>6. Flow'
  BY <1>1, <1>2 DEF IInv, Flow
<1>7. Orders'
  BY <1>1, <1>2 DEF IInv, Orders
<1>8. SortCount'
  BY <1>1 DEF IInv, SortCount, Due, NeverDue
<1>9. MineCount'
  BY <1>1, <1>2 DEF MineCount
<1>10. TallyCount'
  BY <1>1 DEF IInv, TallyCount
<1>11. QED
  BY <1>3, <1>4, <1>5, <1>6, <1>7, <1>8, <1>9, <1>10 DEF IInv

(* Nothing changes.                                                        *)
LEMMA StutterHolds == ASSUME IInv, UNCHANGED vars PROVE IInv'
<1>1. UNCHANGED <<pc, setup, transaction, window, tree, path, order, count, ranks, tally, mTxnNum>>
  BY DEF vars
<1>2. InSort' = InSort /\ Seen' = Seen
  BY <1>1 DEF InSort, Seen
<1>3. StateType' /\ Keeps(tree, window)' /\ Interned'
  BY <1>1, <1>2 DEF IInv, StateType, Ids, Counts, Interned
<1>4. Flow' /\ Orders'
  BY <1>1, <1>2 DEF IInv, Flow, Orders
<1>5. SortCount' /\ MineCount' /\ TallyCount'
  BY <1>1, <1>2 DEF IInv, SortCount, Due, NeverDue, MineCount, TallyCount
<1>6. QED
  BY <1>3, <1>4, <1>5 DEF IInv

(* Every step keeps the invariant.                                         *)
LEMMA NextHolds == IInv /\ [Next]_vars => IInv'
<1> SUFFICES ASSUME IInv, [Next]_vars PROVE IInv'
  OBVIOUS
<1>1. CASE \E txn \in Transactions : GetNext(txn)
  BY <1>1, GetNextHolds
<1>2. CASE OnUnload
  BY <1>2, OnUnloadHolds
<1>3. CASE CpOnLoad
  BY <1>3, CpOnLoadHolds
<1>4. CASE SpoOnLoad
  BY <1>4, SpoOnLoadHolds
<1>5. CASE ExtrapOnLoad
  BY <1>5, ExtrapOnLoadHolds
<1>6. CASE DiscOnLoad
  BY <1>6, DiscOnLoadHolds
<1>7. CASE SortNext
  BY <1>7, SortNextHolds
<1>8. CASE SortReplace
  BY <1>8, SortReplaceHolds
<1>9. CASE SortReturns
  BY <1>9, SortReturnsHolds
<1>10. CASE Mine
  BY <1>10, MineHolds
<1>11. CASE OnEndLoad
  BY <1>11, OnEndLoadHolds
<1>12. CASE EndLoadReturns
  BY <1>12, EndLoadReturnsHolds
<1>13. CASE Terminated
  BY <1>13, StutterHolds DEF Terminated
<1>14. CASE UNCHANGED vars
  BY <1>14, StutterHolds
<1>15. QED
  BY <1>1, <1>2, <1>3, <1>4, <1>5, <1>6, <1>7, <1>8, <1>9, <1>10, <1>11, <1>12, <1>13, <1>14
  DEF Next

(* The inductive invariant holds.                                          *)
THEOREM IInvHolds == Spec => []IInv
<1>1. QED
  BY InitHolds, NextHolds, PTL DEF Spec
-----------------------------------------------------------------------------
(* The ranking of an SPO-tree.                                             *)

(* What DiffSumValid sums up for the ranks S.                              *)
Spread(r, S) ==
  LET iter[s \in SUBSET S] ==
        IF s = {} THEN 0
        ELSE LET x == CHOOSE x \in s : TRUE IN Distance(r, x) + iter[s \ {x}]
  IN iter[S]

(* It is a sum.                                                            *)
LEMMA SpreadIs ==
  ASSUME NEW S, IsFiniteSet(S), NEW r
  PROVE  \E g : Sums(g, [k \in S |-> Distance(r, k)], S) /\ Spread(r, S) = g[S]
<1> DEFINE f == [k \in S |-> Distance(r, k)]
           pick(s) == CHOOSE x \in s : TRUE
           Adds(g) == g = [s \in SUBSET S |->
                             IF s = {} THEN 0
                             ELSE Distance(r, pick(s)) + g[s \ {pick(s)}]]
           g == CHOOSE g : Adds(g)
<1>1. \A s \in SUBSET S : s # {} => f[pick(s)] = Distance(r, pick(s))
  <2>1. \A s \in SUBSET S : s # {} => pick(s) \in s
    OBVIOUS
  <2> HIDE DEF pick
  <2>2. QED
    BY <2>1
<1>2. \A h : Sums(h, f, S) <=> Adds(h)
  <2>1. ASSUME NEW h
        PROVE  Sums(h, f, S) <=>
                 h = [s \in SUBSET S |-> IF s = {} THEN 0 ELSE f[pick(s)] + h[s \ {pick(s)}]]
    BY DEF Sums
  <2>2. ASSUME NEW h
        PROVE  [s \in SUBSET S |-> IF s = {} THEN 0 ELSE f[pick(s)] + h[s \ {pick(s)}]]
                 = [s \in SUBSET S |->
                      IF s = {} THEN 0 ELSE Distance(r, pick(s)) + h[s \ {pick(s)}]]
    <3> HIDE DEF pick, f
    <3>1. QED
      BY <1>1
  <2> HIDE DEF pick, f
  <2>3. QED
    BY <2>1, <2>2
<1>3. \E h : Sums(h, f, S)
  BY SumExists
<1>4. Spread(r, S) = g[S]
  BY DEF Spread
<1> HIDE DEF f, Adds
<1>5. Adds(g)
  BY <1>2, <1>3
<1>6. Sums(g, f, S)
  BY <1>2, <1>5
<1> HIDE DEF g
<1>7. QED
  BY <1>4, <1>6 DEF f

(* The inner loop's states exist: a least counterexample is refuted.       *)
Turns(f, n, r, freq, item) ==
  f = [turn \in 0 .. n |-> IF turn = 0 THEN r ELSE MoveUp(f[turn - 1], freq, item)]

LEMMA TurnsExist ==
  ASSUME NEW r, NEW freq, NEW item, NEW N \in Nat
  PROVE  \E f : Turns(f, N, r, freq, item)
<1> DEFINE bad == {n \in Nat : ~ \E f : Turns(f, n, r, freq, item)}
<1>1. Turns([turn \in 0 .. 0 |-> r], 0, r, freq, item)
  <2> DEFINE f == [turn \in 0 .. 0 |-> r]
  <2>1. f = [turn \in 0 .. 0 |-> IF turn = 0 THEN r ELSE MoveUp(f[turn - 1], freq, item)]
    OBVIOUS
  <2>2. QED
    BY <2>1 DEF Turns
<1>2. ASSUME NEW n \in Nat, NEW f, Turns(f, n, r, freq, item)
      PROVE  \E h : Turns(h, n + 1, r, freq, item)
  <2> DEFINE next(turn) == IF turn = 0 THEN r ELSE MoveUp(f[turn - 1], freq, item)
             h == [turn \in 0 .. (n + 1) |-> next(turn)]
  <2>1. f = [turn \in 0 .. n |-> next(turn)]
    BY <1>2 DEF Turns
  <2> HIDE DEF next
  <2>2. \A turn \in 0 .. n : h[turn] = f[turn]
    BY <2>1
  <2>3. \A turn \in 0 .. (n + 1) :
          h[turn] = IF turn = 0 THEN r ELSE MoveUp(h[turn - 1], freq, item)
    <3>1. ASSUME NEW turn \in 0 .. (n + 1), turn # 0 PROVE h[turn - 1] = f[turn - 1]
      <4>1. turn - 1 \in 0 .. n
        BY <3>1
      <4>2. QED
        BY <2>2, <4>1
    <3>2. \A turn \in 0 .. (n + 1) : h[turn] = next(turn)
      OBVIOUS
    <3> HIDE DEF h
    <3>3. QED
      BY <3>1, <3>2 DEF next
  <2>4. h = [turn \in 0 .. (n + 1) |-> h[turn]]
    OBVIOUS
  <2> HIDE DEF h
  <2>5. h = [turn \in 0 .. (n + 1) |->
               IF turn = 0 THEN r ELSE MoveUp(h[turn - 1], freq, item)]
    BY <2>3, <2>4
  <2>6. QED
    BY <2>5 DEF Turns
<1>3. bad = {}
  <2>1. SUFFICES ASSUME bad # {} PROVE FALSE
    OBVIOUS
  <2>2. bad \in SUBSET Nat
    OBVIOUS
  <2> HIDE DEF bad
  <2>3. PICK n \in bad : \A m \in bad : n <= m
    BY <2>1, <2>2, LeastExists
  <2>4. n \in Nat /\ ~ \E f : Turns(f, n, r, freq, item)
    BY <2>3 DEF bad
  <2>5. n # 0
    BY <1>1, <2>4
  <2>6. n - 1 \in Nat /\ ~ (n <= n - 1) /\ (n - 1) + 1 = n
    BY <2>4, <2>5
  <2>7. \E f : Turns(f, n - 1, r, freq, item)
    BY <2>3, <2>6 DEF bad
  <2>8. QED
    BY <1>2, <2>4, <2>6, <2>7
<1>4. QED
  BY <1>3

(* The outer loop's states exist, too.                                     *)
Loads(f, n, r, freq, txn) ==
  f = [k \in 0 .. n |->
         IF k = 0 THEN r ELSE Climb(PushBack(f[k - 1], txn[k]), freq, txn[k])]

LEMMA LoadsExist ==
  ASSUME NEW r, NEW freq, NEW txn, NEW N \in Nat
  PROVE  \E f : Loads(f, N, r, freq, txn)
<1> DEFINE bad == {n \in Nat : ~ \E f : Loads(f, n, r, freq, txn)}
           up(q, k) == Climb(PushBack(q, txn[k]), freq, txn[k])
<1> HIDE DEF up
<1>1. Loads([k \in 0 .. 0 |-> r], 0, r, freq, txn)
  <2> DEFINE f == [k \in 0 .. 0 |-> r]
  <2>1. f = [k \in 0 .. 0 |-> IF k = 0 THEN r ELSE up(f[k - 1], k)]
    OBVIOUS
  <2> HIDE DEF f
  <2>2. Loads(f, 0, r, freq, txn)
    BY <2>1 DEF Loads, up
  <2>3. QED
    BY <2>2 DEF f
<1>2. ASSUME NEW n \in Nat, NEW f, Loads(f, n, r, freq, txn)
      PROVE  \E h : Loads(h, n + 1, r, freq, txn)
  <2> DEFINE next(k) == IF k = 0 THEN r ELSE up(f[k - 1], k)
             h == [k \in 0 .. (n + 1) |-> next(k)]
  <2>1. f = [k \in 0 .. n |-> next(k)]
    BY <1>2 DEF Loads, up
  <2> HIDE DEF next
  <2>2. \A k \in 0 .. n : h[k] = f[k]
    BY <2>1
  <2>3. \A k \in 0 .. (n + 1) : h[k] = IF k = 0 THEN r ELSE up(h[k - 1], k)
    <3>1. ASSUME NEW k \in 0 .. (n + 1), k # 0 PROVE h[k - 1] = f[k - 1]
      <4>1. k - 1 \in 0 .. n
        BY <3>1
      <4>2. QED
        BY <2>2, <4>1
    <3>2. \A k \in 0 .. (n + 1) : h[k] = next(k)
      OBVIOUS
    <3> HIDE DEF h
    <3>3. QED
      BY <3>1, <3>2 DEF next
  <2>4. h = [k \in 0 .. (n + 1) |-> h[k]]
    OBVIOUS
  <2> HIDE DEF h
  <2>5. h = [k \in 0 .. (n + 1) |-> IF k = 0 THEN r ELSE up(h[k - 1], k)]
    BY <2>3, <2>4
  <2>6. QED
    BY <2>5 DEF Loads, up
<1>3. bad = {}
  <2>1. SUFFICES ASSUME bad # {} PROVE FALSE
    OBVIOUS
  <2>2. bad \in SUBSET Nat
    OBVIOUS
  <2> HIDE DEF bad
  <2>3. PICK n \in bad : \A m \in bad : n <= m
    BY <2>1, <2>2, LeastExists
  <2>4. n \in Nat /\ ~ \E f : Loads(f, n, r, freq, txn)
    BY <2>3 DEF bad
  <2>5. n # 0
    BY <1>1, <2>4
  <2>6. n - 1 \in Nat /\ ~ (n <= n - 1) /\ (n - 1) + 1 = n
    BY <2>4, <2>5
  <2>7. \E f : Loads(f, n - 1, r, freq, txn)
    BY <2>3, <2>6 DEF bad
  <2>8. QED
    BY <1>2, <2>4, <2>6, <2>7
<1>4. QED
  BY <1>3

(* A ranking holds items and their ranks.                                  *)
Ranking(r) ==
  /\ r = [ranking |-> r.ranking, lookup |-> r.lookup,
          storedRank |-> r.storedRank, diffSum |-> r.diffSum]
  /\ r.ranking \in Seq(Nat)
  /\ DOMAIN r.lookup = On(r.ranking) /\ DOMAIN r.storedRank = On(r.ranking)
  /\ \A k \in 1 .. Len(r.ranking) : r.lookup[r.ranking[k]] = k - 1
  /\ \A x \in DOMAIN r.storedRank : r.storedRank[x] \in Int

(* And diffSum is the sum of the distances.                                *)
RankInv(r) == Ranking(r) /\ r.diffSum = Spread(r, 0 .. (Len(r.ranking) - 1))

(* Its distances are integers, and those of items.                         *)
LEMMA DistanceIs ==
  ASSUME NEW r, Ranking(r), NEW x \in On(r.ranking)
  PROVE  /\ r.lookup[x] \in 0 .. (Len(r.ranking) - 1) /\ r.ranking[r.lookup[x] + 1] = x
         /\ delta(r, x) = Distance(r, r.lookup[x]) /\ delta(r, x) \in Int
<1> DEFINE n == Len(r.ranking)
<1>1. r.ranking \in Seq(Nat) /\ n \in Nat /\ DOMAIN r.ranking = 1 .. n
  BY SeqIs DEF Ranking
<1>2. PICK p \in 1 .. n : r.ranking[p] = x
  BY <1>1 DEF On
<1>3. r.lookup[x] = p - 1 /\ r.storedRank[x] \in Int
  BY <1>2 DEF Ranking
<1> HIDE DEF n
<1>4. p - 1 \in 0 .. (n - 1) /\ (p - 1) + 1 = p
  BY <1>1
<1>5. delta(r, x) = Distance(r, p - 1) /\ delta(r, x) \in Int
  <2> DEFINE a == p - 1
             b == r.storedRank[x]
  <2>1. a \in Int /\ b \in Int
    BY <1>1, <1>3
  <2>2. delta(r, x) = IF a - b > 0 THEN a - b ELSE -(a - b)
    BY <1>3 DEF delta
  <2>3. Distance(r, a) = IF a > b THEN a - b ELSE b - a
    BY <1>2, <1>4 DEF Distance
  <2> HIDE DEF a, b
  <2>4. delta(r, x) = Distance(r, a) /\ delta(r, x) \in Int
    BY <2>1, <2>2, <2>3
  <2>5. QED
    BY <2>4 DEF a
<1>6. QED
  BY <1>2, <1>3, <1>4, <1>5 DEF n

(* The sum of the distances.                                               *)
LEMMA SpreadSums ==
  ASSUME NEW r, NEW n \in Nat, r.ranking \in Seq(Nat), Len(r.ranking) = n,
         \A x \in On(r.ranking) : r.storedRank[x] \in Int
  PROVE  LET X == 0 .. (n - 1)
             f == [k \in X |-> Distance(r, k)]
         IN IsFiniteSet(X) /\ IntsOn(f, X) /\ \E g : Sums(g, f, X) /\ Spread(r, X) = g[X]
<1> DEFINE X == 0 .. (n - 1)
           f == [k \in X |-> Distance(r, k)]
<1>1. IsFiniteSet(X)
  BY FS_Interval
<1>2. ASSUME NEW k \in X PROVE f[k] \in Int
  <2>1. k + 1 \in DOMAIN r.ranking /\ k \in Int
    BY SeqIs
  <2>2. r.ranking[k + 1] \in On(r.ranking)
    BY <2>1 DEF On
  <2> DEFINE b == r.storedRank[r.ranking[k + 1]]
  <2>3. b \in Int
    BY <2>2
  <2>4. f[k] = IF k > b THEN k - b ELSE b - k
    BY DEF Distance
  <2> HIDE DEF b, f
  <2>5. QED
    BY <2>1, <2>3, <2>4
<1>3. \E g : Sums(g, f, X) /\ Spread(r, X) = g[X]
  <2> HIDE DEF X
  <2>1. QED
    BY <1>1, SpreadIs
<1>4. IntsOn(f, X)
  BY <1>2 DEF IntsOn
<1>5. QED
  BY <1>1, <1>3, <1>4

(* A ranking has each item once.                                           *)
LEMMA RankingIs ==
  ASSUME NEW r, Ranking(r)
  PROVE  /\ Len(r.ranking) \in Nat /\ DOMAIN r.ranking = 1 .. Len(r.ranking)
         /\ Distinct(r.ranking)
<1>1. Len(r.ranking) \in Nat /\ DOMAIN r.ranking = 1 .. Len(r.ranking)
  BY SeqIs DEF Ranking
<1> DEFINE p == r.ranking
<1>2. ASSUME NEW j \in DOMAIN p, NEW k \in DOMAIN p, p[j] = p[k] PROVE j = k
  <2>1. r.lookup[p[j]] = j - 1 /\ r.lookup[p[k]] = k - 1
    BY <1>1 DEF Ranking
  <2>2. j \in Int /\ k \in Int
    BY <1>1
  <2> HIDE DEF p
  <2>3. QED
    BY <1>2, <2>1, <2>2
<1>3. QED
  BY <1>1, <1>2 DEF Distinct

(* A ranking in which an item has changed places with the one before it.   *)
Swapped(r, item, diff) ==
  LET rank == r.lookup[item]
      prev == r.ranking[rank]
  IN [ranking    |-> [r.ranking EXCEPT ![rank] = item, ![rank + 1] = prev],
      lookup     |-> [r.lookup EXCEPT ![prev] = rank, ![item] = rank - 1],
      storedRank |-> r.storedRank,
      diffSum    |-> diff]

(* It is a ranking of the same items.                                      *)
LEMMA SwapIs ==
  ASSUME NEW r, Ranking(r), NEW item \in On(r.ranking), NEW diff,
         r.lookup[item] > 0
  PROVE  LET n    == Len(r.ranking)
             rank == r.lookup[item]
             prev == r.ranking[rank]
             u    == Swapped(r, item, diff)
         IN /\ Ranking(u) /\ On(u.ranking) = On(r.ranking) /\ Len(u.ranking) = n
            /\ rank \in 1 .. (n - 1) /\ r.ranking[rank + 1] = item
            /\ prev \in On(r.ranking) /\ r.lookup[prev] = rank - 1
            /\ u.lookup[prev] = rank /\ u.lookup[item] = rank - 1
            /\ \A k \in 1 .. n : k # rank /\ k # rank + 1 => u.ranking[k] = r.ranking[k]
            /\ u.storedRank = r.storedRank /\ u.diffSum = diff
<1> DEFINE n    == Len(r.ranking)
           q    == r.ranking
           rank == r.lookup[item]
           prev == q[rank]
           newq == [q EXCEPT ![rank] = item, ![rank + 1] = prev]
           newl == [r.lookup EXCEPT ![prev] = rank, ![item] = rank - 1]
           u    == [ranking |-> newq, lookup |-> newl, storedRank |-> r.storedRank,
                    diffSum |-> diff]
<1>1. n \in Nat /\ DOMAIN q = 1 .. n /\ q \in Seq(Nat) /\ Len(q) = n
  BY RankingIs DEF Ranking
<1>2. rank \in 0 .. (n - 1) /\ q[rank + 1] = item /\ rank > 0
  BY DistanceIs
<1>3. /\ \A k \in 1 .. n : r.lookup[q[k]] = k - 1
      /\ DOMAIN r.lookup = On(q) /\ DOMAIN r.storedRank = On(q)
      /\ \A x \in DOMAIN r.storedRank : r.storedRank[x] \in Int
  BY DEF Ranking
<1> DEFINE look == r.lookup
<1> HIDE DEF n, q, rank
<1>4. rank \in 1 .. (n - 1) /\ rank \in 1 .. n /\ rank + 1 \in 1 .. n /\ rank \in Int
  BY <1>1, <1>2
<1>5. prev \in On(q) /\ look[prev] = rank - 1 /\ prev \in Nat /\ item \in Nat
  <2>1. prev \in On(q) /\ look[prev] = rank - 1
    BY <1>1, <1>3, <1>4 DEF On
  <2>2. \A k \in 1 .. n : q[k] \in Nat
    BY <1>1
  <2>3. QED
    BY <1>2, <1>4, <2>1, <2>2
<1>6. look[item] = rank
  BY DEF rank
<1>7. prev # item
  <2> HIDE DEF prev
  <2>1. rank - 1 # rank
    BY <1>4
  <2>2. QED
    BY <1>5, <1>6, <2>1
<1>8. item \in On(q)
  BY DEF q
<1> HIDE DEF prev
<1>9. /\ newq \in Seq(Nat) /\ Len(newq) = n /\ DOMAIN newq = 1 .. n
      /\ \A k \in 1 .. n : newq[k] = IF k = rank + 1 THEN prev
                                     ELSE IF k = rank THEN item ELSE q[k]
  <2> DEFINE mid == [q EXCEPT ![rank] = item]
  <2>1. mid \in Seq(Nat) /\ Len(mid) = n
        /\ \A k \in 1 .. n : mid[k] = IF k = rank THEN item ELSE q[k]
    BY <1>1, <1>4, <1>5
  <2>2. newq = [mid EXCEPT ![rank + 1] = prev]
    OBVIOUS
  <2> HIDE DEF mid, newq
  <2>3. /\ newq \in Seq(Nat) /\ Len(newq) = n
        /\ \A k \in 1 .. n : newq[k] = IF k = rank + 1 THEN prev ELSE mid[k]
    BY <1>1, <1>4, <1>5, <2>1, <2>2
  <2>4. DOMAIN newq = 1 .. n
    BY <2>3, SeqIs
  <2>5. QED
    BY <2>1, <2>3, <2>4
<1>10. /\ DOMAIN newl = On(q)
       /\ \A x \in On(q) : newl[x] = IF x = item THEN rank - 1
                                     ELSE IF x = prev THEN rank ELSE look[x]
  BY <1>3, <1>5, <1>7, <1>8
<1> HIDE DEF newq, newl, look
<1>11. On(newq) = On(q)
  <2>1. ASSUME NEW k \in 1 .. n PROVE newq[k] \in On(q)
    BY <1>1, <1>5, <1>8, <1>9 DEF On
  <2>2. ASSUME NEW x \in On(q) PROVE x \in On(newq)
    <3>1. PICK k \in 1 .. n : q[k] = x
      BY <1>1 DEF On
    <3>2. CASE k = rank
      <4>1. newq[rank + 1] = x
        BY <1>4, <1>9, <3>1, <3>2 DEF prev
      <4>2. QED
        BY <1>4, <1>9, <4>1 DEF On
    <3>3. CASE k = rank + 1
      <4>1. newq[rank] = x
        BY <1>2, <1>4, <1>9, <3>1, <3>3
      <4>2. QED
        BY <1>4, <1>9, <4>1 DEF On
    <3>4. CASE k # rank /\ k # rank + 1
      BY <1>9, <3>1, <3>4 DEF On
    <3>5. QED
      BY <3>2, <3>3, <3>4
  <2>3. QED
    BY <1>9, <2>1, <2>2 DEF On
<1>12. ASSUME NEW k \in 1 .. n PROVE newl[newq[k]] = k - 1
  <2>1. CASE k = rank + 1
    <3>1. newl[newq[k]] = rank
      BY <1>5, <1>7, <1>9, <1>10, <2>1
    <3>2. QED
      BY <1>4, <2>1, <3>1
  <2>2. CASE k = rank
    <3>1. newq[k] = item
      BY <1>4, <1>9, <2>2
    <3>2. QED
      BY <1>8, <1>10, <2>2, <3>1
  <2>3. CASE k # rank /\ k # rank + 1
    <3>1. newq[k] = q[k] /\ q[k] \in On(q) /\ look[q[k]] = k - 1
      BY <1>1, <1>3, <1>9, <2>3 DEF On, look
    <3>2. q[k] # item /\ q[k] # prev
      <4>1. k - 1 # rank /\ k - 1 # rank - 1
        BY <1>4, <2>3
      <4>2. QED
        BY <1>5, <1>6, <3>1, <4>1
    <3>3. QED
      BY <1>10, <3>1, <3>2
  <2>4. QED
    BY <2>1, <2>2, <2>3
<1>13. Ranking(u)
  <2>1. u.ranking = newq /\ u.lookup = newl /\ u.storedRank = r.storedRank
        /\ u.diffSum = diff
    OBVIOUS
  <2>2. u = [ranking |-> u.ranking, lookup |-> u.lookup,
             storedRank |-> u.storedRank, diffSum |-> u.diffSum]
    OBVIOUS
  <2> HIDE DEF u
  <2>3. QED
    BY <1>3, <1>9, <1>10, <1>11, <1>12, <2>1, <2>2 DEF Ranking
<1>14. /\ On(u.ranking) = On(q) /\ Len(u.ranking) = n
       /\ u.lookup[prev] = rank /\ u.lookup[item] = rank - 1
       /\ \A k \in 1 .. n : k # rank /\ k # rank + 1 => u.ranking[k] = q[k]
       /\ u.storedRank = r.storedRank /\ u.diffSum = diff
  BY <1>5, <1>7, <1>8, <1>9, <1>10, <1>11
<1> HIDE DEF u
<1>15. /\ Ranking(u) /\ On(u.ranking) = On(q) /\ Len(u.ranking) = n
       /\ rank \in 1 .. (n - 1) /\ q[rank + 1] = item
       /\ prev \in On(q) /\ look[prev] = rank - 1
       /\ u.lookup[prev] = rank /\ u.lookup[item] = rank - 1
       /\ \A k \in 1 .. n : k # rank /\ k # rank + 1 => u.ranking[k] = q[k]
       /\ u.storedRank = r.storedRank /\ u.diffSum = diff
  BY <1>2, <1>4, <1>5, <1>13, <1>14
<1>16. u = Swapped(r, item, diff)
  BY DEF Swapped, u, newq, newl, prev, rank, q
<1>17. QED
  BY <1>15, <1>16 DEF prev, rank, q, n, look

(* Two rankings hold the same items.                                       *)
SameItems(r, u) == On(u.ranking) = On(r.ranking) /\ Len(u.ranking) = Len(r.ranking)

(* A swap corrects diffSum by the two items' distances.                    *)
LEMMA SwapKeeps ==
  ASSUME NEW r, RankInv(r), NEW item \in On(r.ranking), r.lookup[item] > 0
  PROVE  RankInv(SwapWithPrevious(r, item)) /\ SameItems(r, SwapWithPrevious(r, item))
<1> DEFINE n    == Len(r.ranking)
           rank == r.lookup[item]
           prev == r.ranking[rank]
           swapped == Swapped(r, item, r.diffSum)
           diff == r.diffSum - delta(r, item) - delta(r, prev)
                     + delta(swapped, item) + delta(swapped, prev)
           u == Swapped(r, item, diff)
           X == 0 .. (n - 1)
           f == [k \in X |-> Distance(r, k)]
           h == [k \in X |-> Distance(u, k)]
<1>1. SwapWithPrevious(r, item) = u
  <2>1. SwapWithPrevious(r, item)
          = [swapped EXCEPT !.diffSum = @ - delta(r, item) - delta(r, prev)
                                   + delta(swapped, item) + delta(swapped, prev)]
    BY DEF SwapWithPrevious, Swapped
  <2>2. [swapped EXCEPT !.diffSum = diff] = u
    <3> DEFINE q == [r.ranking EXCEPT ![rank] = item, ![rank + 1] = prev]
               l == [r.lookup EXCEPT ![prev] = rank, ![item] = rank - 1]
    <3>1. swapped = [ranking |-> q, lookup |-> l, storedRank |-> r.storedRank,
                     diffSum |-> r.diffSum]
      BY DEF Swapped
    <3>2. u = [ranking |-> q, lookup |-> l, storedRank |-> r.storedRank, diffSum |-> diff]
      BY DEF Swapped
    <3> HIDE DEF q, l, swapped, diff, u
    <3>3. QED
      BY <3>1, <3>2
  <2>3. swapped.diffSum = r.diffSum
    BY DEF Swapped
  <2> HIDE DEF swapped, u
  <2>4. QED
    BY <2>1, <2>2, <2>3
<1>2. Ranking(r) /\ r.diffSum = Spread(r, X)
  BY DEF RankInv
<1>3. /\ u.ranking = swapped.ranking /\ u.lookup = swapped.lookup
      /\ u.storedRank = swapped.storedRank
  BY DEF Swapped
<1> HIDE DEF swapped
<1>4. /\ Ranking(u) /\ On(u.ranking) = On(r.ranking) /\ Len(u.ranking) = n
      /\ rank \in 1 .. (n - 1) /\ r.ranking[rank + 1] = item
      /\ prev \in On(r.ranking) /\ r.lookup[prev] = rank - 1
      /\ u.lookup[prev] = rank /\ u.lookup[item] = rank - 1
      /\ \A k \in 1 .. n : k # rank /\ k # rank + 1 => u.ranking[k] = r.ranking[k]
      /\ u.storedRank = r.storedRank /\ u.diffSum = diff
  <2> HIDE DEF diff
  <2>1. QED
    BY <1>2, SwapIs
<1> HIDE DEF u
<1>5. u.storedRank = r.storedRank /\ u.diffSum = diff
  BY <1>4
<1>6. delta(swapped, item) = delta(u, item) /\ delta(swapped, prev) = delta(u, prev)
  <2> HIDE DEF prev
  <2>1. QED
    BY <1>3 DEF delta
<1>7. n \in Nat /\ r.ranking \in Seq(Nat) /\ u.ranking \in Seq(Nat)
  BY <1>2, <1>4, RankingIs DEF Ranking
<1>8. \A x \in On(r.ranking) : r.storedRank[x] \in Int
  BY <1>2 DEF Ranking
<1>9. \A x \in On(u.ranking) : u.storedRank[x] \in Int
  BY <1>4, <1>5, <1>8
<1> HIDE DEF f, h, X, n, diff
<1>10. IsFiniteSet(X) /\ IntsOn(f, X) /\ \E g : Sums(g, f, X) /\ Spread(r, X) = g[X]
  BY <1>7, <1>8, SpreadSums DEF f, X, n
<1>11. IsFiniteSet(X) /\ IntsOn(h, X) /\ \E g : Sums(g, h, X) /\ Spread(u, X) = g[X]
  <2>1. Len(u.ranking) = n
    BY <1>4
  <2>2. QED
    BY <1>7, <1>9, <2>1, SpreadSums DEF h, X
<1>12. PICK g : Sums(g, f, X) /\ Spread(r, X) = g[X]
  BY <1>10
<1>13. PICK j : Sums(j, h, X) /\ Spread(u, X) = j[X]
  BY <1>11
<1>14. rank \in X /\ rank - 1 \in X /\ rank # rank - 1 /\ rank \in Int
  <2> HIDE DEF rank
  <2>1. QED
    BY <1>4, <1>7 DEF X
<1>15. ASSUME NEW k \in X \ {rank, rank - 1} PROVE f[k] = h[k]
  <2>1. k + 1 \in 1 .. n /\ k + 1 # rank /\ k + 1 # rank + 1
    <3> HIDE DEF rank
    <3>1. QED
      BY <1>7, <1>14 DEF X
  <2>2. u.ranking[k + 1] = r.ranking[k + 1]
    BY <1>4, <2>1
  <2>3. QED
    BY <1>5, <2>2 DEF f, h, Distance
<1>16. j[X] = g[X] - f[rank] - f[rank - 1] + h[rank] + h[rank - 1] /\ g[X] \in Int
  <2> DEFINE low == rank - 1
  <2>1. low \in X /\ rank # low /\ rank \in X /\ \A k \in X \ {rank, low} : f[k] = h[k]
    BY <1>14, <1>15
  <2> HIDE DEF low, rank
  <2>2. j[X] = g[X] - f[rank] - f[low] + h[rank] + h[low] /\ g[X] \in Int
    BY <1>10, <1>11, <1>12, <1>13, <2>1, TwoTerms
  <2>3. QED
    BY <2>2 DEF low
<1>17. f[rank] = delta(r, item) /\ f[rank - 1] = delta(r, prev)
       /\ delta(r, item) \in Int /\ delta(r, prev) \in Int
  <2>1. delta(r, item) = Distance(r, rank) /\ delta(r, item) \in Int
    BY <1>2, DistanceIs
  <2>2. delta(r, prev) = Distance(r, rank - 1) /\ delta(r, prev) \in Int
    BY <1>2, <1>4, DistanceIs
  <2>3. QED
    BY <1>14, <2>1, <2>2 DEF f
<1>18. h[rank - 1] = delta(u, item) /\ h[rank] = delta(u, prev)
       /\ delta(u, item) \in Int /\ delta(u, prev) \in Int
  <2>1. item \in On(u.ranking) /\ prev \in On(u.ranking)
    BY <1>4
  <2>2. delta(u, item) = Distance(u, rank - 1) /\ delta(u, item) \in Int
    BY <1>4, <2>1, DistanceIs
  <2>3. delta(u, prev) = Distance(u, rank) /\ delta(u, prev) \in Int
    BY <1>4, <2>1, DistanceIs
  <2>4. QED
    BY <1>14, <2>2, <2>3 DEF h
<1>19. u.diffSum = Spread(u, X)
  <2>1. u.diffSum = Spread(r, X) - delta(r, item) - delta(r, prev)
                      + delta(u, item) + delta(u, prev)
    BY <1>2, <1>5, <1>6 DEF diff
  <2> HIDE DEF rank, prev
  <2>2. QED
    BY <1>12, <1>13, <1>16, <1>17, <1>18, <2>1
<1>20. RankInv(u) /\ SameItems(r, u)
  BY <1>4, <1>19 DEF RankInv, SameItems, X, n
<1>21. QED
  BY <1>1, <1>20

(* So does a turn.                                                         *)
LEMMA MoveUpKeeps ==
  ASSUME NEW r, RankInv(r), NEW freq, NEW item \in On(r.ranking)
  PROVE  RankInv(MoveUp(r, freq, item)) /\ SameItems(r, MoveUp(r, freq, item))
<1>1. CASE MoveUp(r, freq, item) = r
  BY <1>1 DEF SameItems
<1>2. CASE MoveUp(r, freq, item) # r
  <2>1. MoveUp(r, freq, item) = SwapWithPrevious(r, item) /\ r.lookup[item] > 0
    BY <1>2 DEF MoveUp
  <2>2. QED
    BY <2>1, SwapKeeps
<1>3. QED
  BY <1>1, <1>2

(* And the whole inner loop.                                               *)
LEMMA ClimbKeeps ==
  ASSUME NEW r, RankInv(r), NEW freq, NEW item \in On(r.ranking)
  PROVE  RankInv(Climb(r, freq, item)) /\ SameItems(r, Climb(r, freq, item))
<1> DEFINE N == Len(r.ranking)
           g == CHOOSE g : Turns(g, N, r, freq, item)
           Good(q) == RankInv(q) /\ SameItems(r, q)
<1>1. N \in Nat
  BY RankingIs DEF RankInv
<1>2. Climb(r, freq, item) = g[N]
  BY DEF Climb, Turns
<1> HIDE DEF N
<1>3. \E f : Turns(f, N, r, freq, item)
  BY <1>1, TurnsExist
<1> HIDE DEF g
<1>4. Turns(g, N, r, freq, item)
  BY <1>3 DEF g
<1>5. \A turn \in 0 .. N : g[turn] = IF turn = 0 THEN r ELSE MoveUp(g[turn - 1], freq, item)
  BY <1>4 DEF Turns
<1>6. ASSUME NEW q, Good(q) PROVE Good(MoveUp(q, freq, item))
  <2>1. RankInv(q) /\ item \in On(q.ranking)
    BY <1>6 DEF SameItems
  <2>2. RankInv(MoveUp(q, freq, item)) /\ SameItems(q, MoveUp(q, freq, item))
    BY <2>1, MoveUpKeeps
  <2>3. QED
    BY <1>6, <2>2 DEF SameItems
<1>7. Good(r)
  BY DEF SameItems
<1> HIDE DEF Good
<1>8. Good(g[N])
  <2> DEFINE bad == {k \in 0 .. N : ~ Good(g[k])}
  <2>1. SUFFICES ASSUME bad # {} PROVE FALSE
    BY <1>1
  <2>2. bad \in SUBSET Nat
    OBVIOUS
  <2> HIDE DEF bad
  <2>3. PICK k \in bad : \A m \in bad : k <= m
    BY <2>1, <2>2, LeastExists
  <2>4. k \in 0 .. N /\ ~ Good(g[k])
    BY <2>3 DEF bad
  <2>5. k # 0
    BY <1>1, <1>5, <1>7, <2>4
  <2>6. k - 1 \in 0 .. N /\ ~ (k <= k - 1)
    BY <1>1, <2>4, <2>5
  <2>7. Good(g[k - 1])
    BY <2>3, <2>6 DEF bad
  <2>8. g[k] = MoveUp(g[k - 1], freq, item)
    BY <1>5, <2>4, <2>5
  <2>9. QED
    BY <1>6, <2>4, <2>7, <2>8
<1>9. QED
  BY <1>2, <1>8 DEF Good

(* The ranking of no item.                                                 *)
LEMMA NoRanksInv == RankInv(NoRanks) /\ On(NoRanks.ranking) = {}
<1> DEFINE r == NoRanks
<1>1. /\ r.ranking = << >> /\ r.lookup = << >> /\ r.storedRank = << >> /\ r.diffSum = 0
      /\ r = [ranking |-> r.ranking, lookup |-> r.lookup,
              storedRank |-> r.storedRank, diffSum |-> r.diffSum]
  BY DEF NoRanks
<1> HIDE DEF r
<1>2. On(r.ranking) = {} /\ Len(r.ranking) = 0 /\ r.ranking \in Seq(Nat)
      /\ DOMAIN r.lookup = {} /\ DOMAIN r.storedRank = {}
  BY <1>1 DEF On
<1>3. Ranking(r)
  <2>1. \A k \in 1 .. Len(r.ranking) : r.lookup[r.ranking[k]] = k - 1
    BY <1>2
  <2>2. QED
    BY <1>1, <1>2, <2>1 DEF Ranking
<1>4. r.diffSum = Spread(r, 0 .. (Len(r.ranking) - 1))
  <2> DEFINE X == {}
             f == [k \in X |-> Distance(r, k)]
  <2>1. 0 .. (Len(r.ranking) - 1) = X
    BY <1>2
  <2>2. IsFiniteSet(X)
    BY FS_EmptySet
  <2>3. IntsOn(f, X)
    BY DEF IntsOn
  <2>4. \E g : Sums(g, f, X) /\ Spread(r, X) = g[X]
    <3> HIDE DEF X
    <3>1. QED
      BY <2>2, SpreadIs
  <2> HIDE DEF f
  <2>5. PICK g : Sums(g, f, X) /\ Spread(r, X) = g[X]
    BY <2>4
  <2>6. g[{}] = 0
    <3> HIDE DEF X
    <3>1. QED
      BY <2>2, <2>3, <2>5, SumPart
  <2>7. QED
    BY <1>1, <2>1, <2>5, <2>6
<1>5. QED
  BY <1>2, <1>3, <1>4 DEF r, RankInv

(* A new item enters at its stored rank.                                   *)
LEMMA PushBackKeeps ==
  ASSUME NEW r, RankInv(r), NEW item \in Nat
  PROVE  /\ RankInv(PushBack(r, item))
         /\ On(PushBack(r, item).ranking) = On(r.ranking) \cup {item}
<1>1. Ranking(r) /\ r.diffSum = Spread(r, 0 .. (Len(r.ranking) - 1))
  BY DEF RankInv
<1>2. CASE item \in DOMAIN r.lookup
  <2>1. PushBack(r, item) = r /\ item \in On(r.ranking)
    BY <1>1, <1>2 DEF PushBack, Ranking
  <2>2. QED
    BY <2>1
<1>3. CASE item \notin DOMAIN r.lookup
  <2> DEFINE n    == Len(r.ranking)
             q    == r.ranking
             newq == Append(q, item)
             look == r.lookup
             newl == SetKey(look, item, n)
             old  == r.storedRank
             news == SetKey(old, item, n)
             u    == [ranking |-> newq, lookup |-> newl, storedRank |-> news,
                      diffSum |-> r.diffSum]
             X == 0 .. (n - 1)
             Y == 0 .. n
             f == [k \in X |-> Distance(r, k)]
             h == [k \in Y |-> Distance(u, k)]
  <2>1. PushBack(r, item) = u
    BY <1>3 DEF PushBack
  <2>2. /\ n \in Nat /\ DOMAIN q = 1 .. n /\ q \in Seq(Nat) /\ Len(q) = n
        /\ DOMAIN look = On(q) /\ DOMAIN old = On(q)
        /\ \A k \in 1 .. n : look[q[k]] = k - 1
        /\ \A x \in DOMAIN old : old[x] \in Int
    BY <1>1, RankingIs DEF Ranking
  <2>3. item \notin On(q)
    BY <1>3, <2>2
  <2>4. /\ u.ranking = newq /\ u.lookup = newl /\ u.storedRank = news /\ u.diffSum = r.diffSum
        /\ u = [ranking |-> u.ranking, lookup |-> u.lookup,
                storedRank |-> u.storedRank, diffSum |-> u.diffSum]
    OBVIOUS
  <2> HIDE DEF u, n, look, old
  <2>5. /\ newq \in Seq(Nat) /\ Len(newq) = n + 1
        /\ \A k \in 1 .. (n + 1) : newq[k] = IF k <= n THEN q[k] ELSE item
    <3> HIDE DEF q
    <3>1. QED
      BY <2>2, Appended
  <2>6. DOMAIN newq = 1 .. (n + 1)
    BY <2>5, SeqIs
  <2>7. /\ DOMAIN newl = On(q) \cup {item} /\ DOMAIN news = On(q) \cup {item}
        /\ newl[item] = n /\ news[item] = n
        /\ \A x \in On(q) : newl[x] = look[x] /\ news[x] = old[x]
    BY <2>2, <2>3 DEF SetKey
  <2> HIDE DEF newq, newl, news, q
  <2>8. n + 1 \in 1 .. (n + 1) /\ newq[n + 1] = item
        /\ \A k \in 1 .. n : k \in 1 .. (n + 1) /\ newq[k] = q[k] /\ q[k] \in On(q)
    BY <2>2, <2>5 DEF On
  <2>9. On(newq) = On(q) \cup {item}
    <3>1. ASSUME NEW k \in 1 .. (n + 1) PROVE newq[k] \in On(q) \cup {item}
      <4>1. k \in 1 .. n \/ k = n + 1
        BY <2>2
      <4>2. QED
        BY <2>8, <4>1
    <3>2. ASSUME NEW x \in On(q) PROVE x \in On(newq)
      <4>1. PICK k \in 1 .. n : q[k] = x
        BY <2>2 DEF On
      <4>2. QED
        BY <2>6, <2>8, <4>1 DEF On
    <3>3. item \in On(newq)
      BY <2>6, <2>8 DEF On
    <3>4. QED
      BY <2>6, <3>1, <3>2, <3>3 DEF On
  <2>10. Ranking(u)
    <3>1. ASSUME NEW k \in 1 .. (n + 1) PROVE newl[newq[k]] = k - 1
      <4>1. k \in 1 .. n \/ k = n + 1
        BY <2>2
      <4>2. (n + 1) - 1 = n
        BY <2>2
      <4>3. QED
        BY <2>2, <2>7, <2>8, <4>1, <4>2
    <3>2. \A x \in DOMAIN news : news[x] \in Int
      BY <2>2, <2>7
    <3>3. QED
      BY <2>4, <2>5, <2>7, <2>9, <3>1, <3>2 DEF Ranking
  <2> HIDE DEF X, Y, f, h
  <2>11. IsFiniteSet(X) /\ IntsOn(f, X) /\ \E g : Sums(g, f, X) /\ Spread(r, X) = g[X]
    <3>1. r.ranking \in Seq(Nat) /\ Len(r.ranking) = n /\ n \in Nat
          /\ \A x \in On(r.ranking) : r.storedRank[x] \in Int
      BY <2>2 DEF q, old
    <3>2. QED
      BY <3>1, SpreadSums DEF f, X
  <2>12. IsFiniteSet(Y) /\ IntsOn(h, Y) /\ \E g : Sums(g, h, Y) /\ Spread(u, Y) = g[Y]
    <3> DEFINE m == n + 1
    <3>1. u.ranking \in Seq(Nat) /\ Len(u.ranking) = m /\ m \in Nat
          /\ \A x \in On(u.ranking) : u.storedRank[x] \in Int
      BY <2>2, <2>4, <2>5, <2>10 DEF Ranking
    <3>2. 0 .. (m - 1) = Y
      BY <2>2 DEF Y
    <3> HIDE DEF m
    <3>3. QED
      BY <3>1, <3>2, SpreadSums DEF h
  <2>13. PICK g : Sums(g, f, X) /\ Spread(r, X) = g[X]
    BY <2>11
  <2>14. PICK j : Sums(j, h, Y) /\ Spread(u, Y) = j[Y]
    BY <2>12
  <2>15. n \in Y /\ Y \ {n} = X /\ X \subseteq Y
    BY <2>2 DEF X, Y
  <2>16. ASSUME NEW k \in X PROVE f[k] = h[k]
    <3>1. k + 1 \in 1 .. n /\ k \in Y
      BY <2>2, <2>15 DEF X
    <3>2. newq[k + 1] = q[k + 1] /\ news[q[k + 1]] = old[q[k + 1]]
      BY <2>7, <2>8, <3>1
    <3>3. u.storedRank[u.ranking[k + 1]] = r.storedRank[r.ranking[k + 1]]
      BY <2>4, <3>2 DEF q, old
    <3>4. QED
      BY <3>1, <3>3 DEF f, h, Distance
  <2>17. g[X] = j[X]
    BY <2>11, <2>12, <2>13, <2>14, <2>15, <2>16, SumAgree
  <2>18. h[n] = 0
    <3>1. u.storedRank[u.ranking[n + 1]] = n
      BY <2>4, <2>7, <2>8
    <3>2. Distance(u, n) = 0
      BY <2>2, <3>1 DEF Distance
    <3>3. QED
      BY <2>15, <3>2 DEF h
  <2>19. j[Y] = h[n] + j[X] /\ j[X] \in Int
    <3>1. /\ j[{}] = 0
          /\ \A s \in SUBSET Y : j[s] \in Int
          /\ \A s \in SUBSET Y, a \in Y : a \in s => j[s] = h[a] + j[s \ {a}]
      BY <2>12, <2>14, SumPart
    <3>2. QED
      BY <2>15, <3>1
  <2>20. u.diffSum = Spread(u, 0 .. (Len(u.ranking) - 1))
    <3>1. 0 .. (Len(u.ranking) - 1) = Y
      BY <2>2, <2>4, <2>5 DEF Y
    <3>2. r.diffSum = Spread(r, X)
      BY <1>1 DEF X, n
    <3>3. QED
      BY <2>4, <2>13, <2>14, <2>17, <2>18, <2>19, <3>1, <3>2
  <2>21. QED
    BY <2>1, <2>4, <2>9, <2>10, <2>20 DEF RankInv, q
<1>4. QED
  BY <1>2, <1>3

(* Adjust: the transaction's items are in the ranking, and diffSum is      *)
(* still the sum.                                                          *)
LEMMA AdjustKeeps ==
  ASSUME NEW r, RankInv(r), NEW freq, NEW txn \in Seq(Nat)
  PROVE  /\ RankInv(Adjust(r, freq, txn))
         /\ On(Adjust(r, freq, txn).ranking) = On(r.ranking) \cup On(txn)
<1> DEFINE N == Len(txn)
           g == CHOOSE g : Loads(g, N, r, freq, txn)
           Good(k) == RankInv(g[k])
                      /\ On(g[k].ranking) = On(r.ranking) \cup {txn[i] : i \in 1 .. k}
<1>1. N \in Nat /\ DOMAIN txn = 1 .. N /\ \A k \in 1 .. N : txn[k] \in Nat
  BY SeqIs
<1>2. Adjust(r, freq, txn) = g[N]
  BY DEF Adjust, Loads
<1> HIDE DEF N
<1>3. \E f : Loads(f, N, r, freq, txn)
  BY <1>1, LoadsExist
<1> HIDE DEF g
<1>4. Loads(g, N, r, freq, txn)
  BY <1>3 DEF g
<1>5. \A k \in 0 .. N : g[k] = IF k = 0 THEN r
                               ELSE Climb(PushBack(g[k - 1], txn[k]), freq, txn[k])
  BY <1>4 DEF Loads
<1>6. Good(0)
  <2>1. g[0] = r
    BY <1>1, <1>5
  <2>2. {txn[i] : i \in 1 .. 0} = {}
    OBVIOUS
  <2>3. QED
    BY <2>1, <2>2
<1>7. ASSUME NEW k \in 1 .. N, Good(k - 1) PROVE Good(k)
  <2> DEFINE a == g[k - 1]
             b == PushBack(a, txn[k])
             c == Climb(b, freq, txn[k])
  <2>1. g[k] = c /\ txn[k] \in Nat
    BY <1>1, <1>5
  <2>2. RankInv(a) /\ On(a.ranking) = On(r.ranking) \cup {txn[i] : i \in 1 .. (k - 1)}
    BY <1>7
  <2> HIDE DEF a
  <2>3. RankInv(b) /\ On(b.ranking) = On(a.ranking) \cup {txn[k]}
    BY <2>1, <2>2, PushBackKeeps
  <2> HIDE DEF b
  <2>4. RankInv(c) /\ On(c.ranking) = On(b.ranking)
    BY <2>3, ClimbKeeps DEF SameItems
  <2> HIDE DEF c
  <2>5. 1 .. k = (1 .. (k - 1)) \cup {k}
    BY <1>1
  <2>6. {txn[i] : i \in 1 .. k} = {txn[i] : i \in 1 .. (k - 1)} \cup {txn[k]}
    BY <2>5
  <2>7. QED
    BY <2>1, <2>2, <2>3, <2>4, <2>6
<1> HIDE DEF Good
<1>8. Good(N)
  <2> DEFINE bad == {k \in 0 .. N : ~ Good(k)}
  <2>1. SUFFICES ASSUME bad # {} PROVE FALSE
    BY <1>1
  <2>2. bad \in SUBSET Nat
    OBVIOUS
  <2> HIDE DEF bad
  <2>3. PICK k \in bad : \A m \in bad : k <= m
    BY <2>1, <2>2, LeastExists
  <2>4. k \in 0 .. N /\ ~ Good(k)
    BY <2>3 DEF bad
  <2>5. k # 0
    BY <1>6, <2>4
  <2>6. k \in 1 .. N /\ k - 1 \in 0 .. N /\ ~ (k <= k - 1)
    BY <1>1, <2>4, <2>5
  <2>7. Good(k - 1)
    BY <2>3, <2>6 DEF bad
  <2>8. QED
    BY <1>7, <2>4, <2>6, <2>7
<1>9. QED
  BY <1>1, <1>2, <1>8 DEF Good, On

(* After a reset all distances are 0.                                      *)
LEMMA ResetKeeps ==
  ASSUME NEW r, RankInv(r)
  PROVE  RankInv(ResetEntropy(r)) /\ On(ResetEntropy(r).ranking) = On(r.ranking)
<1> DEFINE n == Len(r.ranking)
           place(x) == CHOOSE k \in 0 .. (n - 1) : r.ranking[k + 1] = x
           old == r.storedRank
           news == [x \in DOMAIN old |-> place(x)]
           u == [ranking |-> r.ranking, lookup |-> r.lookup, storedRank |-> news, diffSum |-> 0]
           X == 0 .. (n - 1)
           f == [k \in X |-> Distance(u, k)]
<1>1. Ranking(r)
  BY DEF RankInv
<1>2. /\ n \in Nat /\ DOMAIN r.ranking = 1 .. n /\ r.ranking \in Seq(Nat) /\ Distinct(r.ranking)
      /\ DOMAIN r.lookup = On(r.ranking) /\ DOMAIN old = On(r.ranking)
      /\ \A k \in 1 .. n : r.lookup[r.ranking[k]] = k - 1
  BY <1>1, RankingIs DEF Ranking
<1>3. ResetEntropy(r) = u
  <2>1. r = [ranking |-> r.ranking, lookup |-> r.lookup, storedRank |-> old, diffSum |-> r.diffSum]
    BY <1>1 DEF Ranking
  <2>2. ResetEntropy(r) = [r EXCEPT !.storedRank = news, !.diffSum = 0]
    BY DEF ResetEntropy
  <2> HIDE DEF news, old
  <2> DEFINE a == r.ranking
             b == r.lookup
             c == r.diffSum
  <2>3. r = [ranking |-> a, lookup |-> b, storedRank |-> old, diffSum |-> c]
    BY <2>1
  <2>4. u = [ranking |-> a, lookup |-> b, storedRank |-> news, diffSum |-> 0]
    OBVIOUS
  <2> HIDE DEF a, b, c, u
  <2>5. QED
    BY <2>2, <2>3, <2>4
<1>4. /\ u.ranking = r.ranking /\ u.lookup = r.lookup /\ u.storedRank = news /\ u.diffSum = 0
      /\ u = [ranking |-> u.ranking, lookup |-> u.lookup,
              storedRank |-> u.storedRank, diffSum |-> u.diffSum]
  OBVIOUS
<1>5. ASSUME NEW k \in X
      PROVE  r.ranking[k + 1] \in DOMAIN old /\ news[r.ranking[k + 1]] = k
  <2> DEFINE x == r.ranking[k + 1]
             p == place(x)
  <2> HIDE DEF n, old
  <2>1. k + 1 \in 1 .. n
    BY <1>2
  <2>2. x \in DOMAIN old
    BY <1>2, <2>1 DEF On
  <2>3. p \in X /\ r.ranking[p + 1] = x
    OBVIOUS
  <2> HIDE DEF p
  <2>4. p + 1 \in 1 .. n
    BY <1>2, <2>3
  <2>5. p + 1 = k + 1
    BY <1>2, <2>1, <2>3, <2>4 DEF Distinct
  <2>6. p = k
    BY <1>2, <2>3, <2>5
  <2>7. QED
    BY <2>2, <2>6 DEF p
<1>6. ASSUME NEW x \in DOMAIN old PROVE news[x] \in Int
  <2>1. PICK k \in 1 .. n : r.ranking[k] = x
    BY <1>2 DEF On
  <2>2. k - 1 \in X /\ (k - 1) + 1 = k
    BY <1>2
  <2> HIDE DEF X, news
  <2>3. news[x] = k - 1
    BY <1>5, <2>1, <2>2
  <2>4. QED
    BY <2>3
<1>7. DOMAIN news = DOMAIN old
  OBVIOUS
<1> HIDE DEF u, news
<1>8. Ranking(u)
  <2> HIDE DEF old
  <2>1. QED
    BY <1>2, <1>4, <1>6, <1>7 DEF Ranking
<1>9. u.diffSum = Spread(u, X)
  <2>1. ASSUME NEW k \in X PROVE f[k] = 0
    <3>1. u.storedRank[u.ranking[k + 1]] = k
      BY <1>4, <1>5
    <3>2. k \in Int
      BY <1>2
    <3>3. Distance(u, k) = 0
      BY <3>1, <3>2 DEF Distance
    <3>4. QED
      BY <3>3
  <2>2. IsFiniteSet(X)
    BY <1>2, FS_Interval
  <2>3. \E g : Sums(g, f, X) /\ Spread(u, X) = g[X]
    <3> HIDE DEF X
    <3>1. QED
      BY <2>2, SpreadIs
  <2> HIDE DEF f, X
  <2>4. PICK g : Sums(g, f, X) /\ Spread(u, X) = g[X]
    BY <2>3
  <2>5. g[X] = 0
    BY <2>1, <2>2, <2>4, SumZero
  <2>6. QED
    BY <1>4, <2>4, <2>5
<1>10. QED
  BY <1>3, <1>4, <1>8, <1>9 DEF RankInv

(* SPO: the ranking holds the items met, and diffSum is its sum.           *)
RanksKept ==
  setup.functor = "spo" => RankInv(ranks) /\ On(ranks.ranking) = Seen

(* It starts with no item.                                                 *)
LEMMA RanksKeptInit == Init => RanksKept
<1>1. ASSUME Init PROVE ranks = NoRanks /\ Seen = {}
  <2>1. ranks = NoRanks /\ tree = Empty
    BY <1>1 DEF Init
  <2>2. QED
    BY <2>1, KeepsEmpty DEF Seen
<1>2. QED
  BY <1>1, NoRanksInv DEF RanksKept

(* Moving the iterator meets no item.                                      *)
LEMMA IteratorSeen ==
  ASSUME NEW W, NEW t, Keeps(t, W), NEW next \in 0 .. (Len(t.leaves) + 1)
  PROVE  DOMAIN [t EXCEPT !.next = next].freq = DOMAIN t.freq
<1> DEFINE u == [t EXCEPT !.next = next]
<1>1. u.freq = t.freq
  BY KeepsIterator
<1>2. QED
  BY <1>1

(* A load adjusts the ranking for the transaction's items, which are those *)
(* it may meet for the first time.                                         *)
LEMMA RanksKeptLoad == ASSUME IInv, RanksKept, SpoOnLoad PROVE RanksKept'
<1> DEFINE txn == SortItems(transaction, order)
           u == Loaded
           q == Adjust(ranks, u.freq, txn)
<1>1. /\ setup.functor = "spo" /\ setup' = setup /\ pc = "load"
      /\ ranks' = q
      /\ tree' = StartSort(u) \/ tree' = u
  BY DEF SpoOnLoad, Enter, SortBy, LeaveUnsorted, SortTransaction
<1>2. /\ Keeps(u, Append(window, transaction)) /\ DOMAIN u.freq = Seen \cup transaction
  BY <1>1, LoadedIs
<1>3. txn \in Seq(Nat) /\ On(txn) = transaction
  <2>1. /\ setup.items \in Nat /\ IsTable(order)
        /\ transaction \in (SUBSET (1 .. setup.items)) \ {{}}
    BY <1>1, Known DEF IInv, StateType, Flow, Ids
  <2>2. txn \in Routes /\ On(txn) = transaction
    BY <2>1, TransactionPath
  <2>3. QED
    BY <2>2 DEF Routes
<1>4. RankInv(ranks) /\ On(ranks.ranking) = Seen
  BY <1>1 DEF RanksKept
<1>5. RankInv(q) /\ On(q.ranking) = Seen \cup transaction
  <2> DEFINE f == u.freq
  <2> HIDE DEF txn, f
  <2>1. QED
    BY <1>3, <1>4, AdjustKeeps
<1>6. DOMAIN tree'.freq = DOMAIN u.freq
  <2>1. 1 \in 0 .. (Len(u.leaves) + 1)
    <3> HIDE DEF u
    <3>1. QED
      BY <1>2, SeqIs DEF Keeps, Leafed, IsList
  <2> HIDE DEF u
  <2>2. DOMAIN [u EXCEPT !.next = 1].freq = DOMAIN u.freq
    BY <1>2, <2>1, IteratorSeen
  <2>3. QED
    BY <1>1, <2>2 DEF StartSort
<1> HIDE DEF q, u
<1>7. QED
  BY <1>1, <1>2, <1>5, <1>6 DEF RanksKept, Seen

(* The other steps of an SPO-tree meet no item.                            *)
LEMMA SeenStays ==
  ASSUME IInv, OnUnload \/ SortNext \/ SortReplace \/ OnEndLoad
  PROVE  Seen' = Seen /\ setup' = setup /\ ranks' = ranks
<1>1. /\ setup.items \in Nat /\ setup.length \in Nat \ {0} /\ Len(window) \in 0 .. setup.length
      /\ IsTable(order) /\ Len(tree.leaves) \in Nat /\ tree.next \in 0 .. (Len(tree.leaves) + 1)
  BY Known
<1>2. Keeps(tree, window) /\ window \in Windows(setup.items)
  BY DEF IInv, StateType
<1>3. \A next \in 0 .. (Len(tree.leaves) + 1) :
        DOMAIN [tree EXCEPT !.next = next].freq = DOMAIN tree.freq
  BY <1>2, IteratorSeen
<1>4. CASE OnUnload
  <2>1. /\ pc = "unload" /\ tree' = Remove(tree, SortItems(Head(window), order))
        /\ setup' = setup /\ ranks' = ranks
    BY <1>4 DEF OnUnload, SortTransaction
  <2>2. window # << >>
    <3>1. Len(window) = setup.length
      BY <2>1 DEF IInv, Flow
    <3>2. QED
      BY <1>1, <1>2, <3>1, SeqIs DEF Windows
  <2>3. InOrder(tree, order)
    BY <2>1 DEF IInv, Orders, InSort
  <2>4. DOMAIN tree'.freq = DOMAIN tree.freq
    BY <1>1, <1>2, <2>1, <2>2, <2>3, KeepsUnload
  <2>5. QED
    BY <2>1, <2>4 DEF Seen
<1>5. CASE SortNext
  <2> DEFINE next == IF HasNext(tree) THEN tree.next + 1 ELSE 0
  <2>1. next \in 0 .. (Len(tree.leaves) + 1)
    BY <1>1 DEF HasNext
  <2>2. tree' = [tree EXCEPT !.next = next] /\ setup' = setup /\ ranks' = ranks
    BY <1>5 DEF SortNext, Advance, EndSort
  <2> HIDE DEF next
  <2>3. DOMAIN tree'.freq = DOMAIN tree.freq
    BY <1>3, <2>1, <2>2
  <2>4. QED
    BY <2>2, <2>3 DEF Seen
<1>6. CASE SortReplace
  <2>1. /\ pc = "replace" /\ tree' = SortPath(tree, path, Comparator)
        /\ setup' = setup /\ ranks' = ranks
    BY <1>6 DEF SortReplace
  <2>2. path \in On(tree.leaves) /\ SortedBehind(tree, order, path)
        /\ (setup.functor \in {"cp", "spo"} => order = tree.freq)
    BY <2>1 DEF IInv, Flow, Orders, InSort
  <2>3. Comparator = order
    BY <2>2 DEF Comparator
  <2>4. SortPath(tree, path, order).freq = tree.freq
    BY <1>1, <1>2, <2>2, KeepsSortPath
  <2>5. QED
    BY <2>1, <2>3, <2>4 DEF Seen
<1>7. CASE OnEndLoad
  <2>1. /\ tree' = [tree EXCEPT !.next = 1] \/ tree' = tree
        /\ setup' = setup /\ ranks' = ranks
    BY <1>7 DEF OnEndLoad, StartSort
  <2>2. 1 \in 0 .. (Len(tree.leaves) + 1)
    BY <1>1
  <2>3. DOMAIN tree'.freq = DOMAIN tree.freq
    BY <1>3, <2>1, <2>2
  <2>4. QED
    BY <2>1, <2>3 DEF Seen
<1>8. QED
  BY <1>4, <1>5, <1>6, <1>7

(* Every step keeps the ranking.                                           *)
LEMMA RanksKeptNext == IInv /\ RanksKept /\ [Next]_vars => RanksKept'
<1> SUFFICES ASSUME IInv, RanksKept, [Next]_vars PROVE RanksKept'
  OBVIOUS
<1>1. ASSUME Seen' = Seen, setup' = setup, ranks' = ranks PROVE RanksKept'
  BY <1>1 DEF RanksKept
<1>2. ASSUME setup' = setup, setup.functor # "spo" PROVE RanksKept'
  BY <1>2 DEF RanksKept
<1>3. CASE \E txn \in Transactions : GetNext(txn)
  <2>1. tree' = tree /\ setup' = setup /\ ranks' = ranks
    BY <1>3 DEF GetNext
  <2>2. QED
    BY <1>1, <2>1 DEF Seen
<1>4. CASE OnUnload \/ SortNext \/ SortReplace \/ OnEndLoad
  BY <1>1, <1>4, SeenStays
<1>5. CASE CpOnLoad \/ ExtrapOnLoad \/ DiscOnLoad
  <2>1. setup' = setup /\ setup.functor # "spo"
    BY <1>5 DEF CpOnLoad, ExtrapOnLoad, DiscOnLoad, Enter
  <2>2. QED
    BY <1>2, <2>1
<1>6. CASE SpoOnLoad
  BY <1>6, RanksKeptLoad
<1>7. CASE SortReturns
  <2>1. /\ tree' = tree /\ setup' = setup
        /\ ranks' = IF setup.functor = "spo" THEN ResetEntropy(ranks) ELSE ranks
    BY <1>7 DEF SortReturns
  <2>2. QED
    BY <2>1, ResetKeeps DEF RanksKept, Seen
<1>8. CASE Mine \/ EndLoadReturns \/ Terminated \/ UNCHANGED vars
  <2>1. tree' = tree /\ setup' = setup /\ ranks' = ranks
    BY <1>8 DEF Mine, EndLoadReturns, Terminated, vars
  <2>2. QED
    BY <1>1, <2>1 DEF Seen
<1>9. QED
  BY <1>3, <1>4, <1>5, <1>6, <1>7, <1>8 DEF Next
-----------------------------------------------------------------------------
(* The nodes of the tree are paths of items.                               *)
LEMMA NodesArePaths ==
  ASSUME IInv
  PROVE  /\ \A p \in Nodes(tree) : p \in Paths /\ tree.count[p] \in Counts \ {0}
         /\ \A i \in Seen : i \in Ids /\ tree.freq[i] \in Counts
         /\ \A p \in On(tree.leaves) : p \in Paths
<1> DEFINE N == setup.items
           n == Len(window)
<1>1. /\ N \in Nat /\ Ids = 1 .. N /\ setup.length \in Nat \ {0} /\ n \in 0 .. setup.length
  BY Known
<1>2. window \in Windows(N) /\ Keeps(tree, window)
  BY DEF IInv, StateType
<1> HIDE DEF N, n
<1>3. /\ \A p \in Nodes(tree) : /\ p \in Routes /\ p # << >> /\ On(p) \subseteq 1 .. N
                               /\ Len(p) \in 1 .. N /\ On(p) \subseteq DOMAIN tree.freq
                               /\ tree.count[p] \in 1 .. Len(window)
      /\ \A x \in DOMAIN tree.freq : tree.freq[x] \in 0 .. Len(window)
  BY <1>1, <1>2, KeptNodes
<1>4. \A k \in 1 .. Len(window) : k \in Counts \ {0}
  BY <1>1 DEF Counts, n
<1>5. \A k \in 0 .. Len(window) : k \in Counts
  BY <1>1 DEF Counts, n
<1>6. ASSUME NEW p \in Nodes(tree) PROVE p \in Paths
  <2> DEFINE m == Len(p)
             s == [i \in Ids |-> IF i <= m THEN p[i] ELSE 1]
  <2>1. p \in Seq(Nat) /\ m \in 1 .. N /\ On(p) \subseteq 1 .. N /\ DOMAIN p = 1 .. m
    BY <1>3, SeqIs DEF Routes
  <2>2. \A i \in 1 .. m : p[i] \in Ids
    BY <1>1, <2>1 DEF On
  <2> HIDE DEF m
  <2>3. s \in [Ids -> Ids] /\ m \in Ids
    BY <1>1, <2>1, <2>2
  <2>4. s \in Seq(Ids) /\ Len(s) = N
    BY <1>1, <2>3
  <2>5. SubSeq(s, 1, m) = p
    <3> DEFINE q == SubSeq(s, 1, m)
    <3>1. q \in Seq(Ids) /\ Len(q) = m /\ \A k \in 1 .. m : q[k] = s[k]
      <4> HIDE DEF s
      <4>1. QED
        BY <1>1, <2>1, <2>4
    <3>2. \A k \in 1 .. m : s[k] = p[k]
      BY <1>1, <2>1
    <3> HIDE DEF s, q
    <3>3. q \in Seq(Nat)
      BY <1>1, <3>1
    <3>4. Len(p) = Len(q)
      BY <3>1 DEF m
    <3>5. \A k \in 1 .. Len(q) : q[k] = p[k]
      BY <3>1, <3>2
    <3>6. q = p
      BY <2>1, <3>3, <3>4, <3>5, SeqEq
    <3>7. QED
      BY <3>6 DEF q
  <2> HIDE DEF s
  <2>6. Upto(s, m) \in Paths
    BY <2>3 DEF Paths
  <2>7. QED
    BY <2>5, <2>6 DEF Upto
<1>7. ASSUME NEW i \in Seen PROVE i \in Ids /\ tree.freq[i] \in Counts
  <2>1. tree.freq[i] \in Counts
    BY <1>3, <1>5 DEF Seen
  <2>2. i \in Ids
    BY DEF IInv, StateType
  <2>3. QED
    BY <2>1, <2>2
<1>8. \A p \in On(tree.leaves) : p \in Nodes(tree)
  BY <1>2 DEF Keeps, Leafed, Childless
<1>9. QED
  BY <1>3, <1>4, <1>6, <1>7, <1>8

(* The types, the ranges of counts and frequencies, and that a count that  *)
(* starts a sort is never passed.                                          *)
THEOREM TypeCorrect == Spec => []TypeOK
<1>1. ASSUME IInv PROVE TypeOK
  <2>1. /\ pc \in Phases /\ setup \in Setups /\ transaction \in SUBSET Ids
        /\ window \in Seq(Transactions) /\ Len(window) <= setup.length
        /\ DOMAIN order \subseteq Seen
        /\ \A i \in DOMAIN order : order[i] \in Counts \cup Scores
        /\ mTxnNum \in 0 .. (setup.length - 1)
    BY <1>1 DEF IInv, StateType, Windows, Transactions, Ids
  <2>2. /\ Nodes(tree) \subseteq Paths
        /\ \A p \in Nodes(tree) : tree.count[p] \in Counts \ {0}
        /\ Seen \subseteq Ids /\ \A i \in Seen : tree.freq[i] \in Counts
    BY <1>1, NodesArePaths
  <2>3. tree.next \in 0 .. (Len(tree.leaves) + 1)
    BY <1>1, Known
  <2>4. path \in Paths \cup {<< >>}
    BY <1>1, NodesArePaths DEF IInv, Flow
  <2>5. count \in Nat /\ (~NeverDue => count <= Due)
    BY <1>1 DEF IInv, SortCount
  <2>6. tally.mItems \subseteq DOMAIN tally.mItemFreq
    <3>1. CASE setup.functor # "disc"
      BY <1>1, <3>1 DEF IInv, TallyCount, NoTally
    <3>2. CASE setup.functor = "disc"
      <4>1. Tallies(tally, window, setup.items)
        BY <1>1, <3>2 DEF IInv, TallyCount
      <4>2. ASSUME NEW x \in tally.mItems PROVE x \in DOMAIN tally.mItemFreq
        <5>1. x \in 1 .. setup.items /\ Occurring(window, {x}) > 0
          BY <4>1 DEF Tallies
        <5>2. Occurring(window, {x}) # 0
          BY <5>1
        <5>3. QED
          BY <4>1, <5>1, <5>2 DEF Tallies
      <4>3. QED
        BY <4>2
    <3>3. QED
      BY <3>1, <3>2
  <2>7. QED
    BY <2>1, <2>2, <2>3, <2>4, <2>5, <2>6 DEF TypeOK
<1>2. QED
  BY <1>1, IInvHolds, PTL

(* Whatever was loaded, unloaded and sorted, by whatever tables, the tree  *)
(* stands for the transactions of the window and counts their items, also  *)
(* between two turns of Sort's loop.                                       *)
THEOREM TreeIsTheWindow == Spec => []TreeHoldsWindow
<1>1. ASSUME IInv PROVE TreeHoldsWindow
  <2> DEFINE N == setup.items
  <2>1. N \in Nat /\ window \in Windows(N) /\ Keeps(tree, window)
    BY <1>1, Known DEF IInv, StateType
  <2> HIDE DEF N
  <2>2. /\ \A x \in DOMAIN tree.freq :
             tree.freq[x] = Cardinality({k \in DOMAIN window : x \in window[k]})
        /\ \A S : S # {} =>
             Holds(tree, S) = Cardinality({i \in DOMAIN window : window[i] = S})
    BY <2>1, KeptNodes
  <2>3. \A S \in Transactions : S # {}
    BY DEF Transactions
  <2>4. QED
    BY <2>2, <2>3 DEF TreeHoldsWindow, Seen
<1>2. QED
  BY <1>1, IInvHolds, PTL

(* The leaf list is always exactly the childless nodes, each once.         *)
THEOREM LeavesAreExact == Spec => []LeavesExact
<1>1. ASSUME IInv PROVE LeavesExact
  <2>1. /\ tree.leaves \in Seq(Routes) /\ Distinct(tree.leaves)
        /\ On(tree.leaves) = Childless(Nodes(tree))
    BY <1>1 DEF IInv, Keeps, Leafed, IsList
  <2>2. Cardinality(On(tree.leaves)) = Len(tree.leaves)
    BY <2>1, DistinctCard
  <2>3. QED
    BY <2>1, <2>2 DEF LeavesExact, On, Childless
<1>2. QED
  BY <1>1, IInvHolds, PTL

(* Outside of Sort every path runs in the order of the table transactions  *)
(* are sorted by: Remove finds the path that Insert made.                  *)
THEOREM PathsAreInOrder == Spec => []PathsFollowLastSort
<1>1. IInv => PathsFollowLastSort
  BY DEF IInv, Orders, InOrder, PathsFollowLastSort
<1>2. QED
  BY <1>1, IInvHolds, PTL

(* Sort's loop has reached every path when it ends.                        *)
THEOREM SortSorts == Spec => []SortedAfterSort
<1>1. ASSUME IInv, pc = "sorted"
      PROVE  /\ \A p \in Nodes(tree) : Ordered(p, Comparator)
             /\ setup.functor \in {"cp", "spo"} => IsSorted(tree)
  <2>1. InOrder(tree, order) /\ (setup.functor \in {"cp", "spo"} => order = tree.freq)
    BY <1>1 DEF IInv, Orders, InSort
  <2>2. Comparator = order
    BY <2>1 DEF Comparator
  <2>3. \A p \in Nodes(tree) : Ordered(p, Comparator)
    BY <2>1, <2>2 DEF InOrder
  <2>4. ASSUME setup.functor \in {"cp", "spo"} PROVE IsSorted(tree)
    <3> DEFINE f == tree.freq
    <3>1. ASSUME NEW p \in Nodes(tree), Len(p) > 1
          PROVE  LET a == f[ItemOf(ParentOf(p))]
                     b == f[ItemOf(p)]
                 IN b < a \/ (b = a /\ ItemOf(ParentOf(p)) < ItemOf(p))
      <4> DEFINE n == Len(p)
      <4>1. /\ p \in Seq(Nat) /\ On(p) \subseteq DOMAIN f /\ Ordered(p, f)
        <5> DEFINE N == setup.items
        <5>1. N \in Nat /\ window \in Windows(N) /\ Keeps(tree, window)
          BY <1>1, Known DEF IInv, StateType
        <5> HIDE DEF N
        <5>2. p \in Routes /\ On(p) \subseteq DOMAIN f
          BY <5>1, KeptNodes
        <5>3. QED
          BY <2>1, <2>4, <5>2 DEF InOrder, Routes
      <4>2. n \in Nat /\ n > 1 /\ DOMAIN p = 1 .. n
        BY <3>1, <4>1, SeqIs
      <4>3. ItemOf(p) = p[n] /\ ItemOf(ParentOf(p)) = p[n - 1]
        BY <4>1, <4>2 DEF ItemOf, ParentOf, Upto
      <4>4. p[n - 1] \in DOMAIN f /\ p[n] \in DOMAIN f
        <5> HIDE DEF n
        <5>1. n - 1 \in DOMAIN p /\ n \in DOMAIN p
          BY <4>2
        <5>2. p[n - 1] \in On(p) /\ p[n] \in On(p)
          BY <5>1 DEF On
        <5>3. QED
          BY <4>1, <5>2
      <4>5. ItemMapCmp(f, p[n - 1], p[n])
        <5>1. n - 1 \in 1 .. (Len(p) - 1) /\ (n - 1) + 1 = n
          BY <4>2
        <5>2. QED
          BY <4>1, <5>1 DEF Ordered
      <4>6. f[p[n - 1]] > f[p[n]] \/ (f[p[n - 1]] = f[p[n]] /\ p[n - 1] < p[n])
        BY <4>4, <4>5 DEF ItemMapCmp
      <4>7. f[p[n - 1]] \in Int /\ f[p[n]] \in Int
        <5>1. IsTable(order) /\ order = f
          BY <1>1, <2>1, <2>4, Known
        <5>2. QED
          BY <4>4, <5>1 DEF IsTable
      <4>8. QED
        BY <4>3, <4>6, <4>7
    <3>2. QED
      BY <3>1 DEF IsSorted
  <2>5. QED
    BY <2>3, <2>4
<1>2. IInv => SortedAfterSort
  BY <1>1 DEF SortedAfterSort
<1>3. QED
  BY <1>2, IInvHolds, PTL

(* The tree that is mined is that of a full window.                        *)
THEOREM MinedWhenFull == Spec => []MinedWindowIsFull
<1>1. ASSUME IInv, pc = "mine", (mTxnNum + 1) % setup.length = 0
      PROVE  Len(window) = setup.length
  <2> DEFINE n == setup.length
             m == mTxnNum
             l == Len(window)
  <2>1. n \in Nat \ {0} /\ l \in 0 .. n /\ m \in 0 .. (n - 1)
    BY <1>1, Known DEF IInv, StateType
  <2>2. l < n => m = l - 1
    BY <1>1 DEF IInv, Flow, MineCount
  <2>3. (m + 1) % n = 0
    BY <1>1
  <2> HIDE DEF n, m, l
  <2>4. l = n
    <3>1. SUFFICES ASSUME l < n PROVE FALSE
      BY <2>1
    <3>2. m + 1 \in 1 .. (n - 1)
      BY <2>1, <2>2, <3>1
    <3>3. (m + 1) % n = m + 1
      BY <2>1, <3>2
    <3>4. QED
      BY <2>3, <3>2, <3>3
  <2>5. QED
    BY <2>4 DEF n, l
<1>2. IInv => MinedWindowIsFull
  BY <1>1 DEF MinedWindowIsFull
<1>3. QED
  BY <1>2, IInvHolds, PTL

(* SortTransaction's check passes: by its count of an item without an      *)
(* entry as 0, too, the transaction is in order.                           *)
THEOREM SortTransactionChecks == Spec => []SortTransactionVerifies
<1>1. ASSUME IInv, setup.functor \in {"cp", "spo"},
             NEW S \in (SUBSET (1 .. setup.items)) \ {{}}
      PROVE  VerifySortedByFreqAppearance(SortTransaction(S))
  <2> DEFINE v == SortTransaction(S)
             N == setup.items
             Get(i) == IF i \in DOMAIN order THEN order[i] ELSE 0
  <2>1. N \in Nat /\ IsTable(order)
    BY <1>1, Known
  <2>2. PICK m \in Nat : DOMAIN order = 1 .. m
    BY <1>1 DEF IInv, Orders
  <2>3. \A i \in DOMAIN order : order[i] \in Nat
    BY <1>1 DEF IInv, Orders
  <2>4. v \in Routes /\ On(v) \subseteq 1 .. N /\ Ordered(v, order)
    <3> HIDE DEF N, v
    <3>1. S \in (SUBSET (1 .. N)) \ {{}}
      BY DEF N
    <3>2. LET way == SortItems(S, order)
          IN way \in Routes /\ On(way) = S /\ Ordered(way, order)
      BY <2>1, <3>1, TransactionPath
    <3>3. v = SortItems(S, order)
      BY DEF v, SortTransaction
    <3>4. QED
      BY <3>1, <3>2, <3>3
  <2> HIDE DEF v
  <2>5. ASSUME NEW j \in 2 .. Len(v)
        PROVE  /\ Get(v[j - 1]) >= Get(v[j])
               /\ Get(v[j - 1]) = Get(v[j]) => v[j - 1] < v[j]
    <3> DEFINE a == v[j - 1]
               b == v[j]
    <3>1. v \in Seq(Nat) /\ Len(v) \in Nat /\ DOMAIN v = 1 .. Len(v)
      BY <2>4, SeqIs DEF Routes
    <3>2. j - 1 \in 1 .. (Len(v) - 1) /\ j - 1 \in DOMAIN v /\ j \in DOMAIN v /\ (j - 1) + 1 = j
      BY <3>1
    <3>3. a \in 1 .. N /\ b \in 1 .. N
      BY <2>4, <3>2 DEF On
    <3>4. ItemMapCmp(order, a, b)
      BY <2>4, <3>2 DEF Ordered
    <3> HIDE DEF a, b, N
    <3>5. CASE a \in DOMAIN order /\ b \in DOMAIN order
      BY <2>3, <3>4, <3>5 DEF ItemMapCmp, a, b
    <3>6. CASE a \in DOMAIN order /\ b \notin DOMAIN order
      <4>1. a < b
        BY <2>1, <2>2, <3>3, <3>6
      <4>2. order[a] \in Nat
        BY <2>3, <3>6
      <4>3. QED
        BY <3>6, <4>1, <4>2 DEF a, b
    <3>7. CASE a \notin DOMAIN order
      BY <3>4, <3>7 DEF ItemMapCmp, a, b
    <3>8. QED
      BY <3>5, <3>6, <3>7
  <2>6. QED
    BY <2>5 DEF VerifySortedByFreqAppearance, v
<1>2. ASSUME IInv, setup.functor \in {"cp", "spo"}, pc = "load"
      PROVE  transaction \in (SUBSET (1 .. setup.items)) \ {{}}
  BY <1>2 DEF IInv, StateType, Flow, Ids
<1>3. ASSUME IInv, setup.functor \in {"cp", "spo"}, pc = "unload"
      PROVE  Head(window) \in (SUBSET (1 .. setup.items)) \ {{}}
  <2> DEFINE T == (SUBSET (1 .. setup.items)) \ {{}}
  <2>1. window \in Seq(T) /\ Len(window) = setup.length /\ setup.length \in Nat \ {0}
    BY <1>3, Known DEF IInv, StateType, Flow, Windows
  <2> HIDE DEF T
  <2>2. window # << >>
    BY <2>1
  <2>3. Head(window) \in T
    BY <2>1, <2>2
  <2>4. QED
    BY <2>3 DEF T
<1>4. IInv => SortTransactionVerifies
  BY <1>1, <1>2, <1>3 DEF SortTransactionVerifies
<1>5. QED
  BY <1>4, IInvHolds, PTL

(* The co-occurrence graph counts the items and the pairs of the window.   *)
THEOREM CoocurrencesCount == Spec => []CoocurrencesExact
<1>1. ASSUME IInv, setup.functor = "disc"
      PROVE  Tallies(tally, window, setup.items) /\ Ids = 1 .. setup.items
  BY <1>1 DEF IInv, TallyCount, Ids
<1>2. IInv => CoocurrencesExact
  BY <1>1 DEF CoocurrencesExact, Tallies, Occurring
<1>3. QED
  BY <1>2, IInvHolds, PTL

(* However items enter, climb and change places between two sorts, the sum *)
(* kept by corrections of two items each is the sum of all distances, and  *)
(* the ranking and its inverse hold each item met once.                    *)
THEOREM DistancesSummed == Spec => []DiffSumValid
<1>1. Spec => []RanksKept
  BY RanksKeptInit, RanksKeptNext, IInvHolds, PTL DEF Spec
<1>2. RanksKept => DiffSumValid
  <2>1. SUFFICES ASSUME RanksKept, setup.functor = "spo" PROVE DiffSumValid
    BY DEF DiffSumValid
  <2> DEFINE r == ranks
             n == Len(r.ranking)
  <2>2. /\ r.diffSum = Spread(r, 0 .. (n - 1)) /\ Ranking(r) /\ On(r.ranking) = Seen
    BY <2>1 DEF RanksKept, RankInv
  <2>3. /\ n \in Nat /\ DOMAIN r.ranking = 1 .. n /\ Distinct(r.ranking)
        /\ r.ranking \in Seq(Nat) /\ DOMAIN r.lookup = On(r.ranking)
        /\ \A k \in 1 .. n : r.lookup[r.ranking[k]] = k - 1
    BY <2>2, RankingIs DEF Ranking
  <2>4. n = Cardinality(Seen)
    BY <2>2, <2>3, DistinctCard
  <2>5. \A k \in 0 .. (n - 1) : r.lookup[r.ranking[k + 1]] = k
    <3> HIDE DEF n
    <3>1. ASSUME NEW k \in 0 .. (n - 1) PROVE r.lookup[r.ranking[k + 1]] = k
      <4>1. k + 1 \in 1 .. n /\ (k + 1) - 1 = k
        BY <2>3
      <4>2. QED
        BY <2>3, <4>1
    <3>2. QED
      BY <3>1
  <2>6. r.diffSum = MapThenSumSet(LAMBDA k : Distance(r, k), 0 .. (n - 1))
    BY <2>2 DEF Spread, MapThenSumSet, MapThenFoldSet
  <2>7. QED
    BY <2>3, <2>4, <2>5, <2>6 DEF DiffSumValid, On
<1>3. QED
  BY <1>1, <1>2, PTL
=============================================================================
