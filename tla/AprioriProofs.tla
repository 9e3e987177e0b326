--------------------------- MODULE AprioriProofs ---------------------------
(***************************************************************************)
(* Proofs about Apriori for every number of items, lines and threads: the  *)
(* strided shares of the tasks cover all candidates, a level is found      *)
(* exactly, rules divide by no zero, and the threads implement the search  *)
(* of LevelwiseSearch.                                                     *)
(***************************************************************************)
EXTENDS Apriori, FiniteSetTheorems, SequenceTheorems, NaturalsInduction,
        WellFoundedInduction, TLAPS

-----------------------------------------------------------------------------
(* Numbers.                                                                *)

(* Quotient and remainder of a natural number.                             *)
LEMMA DivMod ==
  ASSUME NEW a \in Nat, NEW n \in Nat \ {0}
  PROVE  /\ a = n * (a \div n) + (a % n)
         /\ a \div n \in Nat
         /\ a % n \in 0 .. (n - 1)
OBVIOUS

(* The representation as quotient and remainder is unique.                 *)
LEMMA DivModUnique ==
  ASSUME NEW n \in Nat \ {0}, NEW p \in Nat, NEW q \in Nat,
         NEW r \in 0 .. (n - 1), NEW s \in 0 .. (n - 1),
         n * p + r = n * q + s
  PROVE  p = q /\ r = s
<1>1. n * (q - p) = r - s
  OBVIOUS
<1>2. q - p <= -1 => n * (q - p) <= -n
  OBVIOUS
<1>3. q - p >= 1 => n * (q - p) >= n
  OBVIOUS
<1>4. p = q
  BY <1>1, <1>2, <1>3
<1>5. QED
  BY <1>1, <1>4

(* Below the modulus nothing wraps, and what is at most one modulus below  *)
(* zero wraps once.                                                        *)
LEMMA ModSmall ==
  ASSUME NEW m \in Nat \ {0}, NEW d \in (-m) .. (2 * m - 1)
  PROVE  d % m = IF d < 0 THEN d + m ELSE IF d < m THEN d ELSE d - m
OBVIOUS

(* A set of natural numbers that is not empty has a least member.          *)
LEMMA LeastExists ==
  ASSUME NEW T \in SUBSET Nat, T # {}
  PROVE  \E n \in T : \A m \in T : n <= m
<1> DEFINE less == {ss \in Nat \X Nat : ss[1] < ss[2]}
<1>1. IsWellFoundedOn(less, Nat)
  BY NatLessThanWellFounded, Zenon DEF OpToRel
<1> HIDE DEF less
<1>2. PICK n \in T : \A m \in T : <<m, n>> \notin less
  BY <1>1, WFMin
<1>3. ASSUME NEW m \in T PROVE n <= m
  <2>1. ~ (m < n)
    BY <1>2 DEF less
  <2>2. QED
    BY <2>1
<1>4. QED
  BY <1>3

-----------------------------------------------------------------------------
(* The frequent itemsets of a file, and those of one size.                 *)
OccursIn(f, S) == Cardinality({n \in DOMAIN f : S \subseteq f[n]})
FrequentIn(f, m) == {S \in Patterns : OccursIn(f, S) >= m}
OfSize(F, n) == {S \in F : Cardinality(S) = n}

(* CandidateAt and Unions for given candidates and frequent itemsets.      *)
PlaceOf(S, C) == Cardinality({T \in C : Before(T, S)})
At(C, pos) == CHOOSE S \in C : pos = PlaceOf(S, C)
Joins(C, n, F, x) ==
  {S \in F : \E y \in C : Cardinality(x \cap y) = n - 2 /\ S = x \cup y}

(* The positions task t of p takes, and what it has found before pos.      *)
Share(C, p, t) == {q \in 0 .. (Cardinality(C) - 1) : q % p = t - 1}
FoundBefore(C, n, F, p, t, pos) ==
  UNION {Joins(C, n, F, At(C, q)) : q \in {r \in Share(C, p, t) : r < pos}}
-----------------------------------------------------------------------------
TaskType == [pos : Nat, found : SUBSET Patterns]

StateType ==
  /\ pc \in {"load", "launch", "collect", "rules", "done"}
  /\ file \in Files /\ minCount \in 1 .. (Len(file) + 1)
  /\ numThreads \in Threads
  /\ mTxnId \in 0 .. Len(file)
  /\ k \in 1 .. (NumItems + 1)
  /\ tasks \in Seq(TaskType)

(* The lists hold what was loaded so far.                                  *)
Index ==
  /\ DOMAIN mInvertedIndex = {i \in Ids : \E n \in 1 .. mTxnId : i \in file[n]}
  /\ \A i \in DOMAIN mInvertedIndex :
       mInvertedIndex[i] = {n \in 1 .. mTxnId : i \in file[n]}
  /\ pc # "load" => mTxnId = Len(file)

AllFrequent == FrequentIn(file, minCount)

(* The candidates are the frequent itemsets of the level, and the result   *)
(* has those of this and of all lower levels.                              *)
Levels ==
  /\ candidates = OfSize(AllFrequent, LevelReached)
  /\ result = {S \in AllFrequent : Cardinality(S) <= LevelReached}
  /\ pc = "load" => k = 1
  /\ pc \in {"launch", "collect"} => k > 1 /\ candidates # {}
  /\ pc \in {"rules", "done"} => candidates = {}

(* A task has found what the candidates before its iterator give.          *)
Tasks ==
  /\ pc \notin {"launch", "collect"} => tasks = << >>
  /\ pc = "launch" => Len(tasks) < numThreads
  /\ pc = "collect" => Len(tasks) = numThreads
  /\ \A t \in DOMAIN tasks :
       /\ tasks[t].pos \in Share(candidates, numThreads, t) \cup {Cardinality(candidates)}
       /\ tasks[t].found = FoundBefore(candidates, k, AllFrequent, numThreads, t,
                                       tasks[t].pos)

(* Main has the results of the first tasks, which have ended.              *)
Joined ==
  /\ joined \in 0 .. Len(tasks)
  /\ pc = "launch" => joined = 0
  /\ \A t \in 1 .. joined : tasks[t].pos = Cardinality(candidates)
  /\ results = UNION {tasks[t].found : t \in 1 .. joined}

(* Rules are made at the end, of frequent itemsets.                        *)
RulesInv ==
  /\ pc # "done" => rules = {}
  /\ \A r \in rules : \E S \in AllFrequent : r \in Splits(S)

IInv == StateType /\ Index /\ Levels /\ Tasks /\ Joined /\ RulesInv
-----------------------------------------------------------------------------
(* Sets of items.                                                          *)

(* There are finitely many itemsets, each with finitely many items.        *)
LEMMA PatternsFinite ==
  /\ IsFiniteSet(Patterns)
  /\ \A S \in SUBSET Ids : IsFiniteSet(S) /\ Cardinality(S) \in 0 .. NumItems
  /\ \A S \in Patterns : Cardinality(S) \in 1 .. NumItems
<1>1. NumItems \in Nat
  BY FileAssumption
<1>2. IsFiniteSet(Ids) /\ Cardinality(Ids) = NumItems
  <2>1. IsFiniteSet(1 .. NumItems)
        /\ Cardinality(1 .. NumItems) = IF 1 > NumItems THEN 0 ELSE NumItems - 1 + 1
    BY <1>1, FS_Interval
  <2>2. QED
    BY <1>1, <2>1 DEF Ids
<1>3. ASSUME NEW S \in SUBSET Ids
      PROVE  IsFiniteSet(S) /\ Cardinality(S) \in 0 .. NumItems
  <2>1. IsFiniteSet(S) /\ Cardinality(S) <= Cardinality(Ids)
    BY <1>2, FS_Subset
  <2>2. Cardinality(S) \in Nat
    BY <2>1, FS_CardinalityType
  <2>3. QED
    BY <1>1, <1>2, <2>1, <2>2
<1>4. ASSUME NEW S \in Patterns PROVE Cardinality(S) \in 1 .. NumItems
  <2>1. S \in SUBSET Ids /\ S # {}
    BY DEF Patterns
  <2>2. Cardinality(S) # 0
    BY <1>3, <2>1, FS_EmptySet
  <2>3. QED
    BY <1>1, <1>3, <2>1, <2>2
<1>5. IsFiniteSet(Patterns)
  <2>1. IsFiniteSet(SUBSET Ids)
    BY <1>2, FS_SUBSET
  <2>2. Patterns \in SUBSET (SUBSET Ids)
    BY DEF Patterns
  <2>3. QED
    BY <2>1, <2>2, FS_Subset
<1>6. QED
  BY <1>3, <1>4, <1>5

(* Every set of items that is not empty has a least one, Min.              *)
LEMMA MinIs ==
  ASSUME NEW S \in SUBSET Ids, S # {}
  PROVE  Min(S) \in S /\ \A j \in S : Min(S) <= j
<1>1. S \in SUBSET Nat
  BY DEF Ids
<1>2. \E m \in S : \A j \in S : m <= j
  BY <1>1, LeastExists
<1>3. QED
  BY <1>2 DEF Min
-----------------------------------------------------------------------------
(* The order of the candidates.                                            *)

(* S comes before T if it has the first item that is not in both.          *)
LEMMA BeforeIs ==
  ASSUME NEW S \in SUBSET Ids, NEW T \in SUBSET Ids
  PROVE  Before(S, T) <=> \E m \in S \ T : \A j \in Ids : j < m => (j \in S <=> j \in T)
<1> DEFINE D == (S \ T) \cup (T \ S)
           d == Min(D)
<1>1. Ids \subseteq Nat
  BY DEF Ids
<1>2. S # T => d \in D /\ \A j \in D : d <= j
  <2>1. D \in SUBSET Ids /\ (S # T => D # {})
    OBVIOUS
  <2> HIDE DEF D
  <2>2. QED
    BY <2>1, MinIs
<1>3. Before(S, T) <=> S # T /\ d \in S
  BY DEF Before
<1> HIDE DEF d
<1>4. ASSUME Before(S, T)
      PROVE  \E m \in S \ T : \A j \in Ids : j < m => (j \in S <=> j \in T)
  <2>1. d \in S \ T /\ d \in Nat
    BY <1>1, <1>2, <1>3, <1>4
  <2>2. ASSUME NEW j \in Ids, j < d PROVE j \in S <=> j \in T
    <3>1. ~ (d <= j)
      BY <1>1, <2>1, <2>2
    <3>2. j \notin D
      BY <1>2, <1>3, <1>4, <3>1
    <3>3. QED
      BY <3>2
  <2>3. QED
    BY <2>1, <2>2
<1>5. ASSUME NEW m \in S \ T, \A j \in Ids : j < m => (j \in S <=> j \in T)
      PROVE  Before(S, T)
  <2>1. S # T /\ m \in D /\ m \in Nat
    BY <1>1
  <2>2. d \in D /\ d <= m /\ d \in Ids /\ d \in Nat
    BY <1>1, <1>2, <2>1
  <2>3. ~ (d < m)
    BY <1>5, <2>2
  <2>4. d = m
    BY <2>1, <2>2, <2>3
  <2>5. QED
    BY <1>3, <2>1, <2>4
<1>6. QED
  BY <1>4, <1>5

(* Before is a strict total order.                                         *)
LEMMA BeforeIrreflexive ==
  ASSUME NEW S
  PROVE  ~ Before(S, S)
BY DEF Before

(* Of two itemsets one is before the other.                                *)
LEMMA BeforeTotal ==
  ASSUME NEW S \in SUBSET Ids, NEW T \in SUBSET Ids, S # T
  PROVE  Before(S, T) \/ Before(T, S)
<1> DEFINE D == (S \ T) \cup (T \ S)
<1>1. D \in SUBSET Ids /\ D # {} /\ D = (T \ S) \cup (S \ T)
  OBVIOUS
<1> HIDE DEF D
<1>2. Min(D) \in D
  BY <1>1, MinIs
<1>3. Min(D) \in S \/ Min(D) \in T
  BY <1>2 DEF D
<1>4. Before(S, T) <=> Min(D) \in S
  BY DEF Before, D
<1>5. Before(T, S) <=> Min(D) \in T
  BY <1>1 DEF Before
<1>6. QED
  BY <1>3, <1>4, <1>5

(* The order is transitive.                                                *)
LEMMA BeforeTransitive ==
  ASSUME NEW S \in SUBSET Ids, NEW T \in SUBSET Ids, NEW U \in SUBSET Ids,
         Before(S, T), Before(T, U)
  PROVE  Before(S, U)
<1>1. PICK m \in S \ T : \A j \in Ids : j < m => (j \in S <=> j \in T)
  BY BeforeIs
<1>2. PICK n \in T \ U : \A j \in Ids : j < n => (j \in T <=> j \in U)
  BY BeforeIs
<1>3. m \in Nat /\ n \in Nat /\ m \in Ids /\ n \in Ids /\ m # n /\ Ids \subseteq Nat
  BY DEF Ids
<1>4. CASE m < n
  <2>1. m \in S \ U
    BY <1>2, <1>3, <1>4
  <2>2. \A j \in Ids : j < m => (j \in S <=> j \in U)
    BY <1>1, <1>2, <1>3, <1>4
  <2>3. QED
    BY <2>1, <2>2, BeforeIs
<1>5. CASE n < m
  <2>1. n \in S \ U
    BY <1>1, <1>3, <1>5
  <2>2. \A j \in Ids : j < n => (j \in S <=> j \in U)
    BY <1>1, <1>2, <1>3, <1>5
  <2>3. QED
    BY <2>1, <2>2, BeforeIs
<1>6. QED
  BY <1>3, <1>4, <1>5

(* The places of the candidates in their order are 0, 1, 2...              *)
LEMMA Places ==
  ASSUME NEW C \in SUBSET Patterns
  PROVE  /\ IsFiniteSet(C) /\ Cardinality(C) \in Nat
         /\ \A S \in C : PlaceOf(S, C) \in 0 .. (Cardinality(C) - 1)
         /\ \A S, T \in C : PlaceOf(S, C) = PlaceOf(T, C) => S = T
         /\ \A pos \in 0 .. (Cardinality(C) - 1) : \E S \in C : PlaceOf(S, C) = pos
<1> DEFINE n == Cardinality(C)
           earlier(S) == {T \in C : Before(T, S)}
           place == [S \in C |-> PlaceOf(S, C)]
<1>1. IsFiniteSet(C) /\ n \in Nat
  BY PatternsFinite, FS_Subset, FS_CardinalityType
<1>2. C \subseteq SUBSET Ids
  BY DEF Patterns
<1>3. ASSUME NEW S \in C
      PROVE  /\ IsFiniteSet(earlier(S)) /\ S \notin earlier(S)
             /\ PlaceOf(S, C) \in 0 .. (n - 1) /\ PlaceOf(S, C) \in Nat
  <2>1. S \notin earlier(S) /\ earlier(S) \in SUBSET (C \ {S})
    BY BeforeIrreflexive
  <2>2. IsFiniteSet(C \ {S}) /\ Cardinality(C \ {S}) = n - 1
    BY <1>1, FS_RemoveElement
  <2>3. IsFiniteSet(earlier(S)) /\ Cardinality(earlier(S)) <= n - 1
    BY <2>1, <2>2, FS_Subset
  <2>4. Cardinality(earlier(S)) \in Nat
    BY <2>3, FS_CardinalityType
  <2>5. PlaceOf(S, C) = Cardinality(earlier(S))
    BY DEF PlaceOf
  <2> HIDE DEF earlier, n
  <2>6. QED
    BY <1>1, <2>1, <2>3, <2>4, <2>5
<1>4. ASSUME NEW S \in C, NEW T \in C, Before(S, T)
      PROVE  PlaceOf(S, C) < PlaceOf(T, C)
  <2>1. earlier(S) \cup {S} \in SUBSET earlier(T)
    <3>1. ASSUME NEW U \in earlier(S) PROVE Before(U, T)
      BY <1>2, <1>4, <3>1, BeforeTransitive
    <3>2. QED
      BY <1>4, <3>1
  <2>2. Cardinality(earlier(S) \cup {S}) = Cardinality(earlier(S)) + 1
    BY <1>3, FS_AddElement
  <2>3. Cardinality(earlier(S) \cup {S}) <= Cardinality(earlier(T))
    BY <1>3, <2>1, FS_Subset
  <2>4. /\ PlaceOf(S, C) = Cardinality(earlier(S))
        /\ PlaceOf(T, C) = Cardinality(earlier(T))
    BY DEF PlaceOf
  <2>5. PlaceOf(S, C) \in Nat /\ PlaceOf(T, C) \in Nat
    BY <1>3
  <2> HIDE DEF earlier
  <2>6. QED
    BY <2>2, <2>3, <2>4, <2>5
<1>5. ASSUME NEW S \in C, NEW T \in C, PlaceOf(S, C) = PlaceOf(T, C)
      PROVE  S = T
  <2>1. SUFFICES ASSUME S # T PROVE FALSE
    OBVIOUS
  <2>2. Before(S, T) \/ Before(T, S)
    BY <1>2, <2>1, BeforeTotal
  <2>3. PlaceOf(S, C) \in Nat /\ PlaceOf(T, C) \in Nat
    BY <1>3
  <2>4. QED
    BY <1>4, <1>5, <2>2, <2>3
<1>6. ASSUME NEW pos \in 0 .. (n - 1) PROVE \E S \in C : PlaceOf(S, C) = pos
  <2>1. place \in Injection(C, 0 .. (n - 1))
    BY <1>3, <1>5 DEF Injection, IsInjective
  <2>2. IsFiniteSet(0 .. (n - 1)) /\ Cardinality(0 .. (n - 1)) = n
    <3>1. 0 \in Int /\ n - 1 \in Int
      BY <1>1
    <3>2. /\ IsFiniteSet(0 .. (n - 1))
          /\ Cardinality(0 .. (n - 1)) = IF 0 > n - 1 THEN 0 ELSE (n - 1) - 0 + 1
      BY <3>1, FS_Interval
    <3>3. QED
      BY <1>1, <3>2
  <2>3. place \in Surjection(C, 0 .. (n - 1))
    BY <2>1, <2>2, FS_Injection
  <2>4. PICK S \in C : place[S] = pos
    BY <2>3 DEF Surjection
  <2>5. QED
    BY <2>4
<1>7. QED
  BY <1>1, <1>3, <1>5, <1>6

(* At finds the candidate at each place, and every candidate at its place. *)
LEMMA AtIs ==
  ASSUME NEW C \in SUBSET Patterns
  PROVE  /\ \A pos \in 0 .. (Cardinality(C) - 1) : At(C, pos) \in C
         /\ \A S \in C : At(C, PlaceOf(S, C)) = S
<1>1. ASSUME NEW pos \in 0 .. (Cardinality(C) - 1)
      PROVE  At(C, pos) \in C /\ pos = PlaceOf(At(C, pos), C)
  <2>1. \E S \in C : pos = PlaceOf(S, C)
    BY Places
  <2>2. QED
    BY <2>1 DEF At
<1>2. ASSUME NEW S \in C PROVE At(C, PlaceOf(S, C)) = S
  <2>1. PlaceOf(S, C) \in 0 .. (Cardinality(C) - 1)
    BY Places
  <2>2. At(C, PlaceOf(S, C)) \in C /\ PlaceOf(S, C) = PlaceOf(At(C, PlaceOf(S, C)), C)
    BY <1>1, <2>1
  <2>3. QED
    BY <2>2, Places
<1>3. QED
  BY <1>1, <1>2
-----------------------------------------------------------------------------
(* Frequent itemsets.                                                      *)

(* A file is a sequence of sets of items.                                  *)
LEMMA FileIs ==
  ASSUME NEW f \in Files
  PROVE  /\ Len(f) \in Nat \ {0} /\ DOMAIN f = 1 .. Len(f)
         /\ \A j \in DOMAIN f : f[j] \in Patterns
<1>1. PICK n \in 1 .. MaxTxns : f \in [1 .. n -> Patterns]
  BY DEF Files
<1>2. n \in Nat \ {0}
  BY <1>1, FileAssumption
<1>3. Len(f) = n
  BY <1>1, <1>2
<1>4. QED
  BY <1>1, <1>2, <1>3

(* An itemset occurs in as many lines as its subsets at most.              *)
LEMMA OccursLess ==
  ASSUME NEW f \in Files, NEW S, NEW T, S \subseteq T
  PROVE  /\ OccursIn(f, S) \in Nat /\ OccursIn(f, T) \in Nat
         /\ OccursIn(f, T) <= OccursIn(f, S)
<1>1. IsFiniteSet(DOMAIN f)
  BY FileIs, FS_Interval
<1>2. ASSUME NEW U
      PROVE  /\ IsFiniteSet({n \in DOMAIN f : U \subseteq f[n]})
             /\ OccursIn(f, U) \in Nat
  <2>1. {n \in DOMAIN f : U \subseteq f[n]} \in SUBSET DOMAIN f
    OBVIOUS
  <2>2. IsFiniteSet({n \in DOMAIN f : U \subseteq f[n]})
    BY <1>1, <2>1, FS_Subset
  <2>3. QED
    BY <2>2, FS_CardinalityType DEF OccursIn
<1>3. {n \in DOMAIN f : T \subseteq f[n]} \in SUBSET {n \in DOMAIN f : S \subseteq f[n]}
  OBVIOUS
<1>4. OccursIn(f, T) <= OccursIn(f, S)
  BY <1>2, <1>3, FS_Subset DEF OccursIn
<1>5. QED
  BY <1>2, <1>4

(* Subsets of a frequent itemset are frequent.                             *)
LEMMA FrequentSubset ==
  ASSUME NEW f \in Files, NEW m \in Nat \ {0}, NEW T \in FrequentIn(f, m),
         NEW S \in SUBSET T, S # {}
  PROVE  S \in FrequentIn(f, m)
<1>1. T \in Patterns /\ OccursIn(f, T) >= m
  BY DEF FrequentIn
<1>2. S \in Patterns
  BY <1>1 DEF Patterns
<1>3. OccursIn(f, S) \in Nat /\ OccursIn(f, T) \in Nat /\ OccursIn(f, T) <= OccursIn(f, S)
  BY OccursLess
<1>4. OccursIn(f, S) >= m
  BY <1>1, <1>3
<1>5. QED
  BY <1>2, <1>4 DEF FrequentIn

(* A frequent itemset is in some line.                                     *)
LEMMA FrequentOccurs ==
  ASSUME NEW f \in Files, NEW m \in Nat \ {0}, NEW S \in FrequentIn(f, m)
  PROVE  \E n \in DOMAIN f : S \subseteq f[n]
<1>1. SUFFICES ASSUME \A n \in DOMAIN f : ~ (S \subseteq f[n]) PROVE FALSE
  OBVIOUS
<1>2. {n \in DOMAIN f : S \subseteq f[n]} = {}
  BY <1>1
<1>3. OccursIn(f, S) = 0
  BY <1>2, FS_EmptySet DEF OccursIn
<1>4. OccursIn(f, S) >= m
  BY DEF FrequentIn
<1>5. QED
  BY <1>3, <1>4

(* Without one of its items an itemset is one smaller.                     *)
LEMMA OneLess ==
  ASSUME NEW S \in SUBSET Ids, NEW i \in S
  PROVE  Cardinality(S \ {i}) = Cardinality(S) - 1
BY PatternsFinite, FS_RemoveElement

(* If there are no frequent itemsets of a size there are no larger ones.   *)
LEMMA NoLarger ==
  ASSUME NEW f \in Files, NEW m \in Nat \ {0}, NEW c \in Nat \ {0},
         OfSize(FrequentIn(f, m), c) = {},
         NEW T \in FrequentIn(f, m)
  PROVE  Cardinality(T) < c
<1> DEFINE F == FrequentIn(f, m)
           sizes == {n \in Nat : n >= c /\ \E S \in F : Cardinality(S) = n}
<1>1. \A S \in F : S \in SUBSET Ids /\ Cardinality(S) \in Nat
  BY PatternsFinite DEF FrequentIn, Patterns
<1>2. SUFFICES ASSUME Cardinality(T) >= c PROVE FALSE
  BY <1>1
<1>3. Cardinality(T) \in sizes
  BY <1>1, <1>2
<1>4. sizes \in SUBSET Nat /\ sizes # {}
  BY <1>3
<1> HIDE DEF sizes
<1>5. PICK n \in sizes : \A l \in sizes : n <= l
  BY <1>4, LeastExists
<1>6. n \in Nat /\ n >= c /\ \E S \in F : Cardinality(S) = n
  BY <1>5 DEF sizes
<1>7. PICK S \in F : Cardinality(S) = n
  BY <1>6
<1>8. n # c
  BY <1>7 DEF OfSize
<1>9. S # {}
  BY <1>6, <1>7, FS_EmptySet
<1>10. PICK i \in S : TRUE
  BY <1>9
<1>11. Cardinality(S \ {i}) = n - 1
  BY <1>1, <1>7, OneLess
<1>12. S \ {i} # {}
  <2>1. n - 1 # 0
    BY <1>6, <1>8
  <2>2. QED
    BY <1>11, <2>1, FS_EmptySet
<1>13. S \ {i} \in F
  BY <1>12, FrequentSubset
<1>14. n - 1 \in sizes
  BY <1>6, <1>8, <1>11, <1>13 DEF sizes
<1>15. n <= n - 1
  BY <1>5, <1>14
<1>16. QED
  BY <1>6, <1>15

(* The frequent itemsets of a size are the unions of two of one item less. *)
LEMMA LevelIsJoins ==
  ASSUME NEW f \in Files, NEW m \in Nat \ {0}, NEW n \in Nat, n > 1
  PROVE  LET F == FrequentIn(f, m)
             C == OfSize(F, n - 1)
         IN OfSize(F, n) = UNION {Joins(C, n, F, x) : x \in C}
<1> DEFINE F == FrequentIn(f, m)
           C == OfSize(F, n - 1)
<1>1. \A S \in F : S \in SUBSET Ids /\ IsFiniteSet(S) /\ Cardinality(S) \in Nat
  BY PatternsFinite DEF FrequentIn, Patterns
<1>2. ASSUME NEW x \in C, NEW S \in Joins(C, n, F, x)
      PROVE  S \in OfSize(F, n)
  <2>1. PICK y \in C : Cardinality(x \cap y) = n - 2 /\ S = x \cup y
    BY DEF Joins
  <2>2. /\ x \in F /\ y \in F /\ Cardinality(x) = n - 1 /\ Cardinality(y) = n - 1
        /\ S \in F
    BY DEF OfSize, Joins
  <2>3. Cardinality(x \cup y) = Cardinality(x) + Cardinality(y) - Cardinality(x \cap y)
    BY <1>1, <2>2, FS_Union
  <2>4. Cardinality(S) = n
    BY <2>1, <2>2, <2>3
  <2>5. QED
    BY <2>2, <2>4 DEF OfSize
<1>3. ASSUME NEW S \in OfSize(F, n)
      PROVE  \E x \in C : S \in Joins(C, n, F, x)
  <2>1. S \in F /\ Cardinality(S) = n /\ S \in SUBSET Ids /\ IsFiniteSet(S)
    BY <1>1 DEF OfSize
  <2>2. PICK i \in S : TRUE
    <3>1. S # {}
      BY <2>1, FS_EmptySet
    <3>2. QED
      BY <3>1
  <2> DEFINE x == S \ {i}
  <2>3. Cardinality(x) = n - 1 /\ x \in SUBSET Ids /\ i \notin x
    BY <2>1, OneLess
  <2>4. PICK j \in x : TRUE
    <3>1. x # {}
      BY <2>3, FS_EmptySet
    <3>2. QED
      BY <3>1
  <2> DEFINE y == S \ {j}
  <2>5. Cardinality(y) = n - 1
    BY <2>1, <2>4, OneLess
  <2>6. x \cap y = x \ {j} /\ x \cup y = S
    BY <2>2, <2>4
  <2>7. Cardinality(x \ {j}) = (n - 1) - 1
    BY <2>3, <2>4, OneLess
  <2>8. Cardinality(x \cap y) = n - 2
    BY <2>6, <2>7
  <2>9. x \in F /\ y \in F
    <3>1. i \in y /\ j \in x
      BY <2>2, <2>3, <2>4
    <3>2. x \in SUBSET S /\ y \in SUBSET S /\ x # {} /\ y # {}
      BY <3>1
    <3>3. QED
      BY <2>1, <3>2, FrequentSubset
  <2>10. x \in C /\ y \in C
    BY <2>3, <2>5, <2>9 DEF OfSize
  <2>11. S \in Joins(C, n, F, x)
    BY <2>1, <2>6, <2>8, <2>10 DEF Joins
  <2>12. QED
    BY <2>10, <2>11
<1>4. QED
  BY <1>2, <1>3
-----------------------------------------------------------------------------
(* The shares of the tasks.                                                *)

(* Between a position and the task's next one there is none of its own.    *)
LEMMA ShareStep ==
  ASSUME NEW p \in Nat \ {0}, NEW a \in Nat, NEW q \in Nat,
         a % p = q % p, a <= q, q < a + p
  PROVE  q = a
<1> DEFINE r == a % p
           b == a \div p
           c == q \div p
<1>1. a = p * b + r /\ b \in Nat /\ r \in 0 .. (p - 1)
  BY DivMod, Zenon
<1>2. q = p * c + r /\ c \in Nat
  <2>1. q = p * c + (q % p) /\ c \in Nat
    BY DivMod
  <2>2. QED
    BY <2>1
<1> HIDE DEF b, c, r
<1>3. p * (c - b) = q - a /\ c - b \in Int
  BY <1>1, <1>2
<1>4. c - b >= 1 => p * (c - b) >= p
  BY <1>3
<1>5. c - b <= -1 => p * (c - b) <= -p
  BY <1>3
<1>6. c - b = 0
  BY <1>3, <1>4, <1>5
<1>7. c = b
  BY <1>1, <1>2, <1>6
<1>8. QED
  BY <1>1, <1>2, <1>7

(* A stride keeps to the share.                                            *)
LEMMA ShareNext ==
  ASSUME NEW p \in Nat \ {0}, NEW a \in Nat
  PROVE  (a + p) % p = a % p
<1> DEFINE r == a % p
           b == a \div p
           d == a + p
           s == d % p
           c == d \div p
<1>1. a = p * b + r /\ b \in Nat /\ r \in 0 .. (p - 1)
  BY DivMod, Zenon
<1>2. d \in Nat
  OBVIOUS
<1> HIDE DEF d
<1>3. d = p * c + s /\ c \in Nat /\ s \in 0 .. (p - 1)
  BY <1>2, DivMod, Zenon
<1> HIDE DEF b, c, r, s
<1>4. p * (b + 1) = p * b + p /\ b + 1 \in Nat
  BY <1>1
<1>5. p * c + s = p * (b + 1) + r
  BY <1>1, <1>3, <1>4 DEF d
<1>6. s = r
  BY <1>1, <1>3, <1>4, <1>5, DivModUnique
<1>7. QED
  BY <1>6 DEF s, r, d

(* A task starts at its first position, or at the end.                     *)
LEMMA ShareStart ==
  ASSUME NEW C \in SUBSET Patterns, NEW F, NEW n,
         NEW p \in Nat \ {0}, NEW t \in 1 .. p
  PROVE  LET pos == Min({t - 1, Cardinality(C)})
         IN /\ pos \in Share(C, p, t) \cup {Cardinality(C)} /\ pos \in Nat
            /\ FoundBefore(C, n, F, p, t, pos) = {}
<1> DEFINE c == Cardinality(C)
           pos == Min({t - 1, c})
<1>1. c \in Nat /\ t - 1 \in Nat /\ t - 1 < p
  BY Places
<1>2. pos = IF t - 1 <= c THEN t - 1 ELSE c
  BY <1>1 DEF Min
<1>3. pos \in Nat /\ pos <= t - 1 /\ pos <= c /\ (pos < c => pos = t - 1)
  BY <1>1, <1>2
<1>4. ASSUME NEW q \in 0 .. (p - 1) PROVE q % p = q
  <2>1. q \in (-p) .. (2 * p - 1)
    OBVIOUS
  <2>2. q % p = IF q < 0 THEN q + p ELSE IF q < p THEN q ELSE q - p
    BY <2>1, ModSmall, Zenon
  <2>3. QED
    BY <2>2
<1> HIDE DEF c, pos
<1>5. pos \in Share(C, p, t) \cup {c}
  <2>1. CASE pos = c
    BY <2>1
  <2>2. CASE pos # c
    <3>1. pos \in 0 .. (c - 1) /\ pos = t - 1 /\ pos \in 0 .. (p - 1)
      BY <1>1, <1>3, <2>2
    <3>2. pos % p = t - 1
      BY <1>4, <3>1
    <3>3. QED
      BY <3>1, <3>2 DEF Share, c
  <2>3. QED
    BY <2>1, <2>2
<1>6. {r \in Share(C, p, t) : r < pos} = {}
  <2>1. ASSUME NEW q \in Share(C, p, t), q < pos PROVE FALSE
    <3>1. q \in Nat /\ q % p = t - 1
      BY <1>1, <2>1 DEF Share, c
    <3>2. q \in 0 .. (p - 1) /\ q # t - 1
      BY <1>1, <1>3, <2>1, <3>1
    <3>3. QED
      BY <1>4, <3>1, <3>2
  <2>2. QED
    BY <2>1
<1>7. FoundBefore(C, n, F, p, t, pos) = {}
  BY <1>6 DEF FoundBefore
<1>8. QED
  BY <1>3, <1>5, <1>7 DEF pos, c

(* A turn of a task finds what its candidate gives, and goes on to the     *)
(* next position of its share, or to the end.                              *)
LEMMA ShareTurn ==
  ASSUME NEW C \in SUBSET Patterns, NEW F, NEW n,
         NEW p \in Nat \ {0}, NEW t \in 1 .. p, NEW a \in Share(C, p, t),
         NEW pos, pos = Min({a + p, Cardinality(C)})
  PROVE  /\ pos \in Share(C, p, t) \cup {Cardinality(C)} /\ pos \in Nat
         /\ FoundBefore(C, n, F, p, t, pos)
              = FoundBefore(C, n, F, p, t, a) \cup Joins(C, n, F, At(C, a))
<1> DEFINE c == Cardinality(C)
<1>1. c \in Nat /\ a \in 0 .. (c - 1) /\ a \in Nat /\ a % p = t - 1
  BY Places DEF Share
<1>2. pos = IF a + p <= c THEN a + p ELSE c
  BY <1>1 DEF Min
<1> HIDE DEF c
<1>3. pos \in Nat /\ pos <= a + p /\ pos <= c /\ (pos < c => pos = a + p) /\ a < pos
  BY <1>1, <1>2
<1>4. pos \in Share(C, p, t) \cup {c}
  <2>1. CASE pos = c
    BY <2>1
  <2>2. CASE pos # c
    <3>1. pos \in 0 .. (c - 1) /\ pos = a + p
      BY <1>1, <1>3, <2>2
    <3>2. pos % p = t - 1
      BY <1>1, <3>1, ShareNext
    <3>3. QED
      BY <3>1, <3>2 DEF Share, c
  <2>3. QED
    BY <2>1, <2>2
<1>5. {r \in Share(C, p, t) : r < pos} = {r \in Share(C, p, t) : r < a} \cup {a}
  <2>1. ASSUME NEW q \in Share(C, p, t) PROVE q < pos <=> q < a \/ q = a
    <3>1. q \in Nat /\ q % p = t - 1 /\ q < c
      BY <1>1, <2>1 DEF Share, c
    <3>2. ASSUME q < pos, ~ (q < a) PROVE q = a
      <4>1. a % p = q % p /\ a <= q /\ q < a + p
        BY <1>1, <1>3, <3>1, <3>2
      <4>2. QED
        BY <1>1, <3>1, <4>1, ShareStep
    <3>3. QED
      BY <1>1, <1>3, <3>1, <3>2
  <2>2. QED
    BY <2>1
<1>6. FoundBefore(C, n, F, p, t, pos)
        = FoundBefore(C, n, F, p, t, a) \cup Joins(C, n, F, At(C, a))
  BY <1>5 DEF FoundBefore
<1>7. QED
  BY <1>3, <1>4, <1>6 DEF c

(* Together the tasks find what all candidates give.                       *)
LEMMA SharesCover ==
  ASSUME NEW C \in SUBSET Patterns, NEW F, NEW n, NEW p \in Nat \ {0}
  PROVE  UNION {FoundBefore(C, n, F, p, t, Cardinality(C)) : t \in 1 .. p}
           = UNION {Joins(C, n, F, x) : x \in C}
<1> DEFINE c == Cardinality(C)
<1>1. c \in Nat
  BY Places
<1>2. ASSUME NEW t \in 1 .. p, NEW S \in FoundBefore(C, n, F, p, t, c)
      PROVE  \E x \in C : S \in Joins(C, n, F, x)
  <2>1. PICK q \in Share(C, p, t) : S \in Joins(C, n, F, At(C, q))
    BY DEF FoundBefore
  <2>2. At(C, q) \in C
    BY AtIs DEF Share
  <2>3. QED
    BY <2>1, <2>2
<1>3. ASSUME NEW x \in C, NEW S \in Joins(C, n, F, x)
      PROVE  \E t \in 1 .. p : S \in FoundBefore(C, n, F, p, t, c)
  <2> DEFINE q == PlaceOf(x, C)
             r == q % p
  <2>1. q \in 0 .. (c - 1) /\ q \in Nat /\ q < c /\ At(C, q) = x
    BY <1>1, Places, AtIs
  <2> HIDE DEF q, c
  <2>2. r \in 0 .. (p - 1)
    BY <2>1, DivMod
  <2> HIDE DEF r
  <2>3. r + 1 \in 1 .. p /\ (r + 1) - 1 = r
    BY <2>2
  <2>4. q \in Share(C, p, r + 1)
    BY <2>1, <2>3 DEF Share, r, c
  <2>5. S \in FoundBefore(C, n, F, p, r + 1, c)
    BY <2>1, <2>4 DEF FoundBefore
  <2>6. QED
    BY <2>3, <2>5
<1>4. QED
  BY <1>2, <1>3
-----------------------------------------------------------------------------
(* Facts about every state.                                                *)

(* The types in the form the steps below use them.                         *)
LEMMA StateIs ==
  ASSUME StateType
  PROVE  /\ file \in Files /\ Len(file) \in Nat \ {0} /\ DOMAIN file = 1 .. Len(file)
         /\ minCount \in Nat \ {0} /\ numThreads \in Nat \ {0} /\ k \in Nat \ {0}
         /\ mTxnId \in Nat /\ mTxnId <= Len(file) /\ NumItems \in Nat
         /\ Len(tasks) \in Nat /\ DOMAIN tasks = 1 .. Len(tasks)
         /\ tasks = << >> <=> Len(tasks) = 0
         /\ \A t \in DOMAIN tasks : tasks[t] \in TaskType
<1>1. file \in Files /\ Len(file) \in Nat \ {0} /\ DOMAIN file = 1 .. Len(file)
  BY FileIs DEF StateType
<1>2. minCount \in Nat \ {0} /\ mTxnId \in Nat /\ mTxnId <= Len(file)
  BY <1>1 DEF StateType
<1>3. numThreads \in Nat \ {0} /\ k \in Nat \ {0} /\ NumItems \in Nat
  BY ThreadsAssumption, FileAssumption DEF StateType, Threads
<1>4. tasks \in Seq(TaskType)
  BY DEF StateType
<1>5. QED
  BY <1>1, <1>2, <1>3, <1>4

(* Frequent, and the candidates, in the terms of this module.              *)
LEMMA FrequentIs == Frequent = AllFrequent
BY DEF Frequent, Occurrences, AllFrequent, FrequentIn, OccursIn

(* The candidates are frequent itemsets.                                   *)
LEMMA CandidatesAre ==
  ASSUME Levels
  PROVE  /\ candidates \in SUBSET Patterns /\ candidates \subseteq AllFrequent
         /\ AllFrequent \subseteq Patterns
BY DEF Levels, OfSize, AllFrequent, FrequentIn

(* CandidateAt is At for the current candidates.                           *)
LEMMA CandidateAtIs ==
  ASSUME NEW pos
  PROVE  CandidateAt(pos) = At(candidates, pos)
BY DEF CandidateAt, At, PlaceOf

(* When all lines are loaded, items of frequent itemsets have a tid list,  *)
(* and Count counts lines.                                                 *)
LEMMA HaveLists ==
  ASSUME StateType, Index, mTxnId = Len(file), NEW S \in AllFrequent
  PROVE  S \subseteq DOMAIN mInvertedIndex
<1>1. file \in Files /\ DOMAIN file = 1 .. Len(file) /\ minCount \in Nat \ {0}
  BY StateIs
<1>2. PICK n \in DOMAIN file : S \subseteq file[n]
  BY <1>1, FrequentOccurs DEF AllFrequent
<1>3. S \subseteq Ids
  BY DEF AllFrequent, FrequentIn, Patterns
<1>4. QED
  BY <1>1, <1>2, <1>3 DEF Index

(* Count counts the lines that contain an itemset.                         *)
LEMMA CountIs ==
  ASSUME StateType, Index, mTxnId = Len(file),
         NEW S \in SUBSET DOMAIN mInvertedIndex, S # {}
  PROVE  Count(S) = OccursIn(file, S)
<1> DEFINE tidLists == GetTidLists(S)
           tids == {tid \in UNION tidLists : \A t \in tidLists : tid \in t}
           lines == {n \in DOMAIN file : S \subseteq file[n]}
<1>1. tidLists = {mInvertedIndex[i] : i \in S}
  BY DEF GetTidLists
<1>2. \A i \in S : mInvertedIndex[i] = {n \in DOMAIN file : i \in file[n]}
  BY StateIs DEF Index
<1>3. tids = lines
  <2>1. ASSUME NEW n \in tids PROVE n \in lines
    <3>1. \A i \in S : n \in mInvertedIndex[i]
      BY <1>1, <2>1
    <3>2. \A i \in S : n \in DOMAIN file /\ i \in file[n]
      BY <1>2, <3>1
    <3>3. QED
      BY <3>2
  <2>2. ASSUME NEW n \in lines PROVE n \in tids
    <3>1. \A i \in S : n \in mInvertedIndex[i]
      BY <1>2, <2>2
    <3>2. PICK i \in S : TRUE
      OBVIOUS
    <3>3. mInvertedIndex[i] \in tidLists
      BY <1>1
    <3>4. \A t \in tidLists : n \in t
      BY <1>1, <3>1
    <3>5. QED
      BY <3>1, <3>3, <3>4
  <2>3. QED
    BY <2>1, <2>2
<1>4. Count(S) = Cardinality(tids)
  BY DEF Count
<1>5. QED
  BY <1>3, <1>4 DEF OccursIn

(* So the filter keeps what is frequent.                                   *)
LEMMA FilterIs ==
  ASSUME StateType, Index, mTxnId = Len(file),
         NEW S \in SUBSET DOMAIN mInvertedIndex, S # {}
  PROVE  Filter(S) <=> S \in AllFrequent
<1>1. DOMAIN mInvertedIndex \subseteq Ids
  BY DEF Index
<1>2. S \in Patterns
  BY <1>1 DEF Patterns
<1>3. QED
  BY <1>2, CountIs DEF Filter, AllFrequent, FrequentIn

(* A turn of a task finds the frequent unions of its candidate.            *)
LEMMA UnionsAre ==
  ASSUME StateType, Index, Levels, pc \in {"launch", "collect"}, NEW x \in candidates
  PROVE  Unions(x) = Joins(candidates, k, AllFrequent, x)
<1> DEFINE F == AllFrequent
           C == candidates
<1>1. /\ k \in Nat /\ k > 1 /\ C = OfSize(F, k - 1) /\ mTxnId = Len(file)
      /\ file \in Files /\ minCount \in Nat \ {0}
  BY StateIs DEF Levels, Index, LevelReached
<1>2. \A S \in F : S # {} /\ S \in SUBSET Ids /\ S \subseteq DOMAIN mInvertedIndex
  BY <1>1, HaveLists DEF AllFrequent, FrequentIn, Patterns
<1>3. C \subseteq F
  BY CandidatesAre
<1>4. ASSUME NEW S \in Unions(x) PROVE S \in Joins(C, k, F, x)
  <2>1. PICK y \in C : Cardinality(x \cap y) = k - 2 /\ S = x \cup y /\ Filter(S)
    BY DEF Unions
  <2>2. S \subseteq DOMAIN mInvertedIndex /\ S # {}
    BY <1>2, <1>3, <2>1
  <2>3. S \in F
    BY <1>1, <2>1, <2>2, FilterIs
  <2>4. QED
    BY <2>1, <2>3 DEF Joins
<1>5. ASSUME NEW S \in Joins(C, k, F, x) PROVE S \in Unions(x)
  <2>1. PICK y \in C : Cardinality(x \cap y) = k - 2 /\ S = x \cup y
    BY DEF Joins
  <2>2. S \in F
    BY DEF Joins
  <2>3. Filter(S)
    BY <1>1, <1>2, <2>2, FilterIs
  <2>4. S \in OfSize(F, k)
    <3>1. OfSize(F, k) = UNION {Joins(C, k, F, z) : z \in C}
      BY <1>1, LevelIsJoins DEF AllFrequent
    <3>2. QED
      BY <3>1
  <2>5. ASSUME NEW i \in S PROVE S \ {i} \in C
    <3>1. Cardinality(S \ {i}) = k - 1
      BY <1>2, <2>2, <2>4, OneLess DEF OfSize
    <3>2. S \ {i} # {}
      <4>1. k - 1 # 0
        BY <1>1
      <4>2. QED
        BY <3>1, <4>1, FS_EmptySet
    <3>3. S \ {i} \in F
      BY <1>1, <2>2, <3>2, FrequentSubset DEF AllFrequent
    <3>4. QED
      BY <1>1, <3>1, <3>3 DEF OfSize
  <2>6. ContainsAllSubSets(S)
    BY <2>5 DEF ContainsAllSubSets
  <2>7. QED
    BY <2>1, <2>3, <2>6 DEF Unions
<1>6. QED
  BY <1>4, <1>5
-----------------------------------------------------------------------------
(* Loading the file.                                                       *)

(* The invariant holds at the start.                                       *)
LEMMA Initially == Init => IInv
<1> SUFFICES ASSUME Init PROVE IInv
  OBVIOUS
<1>1. /\ pc = "load" /\ file \in Files /\ minCount \in 1 .. (Len(file) + 1)
      /\ numThreads \in Threads /\ mTxnId = 0 /\ mInvertedIndex = << >>
      /\ k = 1 /\ candidates = {} /\ tasks = << >> /\ joined = 0 /\ results = {}
      /\ result = {} /\ rules = {}
  BY DEF Init
<1>2. StateType
  <2>1. Len(file) \in Nat /\ NumItems \in Nat \ {0}
    BY <1>1, FileIs, FileAssumption
  <2>2. 0 \in 0 .. Len(file) /\ 1 \in 1 .. (NumItems + 1) /\ << >> \in Seq(TaskType)
    BY <2>1
  <2>3. QED
    BY <1>1, <2>2 DEF StateType
<1>3. Index
  <2>1. 1 .. 0 = {}
    OBVIOUS
  <2>2. DOMAIN << >> = {}
    OBVIOUS
  <2>3. QED
    BY <1>1, <2>1, <2>2 DEF Index
<1>4. Levels
  <2>1. \A S \in AllFrequent : Cardinality(S) \in Nat /\ Cardinality(S) > 0
    BY PatternsFinite DEF AllFrequent, FrequentIn
  <2>2. LevelReached = 0
    BY <1>1 DEF LevelReached
  <2>3. OfSize(AllFrequent, 0) = {} /\ {S \in AllFrequent : Cardinality(S) <= 0} = {}
    BY <2>1 DEF OfSize
  <2>4. QED
    BY <1>1, <2>2, <2>3 DEF Levels
<1>5. Tasks
  <2>1. DOMAIN tasks = {}
    BY <1>1
  <2>2. QED
    BY <1>1, <2>1 DEF Tasks
<1>6. Joined
  <2>1. 1 .. 0 = {} /\ Len(tasks) = 0
    BY <1>1
  <2>2. QED
    BY <1>1, <2>1 DEF Joined
<1>7. RulesInv
  BY <1>1 DEF RulesInv
<1>8. QED
  BY <1>2, <1>3, <1>4, <1>5, <1>6, <1>7 DEF IInv

(* A line more is in the lists.                                            *)
LEMMA LoadTransactionStep ==
  ASSUME IInv, LoadTransaction
  PROVE  IInv'
<1> DEFINE n == mTxnId
           items == file[n + 1]
<1>1. /\ StateType /\ Index /\ Levels /\ Tasks /\ Joined /\ RulesInv
      /\ pc = "load" /\ n < Len(file) /\ mTxnId' = n + 1
      /\ mInvertedIndex' = SetTid(mInvertedIndex, items, n + 1)
      /\ UNCHANGED <<pc, file, minCount, numThreads, k, candidates, tasks, joined,
                     results, result, rules>>
  BY DEF IInv, LoadTransaction, input, level
<1>2. /\ n \in Nat /\ Len(file) \in Nat /\ file \in Files
      /\ DOMAIN file = 1 .. Len(file)
  BY <1>1, StateIs
<1>3. items \subseteq Ids
  <2>1. n + 1 \in DOMAIN file
    BY <1>1, <1>2
  <2>2. items \in Patterns
    BY <1>2, <2>1, FileIs
  <2>3. QED
    BY <2>2 DEF Patterns
<1>4. 1 .. (n + 1) = (1 .. n) \cup {n + 1} /\ n + 1 \notin 1 .. n
  BY <1>2
<1> HIDE DEF items
<1>5. StateType'
  <2>1. mTxnId' \in 0 .. Len(file)
    BY <1>1, <1>2
  <2>2. QED
    BY <1>1, <2>1 DEF StateType
<1>6. DOMAIN mInvertedIndex' = (DOMAIN mInvertedIndex) \cup items
  BY <1>1 DEF SetTid
<1>7. \A i \in DOMAIN mInvertedIndex' :
         mInvertedIndex'[i] = (IF i \in DOMAIN mInvertedIndex THEN mInvertedIndex[i] ELSE {})
                                \cup (IF i \in items THEN {n + 1} ELSE {})
  BY <1>1 DEF SetTid
<1>8. Index'
  <2>1. DOMAIN mInvertedIndex = {i \in Ids : \E l \in 1 .. n : i \in file[l]}
    BY <1>1 DEF Index
  <2>2. DOMAIN mInvertedIndex' = {i \in Ids : \E l \in 1 .. (n + 1) : i \in file[l]}
    BY <1>3, <1>4, <1>6, <2>1 DEF items
  <2>3. ASSUME NEW i \in DOMAIN mInvertedIndex'
        PROVE  mInvertedIndex'[i] = {l \in 1 .. (n + 1) : i \in file[l]}
    <3>1. i \in DOMAIN mInvertedIndex => mInvertedIndex[i] = {l \in 1 .. n : i \in file[l]}
      BY <1>1 DEF Index
    <3>2. i \notin DOMAIN mInvertedIndex => {l \in 1 .. n : i \in file[l]} = {}
      BY <2>1, <2>2, <2>3
    <3>3. {l \in 1 .. (n + 1) : i \in file[l]}
            = {l \in 1 .. n : i \in file[l]} \cup (IF i \in items THEN {n + 1} ELSE {})
      BY <1>4 DEF items
    <3>4. QED
      BY <1>7, <3>1, <3>2, <3>3
  <2>4. QED
    BY <1>1, <2>2, <2>3 DEF Index
<1>9. Levels'
  BY <1>1 DEF Levels, LevelReached, AllFrequent
<1>10. Tasks' /\ Joined' /\ RulesInv'
  BY <1>1 DEF Tasks, Joined, RulesInv, AllFrequent
<1>11. QED
  BY <1>5, <1>8, <1>9, <1>10 DEF IInv
-----------------------------------------------------------------------------
(* From level to level.                                                    *)

(* NextLevel with the frequent itemsets of the next size.                  *)
LEMMA NextLevelStep ==
  ASSUME IInv, pc \in {"load", "collect"}, mTxnId = Len(file), k = LevelReached + 1,
         NextLevel(OfSize(AllFrequent, k)), UNCHANGED <<input, index, rules>>
  PROVE  IInv' /\ LevelReached' = k /\ candidates' = OfSize(AllFrequent, k)
<1> DEFINE F == AllFrequent
           found == OfSize(F, k)
<1>1. /\ StateType /\ Index /\ Levels /\ Tasks /\ Joined /\ RulesInv
      /\ candidates' = found /\ result' = result \cup found
      /\ tasks' = << >> /\ joined' = 0 /\ results' = {}
      /\ found # {} => pc' = "launch" /\ k' = k + 1
      /\ found = {} => pc' = "rules" /\ k' = k
      /\ UNCHANGED <<file, minCount, numThreads, mTxnId, mInvertedIndex, rules>>
  BY DEF IInv, NextLevel, input, index
<1>2. /\ k \in Nat \ {0} /\ NumItems \in Nat /\ numThreads \in Nat \ {0}
      /\ AllFrequent' = F
  BY <1>1, StateIs DEF AllFrequent
<1>3. \A S \in F : Cardinality(S) \in 1 .. NumItems
  BY PatternsFinite DEF AllFrequent, FrequentIn
<1> HIDE DEF F, found
<1>4. LevelReached' = k
  BY <1>1, <1>2 DEF LevelReached
<1>5. StateType'
  <2>1. k' \in 1 .. (NumItems + 1)
    <3>1. CASE found = {}
      BY <1>1, <3>1 DEF StateType
    <3>2. CASE found # {}
      <4>1. PICK S \in F : Cardinality(S) = k
        BY <3>2 DEF found, OfSize
      <4>2. k <= NumItems
        BY <1>2, <1>3, <4>1
      <4>3. QED
        BY <1>1, <1>2, <3>2, <4>2
    <3>3. QED
      BY <3>1, <3>2
  <2>2. pc' \in {"launch", "rules"} /\ << >> \in Seq(TaskType)
    BY <1>1
  <2>3. QED
    BY <1>1, <2>1, <2>2 DEF StateType
<1>6. Index'
  BY <1>1 DEF Index
<1>7. Levels'
  <2>1. result' = {S \in F : Cardinality(S) <= k}
    <3>1. result = {S \in F : Cardinality(S) <= LevelReached}
      BY <1>1 DEF Levels, F
    <3>2. \A S \in F : Cardinality(S) <= k
                         <=> Cardinality(S) <= LevelReached \/ Cardinality(S) = k
      <4> DEFINE l == LevelReached
      <4>1. l \in Int /\ k = l + 1
        BY <1>1, <1>2 DEF LevelReached, Levels
      <4> HIDE DEF l
      <4>2. \A S \in F : Cardinality(S) <= k <=> Cardinality(S) <= l \/ Cardinality(S) = k
        BY <1>3, <4>1
      <4>3. QED
        BY <4>2 DEF l
    <3>3. found = {S \in F : Cardinality(S) = k}
      BY DEF found, OfSize
    <3>4. QED
      BY <1>1, <3>1, <3>2, <3>3
  <2>2. candidates' = OfSize(AllFrequent, LevelReached)'
    BY <1>1, <1>2, <1>4 DEF found
  <2>3. pc' \in {"launch", "rules"} /\ (pc' = "launch" => k' > 1 /\ candidates' # {})
                                    /\ (pc' = "rules" => candidates' = {})
    BY <1>1, <1>2
  <2>4. QED
    BY <1>2, <1>4, <2>1, <2>2, <2>3 DEF Levels
<1>8. Tasks'
  <2>1. Len(tasks') = 0 /\ DOMAIN tasks' = {} /\ 0 < numThreads'
    BY <1>1, <1>2
  <2>2. pc' # "collect"
    BY <1>1
  <2>3. QED
    BY <1>1, <2>1, <2>2 DEF Tasks
<1>9. Joined'
  <2>1. Len(tasks') = 0 /\ 1 .. 0 = {}
    BY <1>1
  <2>2. QED
    BY <1>1, <2>1 DEF Joined
<1>10. RulesInv'
  BY <1>1, <1>2 DEF RulesInv, F
<1>11. QED
  BY <1>1, <1>4, <1>5, <1>6, <1>7, <1>8, <1>9, <1>10 DEF IInv, found, F

(* The first level.                                                        *)
LEMMA InitialCandidatesStep ==
  ASSUME IInv, GenerateInitialCandidates
  PROVE  /\ IInv' /\ LevelReached = 0 /\ k = 1
         /\ LevelReached' = 1 /\ candidates' = OfSize(AllFrequent, 1)
<1> DEFINE found == {{i} : i \in {j \in DOMAIN mInvertedIndex : Filter({j})}}
<1>1. /\ StateType /\ Index /\ Levels /\ pc = "load" /\ mTxnId = Len(file)
      /\ NextLevel(found) /\ UNCHANGED <<input, index, rules>>
      /\ k = 1 /\ LevelReached = 0
  BY DEF IInv, GenerateInitialCandidates, Levels, LevelReached
<1>2. found = OfSize(AllFrequent, 1)
  <2>1. ASSUME NEW i \in DOMAIN mInvertedIndex
        PROVE  Filter({i}) <=> {i} \in AllFrequent
    BY <1>1, FilterIs
  <2>2. ASSUME NEW i \in DOMAIN mInvertedIndex, {i} \in AllFrequent
        PROVE  {i} \in OfSize(AllFrequent, 1)
    BY <2>2, FS_Singleton DEF OfSize
  <2>3. ASSUME NEW S \in OfSize(AllFrequent, 1)
        PROVE  \E i \in DOMAIN mInvertedIndex : S = {i} /\ {i} \in AllFrequent
    <3>1. S \in AllFrequent /\ Cardinality(S) = 1 /\ S \in SUBSET Ids
      BY DEF OfSize, AllFrequent, FrequentIn, Patterns
    <3>2. PICK i : S = {i}
      BY <3>1, PatternsFinite, FS_Singleton
    <3>3. S \subseteq DOMAIN mInvertedIndex
      BY <1>1, <3>1, HaveLists
    <3>4. QED
      BY <3>1, <3>2, <3>3
  <2>4. ASSUME NEW S \in found PROVE S \in OfSize(AllFrequent, 1)
    <3>1. PICK i \in DOMAIN mInvertedIndex : Filter({i}) /\ S = {i}
      OBVIOUS
    <3>2. QED
      BY <2>1, <2>2, <3>1
  <2>5. ASSUME NEW S \in OfSize(AllFrequent, 1) PROVE S \in found
    <3>1. PICK i \in DOMAIN mInvertedIndex : S = {i} /\ {i} \in AllFrequent
      BY <2>3
    <3>2. Filter({i})
      BY <2>1, <3>1
    <3>3. QED
      BY <3>1, <3>2
  <2> HIDE DEF found
  <2>6. QED
    BY <2>4, <2>5
<1> HIDE DEF found
<1>3. k = LevelReached + 1
  BY <1>1
<1>4. NextLevel(OfSize(AllFrequent, k))
  BY <1>1, <1>2
<1>5. QED
  BY <1>1, <1>3, <1>4, NextLevelStep

(* The next level: together the tasks have found all of it.                *)
LEMMA LevelDoneStep ==
  ASSUME IInv, LevelDone
  PROVE  /\ IInv' /\ candidates # {} /\ k > 1 /\ LevelReached = k - 1
         /\ LevelReached' = k /\ candidates' = OfSize(AllFrequent, k)
<1> DEFINE F == AllFrequent
           C == candidates
           p == numThreads
           c == Cardinality(C)
<1>1. /\ StateType /\ Index /\ Levels /\ Tasks /\ Joined
      /\ pc = "collect" /\ joined = Len(tasks) /\ mTxnId = Len(file)
      /\ NextLevel(results) /\ UNCHANGED <<input, index, rules>>
  BY DEF IInv, LevelDone, Index
<1>2. /\ k \in Nat /\ k > 1 /\ C # {} /\ LevelReached = k - 1
      /\ C = OfSize(F, k - 1) /\ C \in SUBSET Patterns
      /\ file \in Files /\ minCount \in Nat \ {0} /\ p \in Nat \ {0}
      /\ Len(tasks) = p /\ DOMAIN tasks = 1 .. p
  BY <1>1, StateIs, CandidatesAre DEF Levels, LevelReached, Tasks
<1>3. ASSUME NEW t \in 1 .. p
      PROVE  tasks[t].found = FoundBefore(C, k, F, p, t, c)
  BY <1>1, <1>2, <1>3 DEF Tasks, Joined
<1>4. results = UNION {FoundBefore(C, k, F, p, t, c) : t \in 1 .. p}
  <2>1. results = UNION {tasks[t].found : t \in 1 .. p}
    BY <1>1, <1>2 DEF Joined
  <2>2. {tasks[t].found : t \in 1 .. p} = {FoundBefore(C, k, F, p, t, c) : t \in 1 .. p}
    BY <1>3
  <2>3. QED
    BY <2>1, <2>2
<1>5. results = UNION {Joins(C, k, F, x) : x \in C}
  BY <1>2, <1>4, SharesCover
<1>6. results = OfSize(F, k)
  BY <1>2, <1>5, LevelIsJoins DEF AllFrequent
<1>7. k = LevelReached + 1
  BY <1>2
<1>8. NextLevel(OfSize(AllFrequent, k))
  BY <1>1, <1>6
<1>9. QED
  BY <1>1, <1>2, <1>7, <1>8, NextLevelStep
-----------------------------------------------------------------------------
(* The tasks.                                                              *)

(* A new task has found nothing, before the first position of its share.   *)
LEMMA LaunchStep ==
  ASSUME IInv, Launch
  PROVE  IInv'
<1> DEFINE C == candidates
           p == numThreads
           n == Len(tasks)
           task == [pos |-> safeAdvance(0, n), found |-> {}]
<1>1. /\ StateType /\ Index /\ Levels /\ Tasks /\ Joined /\ RulesInv
      /\ pc = "launch" /\ tasks' = Append(tasks, task)
      /\ pc' = (IF Len(tasks') = p THEN "collect" ELSE "launch")
      /\ UNCHANGED <<file, minCount, numThreads, mTxnId, mInvertedIndex, k, candidates,
                     joined, results, result, rules>>
      /\ AllFrequent' = AllFrequent
  BY DEF IInv, Launch, input, index, AllFrequent
<1>2. /\ n \in Nat /\ DOMAIN tasks = 1 .. n /\ p \in Nat \ {0} /\ n < p
      /\ C \in SUBSET Patterns /\ tasks \in Seq(TaskType)
  BY <1>1, StateIs, CandidatesAre DEF Tasks, StateType
<1>3. /\ task.pos \in Share(C, p, n + 1) \cup {Cardinality(C)} /\ task.pos \in Nat
      /\ task.found = {}
      /\ FoundBefore(C, k, AllFrequent, p, n + 1, task.pos) = {}
  <2>1. n + 1 \in 1 .. p /\ (n + 1) - 1 = 0 + n
    BY <1>2
  <2>2. task.pos = Min({(n + 1) - 1, Cardinality(C)}) /\ task.found = {}
    BY <2>1 DEF safeAdvance
  <2> HIDE DEF task
  <2>3. QED
    BY <1>2, <2>1, <2>2, ShareStart
<1>4. task \in TaskType
  BY <1>3 DEF TaskType
<1> HIDE DEF task, n
<1>5. /\ tasks' \in Seq(TaskType) /\ Len(tasks') = n + 1 /\ DOMAIN tasks' = 1 .. (n + 1)
      /\ \A t \in 1 .. (n + 1) : tasks'[t] = IF t <= n THEN tasks[t] ELSE task
  BY <1>1, <1>2, <1>4 DEF n
<1>6. StateType'
  BY <1>1, <1>5 DEF StateType
<1>7. Index'
  BY <1>1 DEF Index
<1>8. Levels'
  <2>1. LevelReached' = LevelReached /\ pc' \in {"launch", "collect"}
    BY <1>1 DEF LevelReached
  <2>2. QED
    BY <1>1, <2>1 DEF Levels
<1>9. Tasks'
  <2>1. ASSUME NEW t \in DOMAIN tasks'
        PROVE  /\ tasks'[t].pos \in Share(C, p, t) \cup {Cardinality(C)}
               /\ tasks'[t].found = FoundBefore(C, k, AllFrequent, p, t, tasks'[t].pos)
    <3>1. CASE t <= n
      <4>1. t \in DOMAIN tasks /\ tasks'[t] = tasks[t]
        BY <1>2, <1>5, <3>1
      <4>2. QED
        BY <1>1, <4>1 DEF Tasks
    <3>2. CASE ~ (t <= n)
      <4>1. t = n + 1 /\ tasks'[t] = task
        BY <1>2, <1>5, <3>2
      <4>2. QED
        BY <1>3, <4>1
    <3>3. QED
      BY <3>1, <3>2
  <2>2. (pc' = "launch" => Len(tasks') < p) /\ (pc' = "collect" => Len(tasks') = p)
    BY <1>1, <1>2, <1>5
  <2>3. pc' \in {"launch", "collect"}
    BY <1>1
  <2>4. QED
    BY <1>1, <2>1, <2>2, <2>3 DEF Tasks
<1>10. Joined'
  <2>1. joined = 0 /\ results = {}
    BY <1>1 DEF Joined
  <2>2. 0 \in 0 .. Len(tasks') /\ 1 .. 0 = {}
    BY <1>2, <1>5
  <2>3. QED
    BY <1>1, <2>1, <2>2 DEF Joined
<1>11. RulesInv'
  BY <1>1 DEF RulesInv
<1>12. QED
  BY <1>6, <1>7, <1>8, <1>9, <1>10, <1>11 DEF IInv

(* A task takes a candidate of its share.                                  *)
LEMMA GenerateSubCandidatesStep ==
  ASSUME IInv, NEW t \in Threads, GenerateSubCandidates(t)
  PROVE  IInv'
<1> DEFINE C == candidates
           p == numThreads
           n == Len(tasks)
           F == AllFrequent
           old == tasks[t]
           new == [pos |-> safeAdvance(old.pos, p),
                   found |-> old.found \cup Unions(CandidateAt(old.pos))]
<1>1. /\ StateType /\ Index /\ Levels /\ Tasks /\ Joined /\ RulesInv
      /\ t \in DOMAIN tasks /\ old.pos # Cardinality(C)
      /\ UNCHANGED <<pc, file, minCount, numThreads, mTxnId, mInvertedIndex, k,
                     candidates, joined, results, result, rules>>
      /\ AllFrequent' = AllFrequent
  BY DEF IInv, GenerateSubCandidates, Ended, input, index, AllFrequent
<1>2. /\ n \in Nat /\ DOMAIN tasks = 1 .. n /\ p \in Nat \ {0} /\ n <= p
      /\ C \in SUBSET Patterns /\ tasks \in Seq(TaskType) /\ old \in TaskType
      /\ pc \in {"launch", "collect"}
  <2>1. /\ n \in Nat /\ DOMAIN tasks = 1 .. n /\ p \in Nat \ {0}
        /\ C \in SUBSET Patterns /\ tasks \in Seq(TaskType) /\ old \in TaskType
        /\ (tasks = << >> <=> n = 0)
    BY <1>1, StateIs, CandidatesAre DEF StateType
  <2>2. tasks # << >>
    BY <1>1, <2>1
  <2>3. pc \in {"launch", "collect"}
    BY <1>1, <2>2 DEF Tasks
  <2>4. n <= p
    <3>1. (pc = "launch" => n < p) /\ (pc = "collect" => n = p)
      BY <1>1 DEF Tasks
    <3> HIDE DEF n, p
    <3>2. QED
      BY <2>1, <2>3, <3>1
  <2>5. QED
    BY <2>1, <2>3, <2>4
<1>3. old.pos \in Share(C, p, t) /\ old.found = FoundBefore(C, k, F, p, t, old.pos)
  BY <1>1 DEF Tasks
<1>4. tasks' = [tasks EXCEPT ![t] = new]
  <2>1. tasks' = [tasks EXCEPT ![t].found = tasks[t].found
                                              \cup Unions(CandidateAt(tasks[t].pos)),
                               ![t].pos = safeAdvance(tasks[t].pos, numThreads)]
    BY DEF GenerateSubCandidates
  <2>2. \A u \in DOMAIN tasks : u # t => tasks'[u] = tasks[u]
    BY <2>1
  <2>3. tasks'[t] = new
    BY <1>1, <1>2, <2>1 DEF TaskType
  <2>4. DOMAIN tasks' = DOMAIN tasks /\ tasks' = [u \in DOMAIN tasks |-> tasks'[u]]
    BY <2>1
  <2> HIDE DEF new
  <2>5. QED
    BY <2>2, <2>3, <2>4
<1>5. Unions(CandidateAt(old.pos)) = Joins(C, k, F, At(C, old.pos))
  <2>1. At(C, old.pos) \in C
    BY <1>2, <1>3, AtIs DEF Share
  <2>2. QED
    BY <1>1, <1>2, <2>1, UnionsAre, CandidateAtIs
<1>6. /\ new.pos \in Share(C, p, t) \cup {Cardinality(C)} /\ new.pos \in Nat
      /\ new.found = FoundBefore(C, k, F, p, t, new.pos)
  <2>1. t \in 1 .. p
    BY <1>1, <1>2
  <2>2. new.pos = Min({old.pos + p, Cardinality(C)})
    BY DEF safeAdvance
  <2>3. new.found = FoundBefore(C, k, F, p, t, old.pos) \cup Joins(C, k, F, At(C, old.pos))
    BY <1>3, <1>5
  <2> HIDE DEF new, old, F, C, p
  <2>4. C \in SUBSET Patterns /\ p \in Nat \ {0} /\ old.pos \in Share(C, p, t)
    BY <1>2, <1>3
  <2>5. /\ new.pos \in Share(C, p, t) \cup {Cardinality(C)} /\ new.pos \in Nat
        /\ FoundBefore(C, k, F, p, t, new.pos)
             = FoundBefore(C, k, F, p, t, old.pos) \cup Joins(C, k, F, At(C, old.pos))
    <3> DEFINE a == old.pos
               pos == new.pos
    <3>1. /\ C \in SUBSET Patterns /\ p \in Nat \ {0} /\ t \in 1 .. p
          /\ a \in Share(C, p, t) /\ pos = Min({a + p, Cardinality(C)})
      BY <2>1, <2>2, <2>4
    <3> HIDE DEF a, pos
    <3>2. /\ pos \in Share(C, p, t) \cup {Cardinality(C)} /\ pos \in Nat
          /\ FoundBefore(C, k, F, p, t, pos)
               = FoundBefore(C, k, F, p, t, a) \cup Joins(C, k, F, At(C, a))
      <4> HIDE DEF n
      <4>1. pos \in Share(C, p, t) \cup {Cardinality(C)} /\ pos \in Nat
        BY <3>1, ShareTurn, Zenon
      <4>2. FoundBefore(C, k, F, p, t, pos)
              = FoundBefore(C, k, F, p, t, a) \cup Joins(C, k, F, At(C, a))
        <5>1. \A FF, nn : FoundBefore(C, nn, FF, p, t, pos)
                = FoundBefore(C, nn, FF, p, t, a) \cup Joins(C, nn, FF, At(C, a))
          BY <3>1, ShareTurn
        <5>2. QED
          BY <5>1, Zenon
      <4>3. QED
        BY <4>1, <4>2
    <3>3. QED
      BY <3>2 DEF a, pos
  <2>6. QED
    BY <2>3, <2>5
<1>7. new \in TaskType
  <2>1. Joins(C, k, F, At(C, old.pos)) \subseteq Patterns
    BY DEF Joins, AllFrequent, FrequentIn
  <2>2. new.found \in SUBSET Patterns
    BY <1>2, <1>5, <2>1 DEF TaskType
  <2>3. QED
    BY <1>6, <2>2 DEF TaskType
<1> HIDE DEF new, n
<1>8. /\ tasks' \in Seq(TaskType) /\ Len(tasks') = n /\ DOMAIN tasks' = 1 .. n
      /\ tasks'[t] = new /\ \A u \in 1 .. n : u # t => tasks'[u] = tasks[u]
  BY <1>1, <1>2, <1>4, <1>7 DEF n
<1>9. StateType'
  BY <1>1, <1>8 DEF StateType
<1>10. Index'
  BY <1>1 DEF Index
<1>11. Levels'
  BY <1>1 DEF Levels, LevelReached
<1>12. Tasks'
  <2>1. ASSUME NEW u \in DOMAIN tasks'
        PROVE  /\ tasks'[u].pos \in Share(C, p, u) \cup {Cardinality(C)}
               /\ tasks'[u].found = FoundBefore(C, k, F, p, u, tasks'[u].pos)
    <3>1. CASE u = t
      BY <1>6, <1>8, <3>1
    <3>2. CASE u # t
      <4>1. u \in DOMAIN tasks /\ tasks'[u] = tasks[u]
        BY <1>2, <1>8, <3>2
      <4>2. QED
        BY <1>1, <4>1 DEF Tasks
    <3>3. QED
      BY <3>1, <3>2
  <2>2. (pc' = "launch" => Len(tasks') < p) /\ (pc' = "collect" => Len(tasks') = p)
    BY <1>1, <1>8 DEF Tasks, n
  <2>3. pc' \in {"launch", "collect"}
    BY <1>1, <1>2
  <2>4. QED
    BY <1>1, <2>1, <2>2, <2>3 DEF Tasks
<1>13. Joined'
  <2>1. /\ joined \in 0 .. n /\ results = UNION {tasks[u].found : u \in 1 .. joined}
        /\ \A u \in 1 .. joined : tasks[u].pos = Cardinality(C)
        /\ pc = "launch" => joined = 0
    BY <1>1 DEF Joined, n
  <2>2. t \notin 1 .. joined
    BY <1>1, <2>1
  <2>3. \A u \in 1 .. joined : tasks'[u] = tasks[u]
    BY <1>2, <1>8, <2>1, <2>2
  <2>4. {tasks'[u].found : u \in 1 .. joined} = {tasks[u].found : u \in 1 .. joined}
    BY <2>3
  <2>5. \A u \in 1 .. joined : tasks'[u].pos = Cardinality(C)
    BY <2>1, <2>3
  <2>6. QED
    BY <1>1, <1>8, <2>1, <2>4, <2>5 DEF Joined
<1>14. RulesInv'
  BY <1>1 DEF RulesInv
<1>15. QED
  BY <1>9, <1>10, <1>11, <1>12, <1>13, <1>14 DEF IInv

(* Main waits for a task that has ended.                                   *)
LEMMA CollectStep ==
  ASSUME IInv, Collect
  PROVE  IInv'
<1> DEFINE j == joined
<1>1. /\ StateType /\ Index /\ Levels /\ Tasks /\ Joined /\ RulesInv
      /\ pc = "collect" /\ j < Len(tasks) /\ tasks[j + 1].pos = Cardinality(candidates)
      /\ joined' = j + 1 /\ results' = results \cup tasks[j + 1].found
      /\ UNCHANGED <<pc, file, minCount, numThreads, mTxnId, mInvertedIndex, k,
                     candidates, tasks, result, rules>>
      /\ AllFrequent' = AllFrequent
  BY DEF IInv, Collect, Ended, input, index, AllFrequent
<1>2. /\ Len(tasks) \in Nat /\ j \in 0 .. Len(tasks)
      /\ results = UNION {tasks[t].found : t \in 1 .. j}
      /\ \A t \in 1 .. j : tasks[t].pos = Cardinality(candidates)
  BY <1>1, StateIs DEF Joined
<1>3. 1 .. (j + 1) = (1 .. j) \cup {j + 1} /\ j + 1 \in 0 .. Len(tasks)
  BY <1>1, <1>2
<1> HIDE DEF j
<1>4. Joined'
  <2>1. results' = UNION {tasks[t].found : t \in 1 .. (j + 1)}
    BY <1>1, <1>2, <1>3
  <2>2. \A t \in 1 .. (j + 1) : tasks[t].pos = Cardinality(candidates)
    BY <1>1, <1>2, <1>3
  <2>3. QED
    BY <1>1, <1>3, <2>1, <2>2 DEF Joined
<1>5. StateType' /\ Index' /\ Levels' /\ Tasks' /\ RulesInv'
  BY <1>1 DEF StateType, Index, Levels, LevelReached, Tasks, RulesInv
<1>6. QED
  BY <1>4, <1>5 DEF IInv

(* The rules split frequent itemsets.                                      *)
LEMMA GenerateRulesStep ==
  ASSUME IInv, GenerateRules
  PROVE  IInv'
<1>1. /\ StateType /\ Index /\ Levels /\ Tasks /\ Joined /\ RulesInv
      /\ pc = "rules" /\ pc' = "done"
      /\ rules' = {r \in UNION {Splits(S) : S \in result} : Interesting(r)}
      /\ UNCHANGED <<file, minCount, numThreads, mTxnId, mInvertedIndex, k,
                     candidates, tasks, joined, results, result>>
      /\ AllFrequent' = AllFrequent
  BY DEF IInv, GenerateRules, input, index, level, AllFrequent
<1>2. StateType' /\ Index' /\ Tasks' /\ Joined'
  BY <1>1 DEF StateType, Index, Tasks, Joined
<1>3. Levels'
  <2>1. LevelReached = k /\ LevelReached' = k
    BY <1>1 DEF LevelReached
  <2>2. QED
    BY <1>1, <2>1 DEF Levels
<1>4. RulesInv'
  <2>1. result \subseteq AllFrequent
    BY <1>1 DEF Levels
  <2>2. \A r \in rules' : \E S \in AllFrequent : r \in Splits(S)
    BY <1>1, <2>1
  <2>3. QED
    BY <1>1, <2>2 DEF RulesInv
<1>5. QED
  BY <1>2, <1>3, <1>4 DEF IInv

(* Every step keeps the invariant.                                         *)
LEMMA StepKeeps ==
  ASSUME IInv, [Next]_vars
  PROVE  IInv'
<1>1. CASE UNCHANGED vars
  BY <1>1 DEF vars, input, index, level, IInv, StateType, Index, Levels, LevelReached,
              Tasks, Joined, RulesInv, AllFrequent
<1>2. CASE LoadTransaction
  BY <1>2, LoadTransactionStep
<1>3. CASE GenerateInitialCandidates
  BY <1>3, InitialCandidatesStep
<1>4. CASE Launch
  BY <1>4, LaunchStep
<1>5. CASE Collect
  BY <1>5, CollectStep
<1>6. CASE LevelDone
  BY <1>6, LevelDoneStep
<1>7. CASE GenerateRules
  BY <1>7, GenerateRulesStep
<1>8. ASSUME NEW t \in Threads, GenerateSubCandidates(t) PROVE IInv'
  BY <1>8, GenerateSubCandidatesStep
<1>9. QED
  BY <1>1, <1>2, <1>3, <1>4, <1>5, <1>6, <1>7, <1>8 DEF Next, Main, Terminated

(* So it is an invariant.                                                  *)
LEMMA Invariance == Spec => []IInv
<1>1. IInv /\ [Next]_vars => IInv'
  BY StepKeeps
<1>2. QED
  BY Initially, <1>1, PTL DEF Spec
-----------------------------------------------------------------------------
(* What the invariant gives.                                               *)

(* What a task has found are frequent itemsets of the next size.           *)
LEMMA FoundSizes ==
  ASSUME IInv, NEW t \in DOMAIN tasks, NEW S \in tasks[t].found
  PROVE  S \in Patterns /\ Cardinality(S) = k
<1> DEFINE C == candidates
           F == AllFrequent
<1>1. StateType /\ Levels /\ Tasks
  BY DEF IInv
<1>2. /\ DOMAIN tasks = 1 .. Len(tasks) /\ Len(tasks) \in Nat
      /\ (tasks = << >> <=> Len(tasks) = 0)
      /\ k \in Nat /\ file \in Files /\ minCount \in Nat \ {0} /\ C \in SUBSET Patterns
  BY <1>1, StateIs, CandidatesAre
<1>3. tasks # << >>
  BY <1>2
<1>4. pc \in {"launch", "collect"}
  BY <1>1, <1>3 DEF Tasks
<1>5. k > 1 /\ C = OfSize(F, k - 1)
  BY <1>1, <1>4 DEF Levels, LevelReached
<1>6. S \in FoundBefore(C, k, F, numThreads, t, tasks[t].pos)
  BY <1>1 DEF Tasks
<1>7. PICK q \in Share(C, numThreads, t) : S \in Joins(C, k, F, At(C, q))
  BY <1>6 DEF FoundBefore
<1>8. At(C, q) \in C
  BY <1>2, AtIs DEF Share
<1>9. OfSize(F, k) = UNION {Joins(C, k, F, x) : x \in C}
  BY <1>2, <1>5, LevelIsJoins DEF AllFrequent
<1>10. S \in OfSize(F, k)
  BY <1>7, <1>8, <1>9
<1>11. QED
  BY <1>10 DEF OfSize, AllFrequent, FrequentIn

(* The types follow.                                                       *)
LEMMA ImpliesTypeOK == IInv => TypeOK
<1> SUFFICES ASSUME IInv PROVE TypeOK
  OBVIOUS
<1>1. StateType /\ Index /\ Levels /\ Tasks /\ Joined
  BY DEF IInv
<1>2. /\ DOMAIN tasks = 1 .. Len(tasks) /\ Len(tasks) \in Nat
      /\ numThreads \in Nat \ {0} /\ (tasks = << >> <=> Len(tasks) = 0)
      /\ \A t \in DOMAIN tasks : tasks[t] \in TaskType
  BY <1>1, StateIs
<1>3. candidates \in SUBSET Patterns /\ Cardinality(candidates) \in Nat
  BY <1>1, CandidatesAre, Places
<1>4. \A S \in candidates : S \in Patterns /\ Cardinality(S) = LevelReached
  BY <1>1, <1>3 DEF Levels, OfSize
<1>5. Len(tasks) <= numThreads
  <2>1. CASE pc = "launch"
    BY <1>1, <1>2, <2>1 DEF Tasks
  <2>2. CASE pc = "collect"
    BY <1>1, <1>2, <2>2 DEF Tasks
  <2>3. CASE pc \notin {"launch", "collect"}
    BY <1>1, <1>2, <2>3 DEF Tasks
  <2>4. QED
    BY <2>1, <2>2, <2>3
<1>6. ASSUME NEW t \in DOMAIN tasks
      PROVE  tasks[t].pos \in 0 .. Cardinality(candidates)
  <2>1. \/ tasks[t].pos \in 0 .. (Cardinality(candidates) - 1)
        \/ tasks[t].pos = Cardinality(candidates)
    BY <1>1 DEF Tasks, Share
  <2>2. QED
    BY <1>3, <2>1
<1>7. \A t \in DOMAIN tasks : \A S \in tasks[t].found : S \in Patterns /\ Cardinality(S) = k
  BY FoundSizes
<1>8. joined \in 0 .. Len(tasks) /\ results = UNION {tasks[t].found : t \in 1 .. joined}
  BY <1>1 DEF Joined
<1>9. \A S \in results : S \in Patterns /\ Cardinality(S) = k
  <2>1. 1 .. joined \subseteq DOMAIN tasks
    BY <1>2, <1>8
  <2>2. QED
    BY <1>7, <1>8, <2>1
<1>10. result \subseteq Patterns
  BY <1>1 DEF Levels, AllFrequent, FrequentIn
<1>11. /\ DOMAIN mInvertedIndex \subseteq Ids
       /\ \A i \in DOMAIN mInvertedIndex : mInvertedIndex[i] \subseteq 1 .. mTxnId
  BY <1>1 DEF Index
<1>12. QED
  BY <1>1, <1>4, <1>5, <1>6, <1>7, <1>8, <1>9, <1>10, <1>11 DEF TypeOK, StateType

(* No frequent itemsets of a size, then none that are larger.              *)
LEMMA ImpliesResultExact == IInv => ResultExact
<1> SUFFICES ASSUME IInv PROVE ResultExact
  OBVIOUS
<1>1. /\ Levels /\ file \in Files /\ minCount \in Nat \ {0} /\ k \in Nat \ {0}
  BY StateIs DEF IInv
<1>2. result = {S \in Frequent : Cardinality(S) <= LevelReached}
  BY <1>1, FrequentIs DEF Levels
<1>3. ASSUME pc \in {"rules", "done"} PROVE result = Frequent
  <2>1. LevelReached = k /\ OfSize(AllFrequent, k) = {}
    BY <1>1, <1>3 DEF Levels, LevelReached
  <2>2. ASSUME NEW S \in AllFrequent PROVE Cardinality(S) <= k
    <3>1. Cardinality(S) < k
      BY <1>1, <2>1, NoLarger DEF AllFrequent
    <3>2. Cardinality(S) \in Nat
      BY PatternsFinite DEF AllFrequent, FrequentIn, Patterns
    <3>3. QED
      BY <1>1, <3>1, <3>2
  <2>3. QED
    BY <1>2, <2>1, <2>2, FrequentIs
<1>4. QED
  BY <1>2, <1>3 DEF ResultExact

(* The sides of a rule are subsets of a frequent itemset, so they occur.   *)
LEMMA ImpliesRules == IInv => RulesFromResult
<1> SUFFICES ASSUME IInv, NEW r \in rules
             PROVE  /\ {r.antecedent, r.consequent, r.antecedent \cup r.consequent}
                         \subseteq result
                    /\ Occurrences(r.antecedent) > 0 /\ Occurrences(r.consequent) > 0
  BY DEF RulesFromResult
<1>1. RulesInv /\ file \in Files /\ minCount \in Nat \ {0} /\ ResultExact
  BY StateIs, ImpliesResultExact DEF IInv
<1>2. result = AllFrequent
  BY <1>1, FrequentIs DEF RulesInv, ResultExact
<1>3. PICK S \in AllFrequent : r \in Splits(S)
  BY <1>1 DEF RulesInv
<1>4. PICK A \in (SUBSET S) \ {{}, S} : r = [antecedent |-> A, consequent |-> S \ A]
  BY <1>3 DEF Splits
<1>5. /\ r.antecedent = A /\ r.consequent = S \ A /\ r.antecedent \cup r.consequent = S
      /\ A \in SUBSET S /\ A # {} /\ S \ A \in SUBSET S /\ S \ A # {}
  BY <1>4
<1>6. A \in AllFrequent /\ S \ A \in AllFrequent
  BY <1>1, <1>5, FrequentSubset DEF AllFrequent
<1>7. ASSUME NEW T \in AllFrequent PROVE Occurrences(T) > 0
  <2>1. OccursIn(file, T) >= minCount
    BY DEF AllFrequent, FrequentIn
  <2>2. OccursIn(file, T) \in Nat
    BY <1>1, OccursLess
  <2>3. OccursIn(file, T) > 0
    BY <1>1, <2>1, <2>2
  <2>4. QED
    BY <2>3 DEF Occurrences, OccursIn
<1>8. QED
  BY <1>2, <1>3, <1>5, <1>6, <1>7
-----------------------------------------------------------------------------
(* The theorems.                                                           *)

(***************************************************************************)
(* Apriori's state stays what its code expects: no iterator of a task is   *)
(* beyond the end of the candidates, and all that a level finds has one    *)
(* item more than its candidates (Apriori, GenerateSubCandidates).         *)
(***************************************************************************)
THEOREM TypeCorrect == Spec => []TypeOK
BY Invariance, ImpliesTypeOK, PTL

(***************************************************************************)
(* After every level the result has exactly the frequent itemsets up to    *)
(* its size, and in the end all of them, for every file, minimum support   *)
(* and number of threads (Apriori).                                        *)
(***************************************************************************)
THEOREM LevelsExact == Spec => []ResultExact
BY Invariance, ImpliesResultExact, PTL

(***************************************************************************)
(* The sides of a rule were found and occur, so its confidence and its     *)
(* lift are no divisions by zero (GenerateRules).                          *)
(***************************************************************************)
THEOREM RulesAreSound == Spec => []RulesFromResult
BY Invariance, ImpliesRules, PTL

(* A level of the abstract search has the frequent itemsets of its size.   *)
LEMMA LevelIs ==
  ASSUME NEW f \in Files, NEW m \in Nat \ {0}, NEW n \in Nat \ {0},
         f = file, m = minCount, NEW below,
         n > 1 => below = OfSize(FrequentIn(f, m), n - 1)
  PROVE  Abstract!Level(n, below) = OfSize(FrequentIn(f, m), n)
<1> DEFINE F == FrequentIn(f, m)
<1>1. F = Frequent /\ F \subseteq Patterns
  BY DEF Frequent, Occurrences, FrequentIn, OccursIn
<1>2. Abstract!Level(n, below)
        = {S \in Patterns : /\ Cardinality(S) = n /\ S \in F
                            /\ n > 1 => \A i \in S : S \ {i} \in below}
  BY <1>1 DEF Abstract!Level, Abstract!Patterns, Patterns, Abstract!Cardinality, Cardinality
<1>3. ASSUME NEW S \in OfSize(F, n), n > 1, NEW i \in S
      PROVE  S \ {i} \in below
  <2>1. S \in F /\ Cardinality(S) = n /\ S \in SUBSET Ids
    BY DEF OfSize, FrequentIn, Patterns
  <2>2. Cardinality(S \ {i}) = n - 1
    BY <2>1, OneLess
  <2>3. S \ {i} # {}
    <3>1. n - 1 # 0
      BY <1>3
    <3>2. QED
      BY <2>2, <3>1, FS_EmptySet
  <2>4. S \ {i} \in F
    BY <2>1, <2>3, FrequentSubset
  <2>5. QED
    BY <1>3, <2>2, <2>4 DEF OfSize
<1>4. QED
  BY <1>1, <1>2, <1>3 DEF OfSize

(***************************************************************************)
(* Apriori implements LevelwiseSearch: the start of a level (the initial   *)
(* candidates, or the results main has collected) is a step of the search, *)
(* and no step of a task or of main in between is visible to it.           *)
(***************************************************************************)
THEOREM Refinement == Spec => ImplementsLevelwiseSearch
<1>1. Init => Abstract!Init
  <2> SUFFICES ASSUME Init PROVE Abstract!Init
    OBVIOUS
  <2>1. Frequent \in SUBSET Abstract!Patterns
    BY DEF Frequent, Patterns, Abstract!Patterns
  <2>2. LevelReached = 0 /\ candidates = {}
    BY DEF Init, LevelReached
  <2>3. QED
    BY <2>1, <2>2 DEF Abstract!Init
<1>2. IInv /\ [Next]_vars => [Abstract!Next]_<<Frequent, LevelReached, candidates>>
  <2> SUFFICES ASSUME IInv, [Next]_vars
               PROVE  [Abstract!Next]_<<Frequent, LevelReached, candidates>>
    OBVIOUS
  <2>1. /\ file \in Files /\ minCount \in Nat \ {0} /\ k \in Nat \ {0} /\ Levels
    BY StateIs DEF IInv
  <2>2. file' = file /\ minCount' = minCount
    BY DEF vars, Next, Main, Terminated, LoadTransaction, GenerateInitialCandidates,
           Launch, GenerateSubCandidates, Collect, LevelDone, GenerateRules, input
  <2>3. Frequent' = Frequent
    BY <2>2 DEF Frequent, Occurrences
  <2>4. ASSUME GenerateInitialCandidates PROVE Abstract!Next
    <3>1. LevelReached = 0 /\ LevelReached' = 1 /\ candidates' = OfSize(AllFrequent, 1)
      BY <2>4, InitialCandidatesStep
    <3>2. Abstract!Level(1, candidates) = OfSize(AllFrequent, 1)
      BY <2>1, LevelIs DEF AllFrequent
    <3>3. QED
      BY <2>3, <3>1, <3>2 DEF Abstract!Next
  <2>5. ASSUME LevelDone PROVE Abstract!Next
    <3>1. /\ candidates # {} /\ k > 1 /\ LevelReached = k - 1
          /\ LevelReached' = k /\ candidates' = OfSize(AllFrequent, k)
      BY <2>5, LevelDoneStep
    <3>2. candidates = OfSize(AllFrequent, k - 1)
      BY <2>1, <3>1 DEF Levels
    <3>3. Abstract!Level(k, candidates) = OfSize(AllFrequent, k)
      BY <2>1, <3>2, LevelIs DEF AllFrequent
    <3>4. LevelReached + 1 = k
      BY <2>1, <3>1
    <3>5. QED
      BY <2>3, <3>1, <3>3, <3>4 DEF Abstract!Next
  <2>6. ASSUME [Next]_vars, ~ GenerateInitialCandidates, ~ LevelDone
        PROVE  UNCHANGED <<LevelReached, candidates>>
    <3>1. CASE LoadTransaction
      BY <3>1 DEF LoadTransaction, level, LevelReached
    <3>2. CASE Launch
      BY <3>2 DEF Launch, LevelReached
    <3>3. CASE Collect
      BY <3>3 DEF Collect, LevelReached
    <3>4. CASE GenerateRules
      BY <3>4 DEF GenerateRules, level, LevelReached
    <3>5. ASSUME NEW t \in Threads, GenerateSubCandidates(t)
          PROVE  UNCHANGED <<LevelReached, candidates>>
      BY <3>5 DEF GenerateSubCandidates, LevelReached
    <3>6. CASE UNCHANGED vars
      BY <3>6 DEF vars, level, LevelReached
    <3>7. QED
      BY <2>6, <3>1, <3>2, <3>3, <3>4, <3>5, <3>6 DEF Next, Main, Terminated
  <2>7. QED
    BY <2>3, <2>4, <2>5, <2>6
<1>3. QED
  BY <1>1, <1>2, Invariance, PTL DEF Spec, ImplementsLevelwiseSearch, Abstract!Spec
=============================================================================
