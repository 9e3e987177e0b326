------------------------ MODULE VariableWindowProofs ------------------------
(***************************************************************************)
(* Proofs about VariableWindow for every number of items, chunk size and   *)
(* length: the types, the numbers of the queued transactions, the bits,    *)
(* and from these the counts and the refinement of TransactionWindow.      *)
(***************************************************************************)
EXTENDS VariableWindow, FiniteSetTheorems, SequenceTheorems,
        NaturalsInduction, WellFoundedInduction, TLAPS

-----------------------------------------------------------------------------
(* Numbers.                                                                *)

(* Quotient and remainder of a natural number.                             *)
LEMMA DivMod ==
  ASSUME NEW a \in Nat, NEW n \in Nat \ {0}
  PROVE  /\ a = n * (a \div n) + (a % n)
         /\ a \div n \in Nat
         /\ a % n \in 0 .. (n - 1)
OBVIOUS

(* The representation as quotient and remainder is unique.                 *)
LEMMA DivModUnique ==
  ASSUME NEW n \in Nat \ {0}, NEW p \in Nat, NEW q \in Nat,
         NEW r \in 0 .. (n - 1), NEW s \in 0 .. (n - 1),
         n * p + r = n * q + s
  PROVE  p = q /\ r = s
<1>1. n * (q - p) = r - s
  OBVIOUS
<1>2. q - p <= -1 => n * (q - p) <= -n
  OBVIOUS
<1>3. q - p >= 1 => n * (q - p) >= n
  OBVIOUS
<1>4. p = q
  BY <1>1, <1>2, <1>3
<1>5. QED
  BY <1>1, <1>4

(* The quotient and the remainder under names of their own.                *)
LEMMA DivModExist ==
  ASSUME NEW a \in Nat, NEW n \in Nat \ {0}
  PROVE  \E q \in Nat, r \in 0 .. (n - 1) :
            a = n * q + r /\ a \div n = q /\ a % n = r
BY DivMod

(* Below the modulus nothing wraps, and what is at most one modulus below  *)
(* zero wraps once.                                                        *)
LEMMA ModSmall ==
  ASSUME NEW m \in Nat \ {0}, NEW d \in (-m) .. (2 * m - 1)
  PROVE  d % m = IF d < 0 THEN d + m ELSE IF d < m THEN d ELSE d - m
OBVIOUS

(* A set of natural numbers that is not empty has a least member.          *)
LEMMA LeastExists ==
  ASSUME NEW T \in SUBSET Nat, T # {}
  PROVE  \E n \in T : \A m \in T : n <= m
<1> DEFINE less == {ss \in Nat \X Nat : ss[1] < ss[2]}
<1>1. IsWellFoundedOn(less, Nat)
  BY NatLessThanWellFounded, Zenon DEF OpToRel
<1> HIDE DEF less
<1>2. PICK n \in T : \A m \in T : <<m, n>> \notin less
  BY <1>1, WFMin
<1>3. ASSUME NEW m \in T PROVE n <= m
  <2>1. ~ (m < n)
    BY <1>2 DEF less
  <2>2. QED
    BY <2>1
<1>4. QED
  BY <1>3

(* One that is bounded has a greatest member.                              *)
LEMMA GreatestExists ==
  ASSUME NEW n \in Nat, NEW T \in SUBSET (0 .. n), T # {}
  PROVE  \E k \in T : \A m \in T : m <= k
<1> DEFINE gaps == {n - k : k \in T}
<1>1. gaps \in SUBSET Nat /\ gaps # {}
  <2>1. \A k \in T : n - k \in Nat
    OBVIOUS
  <2>2. QED
    BY <2>1
<1> HIDE DEF gaps
<1>2. PICK g \in gaps : \A h \in gaps : g <= h
  BY <1>1, LeastExists
<1>3. PICK k \in T : g = n - k
  BY DEF gaps
<1>4. ASSUME NEW m \in T PROVE m <= k
  <2>1. g <= n - m
    BY <1>2 DEF gaps
  <2>2. QED
    BY <1>3, <2>1
<1>5. QED
  BY <1>4

-----------------------------------------------------------------------------
(* The position in the lists of the n-th transaction of the queue.         *)
Place(n) == first_chunk_start_offset + n - 1

(* The transaction numbers: those in the queue are consecutive, the next   *)
(* one follows, and all are at their distance from the first chunk.        *)
Numbers ==
  /\ \A n \in DOMAIN transactions : Offset(transactions[n].id) = Place(n)
  /\ Offset(nextTid) = Place(Len(transactions) + 1)

(* TypeOK but for the answer, whose type follows from the bits.            *)
StateType ==
  /\ nextTid \in Tids /\ first_chunk_start_tid \in Tids
  /\ first_chunk_start_offset \in Bits
  /\ transactions \in Seq([id : Tids, items : Itemsets])
  /\ Len(transactions) <= MaxLen
  /\ index \in Seq(Seq(SUBSET Bits)) /\ Len(index) <= NumItems
  /\ \A i \in DOMAIN index :
       ChunkSize * (Len(index[i]) - 1) < first_chunk_start_offset + Len(transactions)

AnswerType == answer \in [query : SUBSET Ids, count : 0 .. MaxLen]

IInv == StateType /\ AnswerType /\ Numbers /\ IndexIsWindow

-----------------------------------------------------------------------------
(* Numbers and positions.                                                  *)

(* The distance of a number from the start of the first chunk.             *)
LEMMA OffsetIs ==
  ASSUME NEW tid \in Tids, first_chunk_start_tid \in Tids
  PROVE  Offset(tid) = IF tid >= first_chunk_start_tid
                       THEN tid - first_chunk_start_tid
                       ELSE tid - first_chunk_start_tid + TidMod
<1>1. TidMod \in Nat \ {0}
  BY TidAssumption, ChunkAssumption
<1>2. tid - first_chunk_start_tid \in (-TidMod) .. (2 * TidMod - 1)
  BY <1>1 DEF Tids
<1> DEFINE d == tid - first_chunk_start_tid
<1>3. d % TidMod = IF d < 0 THEN d + TidMod ELSE IF d < TidMod THEN d ELSE d - TidMod
  <2> HIDE DEF d
  <2>1. d \in (-TidMod) .. (2 * TidMod - 1)
    BY <1>2 DEF d
  <2>2. QED
    BY <1>1, <2>1, ModSmall
<1>4. QED
  BY <1>1, <1>3 DEF Offset, Tids

(* A number after another, or a chunk after it.                            *)
LEMMA Advance ==
  ASSUME NEW tid \in Tids, NEW d \in 0 .. TidMod
  PROVE  /\ (tid + d) % TidMod \in Tids
         /\ (tid + d) % TidMod = IF tid + d < TidMod THEN tid + d ELSE tid + d - TidMod
<1>1. TidMod \in Nat \ {0}
  BY TidAssumption, ChunkAssumption
<1> DEFINE e == tid + d
<1>2. e \in (-TidMod) .. (2 * TidMod - 1)
  BY <1>1 DEF Tids
<1>3. e % TidMod = IF e < 0 THEN e + TidMod ELSE IF e < TidMod THEN e ELSE e - TidMod
  <2> HIDE DEF e
  <2>1. QED
    BY <1>1, <1>2, ModSmall
<1>4. QED
  BY <1>1, <1>3 DEF Tids

(* A position is in one chunk, at one bit.                                 *)
LEMMA ChunkAndBit ==
  ASSUME NEW q \in Nat
  PROVE  /\ q \div ChunkSize \in Nat
         /\ q % ChunkSize \in Bits
         /\ \A k \in Nat \ {0}, b \in Bits :
              ChunkSize * (k - 1) + b = q <=> k = q \div ChunkSize + 1 /\ b = q % ChunkSize
<1>1. PICK p \in Nat, r \in Bits :
         q = ChunkSize * p + r /\ q \div ChunkSize = p /\ q % ChunkSize = r
  BY DivModExist, ChunkAssumption DEF Bits
<1>2. ASSUME NEW k \in Nat \ {0}, NEW b \in Bits, ChunkSize * (k - 1) + b = q
      PROVE  k - 1 = p /\ b = r
  <2>1. k - 1 \in Nat /\ ChunkSize * (k - 1) + b = ChunkSize * p + r
    BY <1>1, <1>2
  <2>2. QED
    BY <2>1, DivModUnique, ChunkAssumption DEF Bits
<1>3. QED
  BY <1>1, <1>2

(* The ranges of the sizes and positions, and of what the sequences hold.  *)
LEMMA Ranges ==
  ASSUME StateType
  PROVE  /\ ChunkSize \in Nat \ {0} /\ MaxLen \in Nat /\ TidMod \in Nat \ {0}
         /\ MaxLen + ChunkSize <= TidMod
         /\ first_chunk_start_offset \in Nat /\ first_chunk_start_offset < ChunkSize
         /\ Len(transactions) \in Nat /\ Len(transactions) <= MaxLen
         /\ DOMAIN transactions = 1 .. Len(transactions)
         /\ \A n \in DOMAIN transactions :
              n \in Nat \ {0} /\ transactions[n].id \in Tids /\ transactions[n].items \in Itemsets
         /\ \A i \in DOMAIN index :
              /\ index[i] \in Seq(SUBSET Bits) /\ Len(index[i]) \in Nat
              /\ DOMAIN index[i] = 1 .. Len(index[i])
<1>1. ChunkSize \in Nat \ {0} /\ MaxLen \in Nat /\ TidMod \in Nat \ {0}
  BY ChunkAssumption, TidAssumption
<1>2. MaxLen + ChunkSize <= TidMod
  BY TidAssumption
<1>3. first_chunk_start_offset \in Nat /\ first_chunk_start_offset < ChunkSize
  BY <1>1 DEF StateType, Bits
<1>4. /\ Len(transactions) \in Nat /\ Len(transactions) <= MaxLen
      /\ DOMAIN transactions = 1 .. Len(transactions)
      /\ \A n \in DOMAIN transactions :
           n \in Nat \ {0} /\ transactions[n].id \in Tids /\ transactions[n].items \in Itemsets
  <2> DEFINE T == [id : Tids, items : Itemsets]
  <2>1. transactions \in Seq(T) /\ Len(transactions) <= MaxLen
    BY DEF StateType
  <2>2. \A txn \in T : txn.id \in Tids /\ txn.items \in Itemsets
    OBVIOUS
  <2> HIDE DEF T
  <2>3. /\ Len(transactions) \in Nat
        /\ DOMAIN transactions = 1 .. Len(transactions)
        /\ \A n \in DOMAIN transactions : n \in Nat \ {0} /\ transactions[n] \in T
    BY <2>1
  <2>4. QED
    BY <2>1, <2>2, <2>3
<1>5. \A i \in DOMAIN index :
         /\ index[i] \in Seq(SUBSET Bits) /\ Len(index[i]) \in Nat
         /\ DOMAIN index[i] = 1 .. Len(index[i])
  BY DEF StateType
<1>6. QED
  BY <1>1, <1>2, <1>3, <1>4, <1>5

(* EnsureCapacity makes a sequence long enough and changes nothing in it.  *)
LEMMA CapacityEnsured ==
  ASSUME NEW T, NEW vec \in Seq(T), NEW size \in Nat, NEW fill \in T
  PROVE  /\ EnsureCapacity(vec, size, fill) \in Seq(T)
         /\ Len(EnsureCapacity(vec, size, fill)) =
              IF Len(vec) < size + 1 THEN size + 1 ELSE Len(vec)
<1> DEFINE n == IF Len(vec) < size + 1 THEN size + 1 ELSE Len(vec)
<1>1. n \in Nat
  OBVIOUS
<1>2. EnsureCapacity(vec, size, fill) =
        [k \in 1 .. n |-> IF k <= Len(vec) THEN vec[k] ELSE fill]
  BY DEF EnsureCapacity
<1>3. \A k \in 1 .. n : (IF k <= Len(vec) THEN vec[k] ELSE fill) \in T
  OBVIOUS
<1> HIDE DEF n
<1>4. EnsureCapacity(vec, size, fill) \in Seq(T) /\ Len(EnsureCapacity(vec, size, fill)) = n
  BY <1>1, <1>2, <1>3
<1>5. QED
  BY <1>4 DEF n

(* Growing a list leaves its bits alone.                                   *)
LEMMA CapacityContents ==
  ASSUME NEW T, NEW vec \in Seq(T), NEW size \in Nat, NEW fill \in T
  PROVE  \A k \in 1 .. Len(EnsureCapacity(vec, size, fill)) :
            EnsureCapacity(vec, size, fill)[k] = IF k <= Len(vec) THEN vec[k] ELSE fill
<1> DEFINE n == Len(EnsureCapacity(vec, size, fill))
<1>1. n = IF Len(vec) < size + 1 THEN size + 1 ELSE Len(vec)
  BY CapacityEnsured
<1>2. EnsureCapacity(vec, size, fill) =
        [k \in 1 .. n |-> IF k <= Len(vec) THEN vec[k] ELSE fill]
  BY <1>1 DEF EnsureCapacity
<1> HIDE DEF n
<1>3. \A k \in 1 .. n :
        EnsureCapacity(vec, size, fill)[k] = IF k <= Len(vec) THEN vec[k] ELSE fill
  BY <1>2
<1>4. QED
  BY <1>3 DEF n

(* Interning leaves one item that was numbered last.                       *)
LEMMA LatestExists ==
  ASSUME NEW items \in Itemsets
  PROVE  Latest(items) \in items /\ \A j \in items : j <= Latest(items)
<1>1. items \in SUBSET (0 .. NumItems) /\ items # {}
  BY ItemsAssumption DEF Itemsets, Ids
<1>2. \E i \in items : \A j \in items : j <= i
  BY <1>1, GreatestExists, ItemsAssumption
<1>3. QED
  BY <1>2 DEF Latest
-----------------------------------------------------------------------------
(* Append.                                                                 *)

(* How far the tid list of an item reaches, known to the index or not.     *)
Reach(i) == IF i \in DOMAIN index THEN Len(index[i]) ELSE 0

(* The lists after Append: those of the transaction's items reach its      *)
(* chunk and have one bit more, all others are as they were.               *)
LEMMA ListsAfterAppend ==
  ASSUME StateType, Numbers, NEW items \in Itemsets, AppendTransaction(items)
  PROVE  LET q == Place(Len(transactions) + 1)
         IN /\ index' \in Seq(Seq(SUBSET Bits))
            /\ Len(index') <= NumItems
            /\ DOMAIN index \subseteq DOMAIN index' /\ items \subseteq DOMAIN index'
            /\ \A i \in DOMAIN index' :
                 Len(index'[i]) = IF i \in items /\ Reach(i) < q \div ChunkSize + 1
                                  THEN q \div ChunkSize + 1 ELSE Reach(i)
            /\ \A i \in DOMAIN index' : \A k \in DOMAIN index'[i] : \A b \in Bits :
                 b \in index'[i][k] <=>
                   \/ i \in DOMAIN index /\ k \in DOMAIN index[i] /\ b \in index[i][k]
                   \/ i \in items /\ ChunkSize * (k - 1) + b = q
<1> USE DEF StateType
<1> DEFINE q == Place(Len(transactions) + 1)
           chunk_idx == q \div ChunkSize
           bit_num == q % ChunkSize
           rows == EnsureCapacity(index, Latest(items) - 1, << >>)
           list(i) == EnsureCapacity(rows[i], chunk_idx, {})
           row(i) == IF i \in items
                     THEN [list(i) EXCEPT ![chunk_idx + 1] = @ \cup {bit_num}]
                     ELSE rows[i]
<1>1. q \in Nat
  BY ChunkAssumption DEF Place, Bits
<1>2. chunk_idx \in Nat /\ bit_num \in Bits
  BY <1>1, ChunkAndBit
<1>3. index' = [i \in DOMAIN rows |-> row(i)]
  BY DEF AppendTransaction, Numbers
<1>4. /\ Latest(items) \in 1 .. NumItems
      /\ \A i \in items : i \in 1 .. Latest(items)
  <2>1. Latest(items) \in items /\ \A j \in items : j <= Latest(items)
    BY LatestExists
  <2>2. \A j \in items : j \in 1 .. NumItems
    BY DEF Itemsets, Ids
  <2>3. QED
    BY <2>1, <2>2, ItemsAssumption
<1>5. /\ rows \in Seq(Seq(SUBSET Bits))
      /\ Len(rows) = IF Len(index) < Latest(items) THEN Latest(items) ELSE Len(index)
      /\ DOMAIN rows = 1 .. Len(rows)
      /\ \A i \in DOMAIN rows : rows[i] = IF i <= Len(index) THEN index[i] ELSE << >>
  <2> DEFINE size == Latest(items) - 1
             T == Seq(SUBSET Bits)
             none == << >>
             grown == EnsureCapacity(index, size, none)
  <2>1. size \in Nat /\ size + 1 = Latest(items) /\ none \in T /\ index \in Seq(T)
    BY <1>4
  <2> HIDE DEF size, T, none
  <2>2. /\ grown \in Seq(T)
        /\ Len(grown) = IF Len(index) < size + 1 THEN size + 1 ELSE Len(index)
    BY ONLY <2>1, CapacityEnsured
  <2>3. \A k \in 1 .. Len(grown) : grown[k] = IF k <= Len(index) THEN index[k] ELSE none
    BY ONLY <2>1, CapacityContents
  <2>4. rows = grown
    BY DEF rows, size, none
  <2> HIDE DEF rows, grown
  <2>5. DOMAIN rows = 1 .. Len(rows)
    BY <2>2, <2>4
  <2>6. QED
    BY <2>1, <2>2, <2>3, <2>4, <2>5 DEF T, none
<1> HIDE DEF q, chunk_idx, bit_num, rows
<1>6. \A i \in DOMAIN rows : rows[i] \in Seq(SUBSET Bits) /\ Len(rows[i]) = Reach(i)
  BY <1>5 DEF Reach
<1>7. ASSUME NEW i \in DOMAIN rows
      PROVE  /\ list(i) \in Seq(SUBSET Bits)
             /\ Len(list(i)) = IF Reach(i) < chunk_idx + 1 THEN chunk_idx + 1 ELSE Reach(i)
             /\ DOMAIN list(i) = 1 .. Len(list(i))
             /\ \A k \in DOMAIN list(i) :
                  list(i)[k] = IF k <= Reach(i) THEN rows[i][k] ELSE {}
  <2> DEFINE T == SUBSET Bits
             none == {}
             vec == rows[i]
             grown == EnsureCapacity(vec, chunk_idx, none)
  <2>1. vec \in Seq(T) /\ none \in T /\ Len(vec) = Reach(i)
    BY <1>6
  <2> HIDE DEF T, vec, none
  <2>2. /\ grown \in Seq(T)
        /\ Len(grown) = IF Len(vec) < chunk_idx + 1 THEN chunk_idx + 1 ELSE Len(vec)
    BY ONLY <2>1, <1>2, CapacityEnsured
  <2>3. \A k \in 1 .. Len(grown) : grown[k] = IF k <= Len(vec) THEN vec[k] ELSE none
    BY ONLY <2>1, <1>2, CapacityContents
  <2>4. list(i) = grown
    BY DEF vec, list, none
  <2> HIDE DEF list, grown
  <2>5. DOMAIN list(i) = 1 .. Len(list(i))
    BY <2>2, <2>4
  <2>6. QED
    BY <2>1, <2>2, <2>3, <2>4, <2>5 DEF T, vec, none
<1> HIDE DEF list
<1>8. ASSUME NEW i \in DOMAIN rows
      PROVE  /\ row(i) \in Seq(SUBSET Bits)
             /\ Len(row(i)) = IF i \in items /\ Reach(i) < chunk_idx + 1
                              THEN chunk_idx + 1 ELSE Reach(i)
             /\ \A k \in DOMAIN row(i) : \A b \in Bits :
                  b \in row(i)[k] <=>
                    \/ k <= Reach(i) /\ b \in rows[i][k]
                    \/ i \in items /\ k = chunk_idx + 1 /\ b = bit_num
  <2>1. CASE i \in items
    <3>1. row(i) = [k \in 1 .. Len(list(i)) |->
                      IF k = chunk_idx + 1 THEN list(i)[k] \cup {bit_num} ELSE list(i)[k]]
      BY <2>1, <1>7, <1>2
    <3>2. /\ Len(list(i)) \in Nat
          /\ \A k \in 1 .. Len(list(i)) :
               (IF k = chunk_idx + 1 THEN list(i)[k] \cup {bit_num} ELSE list(i)[k])
                 \in SUBSET Bits
      BY <1>7, <1>2
    <3> HIDE DEF row
    <3>3. row(i) \in Seq(SUBSET Bits) /\ Len(row(i)) = Len(list(i))
      BY <3>1, <3>2
    <3>4. QED
      BY <2>1, <3>1, <3>3, <1>7
  <2>2. CASE i \notin items
    BY <2>2, <1>6
  <2>3. QED
    BY <2>1, <2>2
<1> HIDE DEF row
<1>9. /\ index' \in Seq(Seq(SUBSET Bits)) /\ Len(index') = Len(rows)
      /\ DOMAIN index' = DOMAIN rows
      /\ \A i \in DOMAIN rows : index'[i] = row(i)
  <2> DEFINE n == Len(rows)
             T == Seq(SUBSET Bits)
  <2>1. n \in Nat /\ index' = [i \in 1 .. n |-> row(i)] /\ DOMAIN rows = 1 .. n
    BY <1>3, <1>5
  <2>2. \A i \in 1 .. n : row(i) \in T
    BY <1>8, <1>5
  <2> HIDE DEF n, T
  <2>3. index' \in Seq(T) /\ Len(index') = n
    BY <2>1, <2>2
  <2>4. QED
    BY <2>1, <2>3 DEF n, T
<1>10. Len(index') <= NumItems
  <2>1. Len(index') = IF Len(index) < Latest(items) THEN Latest(items) ELSE Len(index)
    BY <1>5, <1>9
  <2>2. Latest(items) <= NumItems /\ Len(index) <= NumItems
    BY <1>4
  <2>3. QED
    BY <2>1, <2>2
<1>11. DOMAIN index \subseteq DOMAIN index' /\ items \subseteq DOMAIN index'
  <2>1. DOMAIN index' = 1 .. (IF Len(index) < Latest(items) THEN Latest(items) ELSE Len(index))
    BY <1>5, <1>9
  <2>2. DOMAIN index = 1 .. Len(index) /\ Len(index) \in Nat /\ Latest(items) \in Nat
    BY <1>4
  <2>3. QED
    BY <2>1, <2>2, <1>4
<1>12. ASSUME NEW i \in DOMAIN index', NEW k \in DOMAIN index'[i], NEW b \in Bits
       PROVE  b \in index'[i][k] <=>
                \/ i \in DOMAIN index /\ k \in DOMAIN index[i] /\ b \in index[i][k]
                \/ i \in items /\ ChunkSize * (k - 1) + b = q
  <2>1. k \in Nat \ {0}
    BY <1>9
  <2>2. ChunkSize * (k - 1) + b = q <=> k = chunk_idx + 1 /\ b = bit_num
    BY <2>1, <1>1, ChunkAndBit DEF chunk_idx, bit_num
  <2>3. b \in index'[i][k] <=>
          \/ k <= Reach(i) /\ b \in rows[i][k]
          \/ i \in items /\ k = chunk_idx + 1 /\ b = bit_num
    BY <1>8, <1>9
  <2>4. k <= Reach(i) <=> i \in DOMAIN index /\ k \in DOMAIN index[i]
    BY <2>1 DEF Reach
  <2>5. i \in DOMAIN index => rows[i] = index[i]
    BY <1>5, <1>9
  <2>6. QED
    BY <2>2, <2>3, <2>4, <2>5
<1>13. QED
  BY <1>8, <1>9, <1>10, <1>11, <1>12 DEF q, chunk_idx

(* The queue after Append.                                                 *)
LEMMA QueueAfterAppend ==
  ASSUME StateType, NEW items \in Itemsets, AppendTransaction(items)
  PROVE  /\ transactions' \in Seq([id : Tids, items : Itemsets])
         /\ Len(transactions') = Len(transactions) + 1 /\ Len(transactions') <= MaxLen
         /\ DOMAIN transactions' = DOMAIN transactions \cup {Len(transactions) + 1}
         /\ \A n \in DOMAIN transactions : transactions'[n] = transactions[n]
         /\ transactions'[Len(transactions) + 1].id = nextTid
         /\ transactions'[Len(transactions) + 1].items = items
         /\ first_chunk_start_offset' = first_chunk_start_offset
         /\ first_chunk_start_tid' = first_chunk_start_tid
<1> DEFINE T == [id : Tids, items : Itemsets]
           txn == [id |-> nextTid, items |-> items]
<1>1. txn \in T /\ transactions \in Seq(T)
  BY DEF StateType
<1>2. transactions' = Append(transactions, txn) /\ Len(transactions) < MaxLen
  BY DEF AppendTransaction
<1> HIDE DEF T, txn
<1>3. /\ transactions' \in Seq(T) /\ Len(transactions') = Len(transactions) + 1
      /\ \A n \in DOMAIN transactions : transactions'[n] = transactions[n]
      /\ transactions'[Len(transactions) + 1] = txn
  BY <1>1, <1>2
<1>4. DOMAIN transactions' = DOMAIN transactions \cup {Len(transactions) + 1}
  BY <1>1, <1>3
<1>5. Len(transactions') <= MaxLen
  BY <1>2, <1>3, Ranges
<1>6. txn.id = nextTid /\ txn.items = items
  BY DEF txn
<1>7. QED
  BY <1>3, <1>4, <1>5, <1>6 DEF T, AppendTransaction

(* Append: the new number is next to the last.                             *)
LEMMA AppendKeepsNumbers ==
  ASSUME StateType, Numbers, NEW items \in Itemsets, AppendTransaction(items)
  PROVE  Numbers' /\ nextTid' \in Tids
<1> DEFINE len == Len(transactions)
           off == first_chunk_start_offset
           start == first_chunk_start_tid
<1>1. /\ len \in Nat /\ len + 1 <= MaxLen /\ off \in Nat /\ off < ChunkSize
      /\ MaxLen + ChunkSize <= TidMod /\ TidMod \in Nat \ {0} /\ MaxLen \in Nat
      /\ ChunkSize \in Nat
  BY Ranges, QueueAfterAppend
<1>2. start \in Tids /\ nextTid \in Tids
  BY DEF StateType
<1>3. nextTid' = (nextTid + 1) % TidMod
  BY DEF AppendTransaction
<1>4. 1 \in 0 .. TidMod
  BY <1>1
<1>5. /\ nextTid' \in Tids
      /\ nextTid' = IF nextTid + 1 < TidMod THEN nextTid + 1 ELSE nextTid + 1 - TidMod
  BY <1>2, <1>3, <1>4, Advance
<1>6. Offset(nextTid) = off + len
  BY <1>1 DEF Numbers, Place
<1>7. Offset(nextTid') = off + len + 1
  <2>1. off + len = IF nextTid >= start THEN nextTid - start ELSE nextTid - start + TidMod
    BY <1>2, <1>6, OffsetIs
  <2>2. Offset(nextTid') =
          IF nextTid' >= start THEN nextTid' - start ELSE nextTid' - start + TidMod
    BY <1>2, <1>5, OffsetIs
  <2> HIDE DEF len, off, start
  <2>3. QED
    BY <1>1, <1>2, <1>5, <2>1, <2>2 DEF Tids
<1>8. Offset(nextTid)' = Place(Len(transactions) + 1)'
  <2>1. Offset(nextTid)' = Offset(nextTid')
    BY QueueAfterAppend DEF Offset
  <2>2. Place(Len(transactions) + 1)' = first_chunk_start_offset' + (Len(transactions') + 1) - 1
    BY DEF Place
  <2>3. first_chunk_start_offset' = off /\ Len(transactions') = len + 1
    BY QueueAfterAppend
  <2>4. QED
    BY <2>1, <2>2, <2>3, <1>1, <1>7
<1>9. ASSUME NEW n \in DOMAIN transactions'
      PROVE  Offset(transactions'[n].id) = Place(n)
  <2>1. CASE n \in DOMAIN transactions
    BY <2>1, QueueAfterAppend DEF Numbers
  <2>2. CASE n = len + 1
    <3>1. transactions'[n].id = nextTid
      BY <2>2, QueueAfterAppend
    <3>2. QED
      BY <2>2, <3>1 DEF Numbers
  <2>3. n \in DOMAIN transactions \/ n = len + 1
    BY QueueAfterAppend
  <2>4. QED
    BY <2>1, <2>2, <2>3
<1>10. \A n \in DOMAIN transactions' : Offset(transactions[n].id)' = Place(n)'
  BY <1>9, QueueAfterAppend DEF Offset, Place
<1>11. QED
  BY <1>5, <1>8, <1>10 DEF Numbers

(* Append keeps the invariant.                                             *)
LEMMA AppendKeepsInvariant ==
  ASSUME StateType, Numbers, IndexIsWindow,
         NEW items \in Itemsets, AppendTransaction(items)
  PROVE  StateType' /\ Numbers' /\ IndexIsWindow'
<1> DEFINE len == Len(transactions)
           off == first_chunk_start_offset
           q == Place(len + 1)
<1>1. /\ off \in Nat /\ off < ChunkSize /\ len \in Nat /\ ChunkSize \in Nat \ {0}
      /\ DOMAIN transactions = 1 .. len
  BY Ranges
<1>2. q \in Nat /\ q = off + len
  BY <1>1 DEF Place
<1>3. PICK p \in Nat, r \in 0 .. (ChunkSize - 1) : q = ChunkSize * p + r /\ q \div ChunkSize = p
  BY <1>1, <1>2, DivModExist
<1>4. /\ Len(transactions') = len + 1 /\ off' = off
      /\ DOMAIN transactions' = DOMAIN transactions \cup {len + 1}
      /\ \A n \in DOMAIN transactions : transactions'[n] = transactions[n]
      /\ transactions'[len + 1].items = items
  BY QueueAfterAppend
<1>5. /\ index' \in Seq(Seq(SUBSET Bits)) /\ Len(index') <= NumItems
      /\ DOMAIN index \subseteq DOMAIN index' /\ items \subseteq DOMAIN index'
  BY ListsAfterAppend
<1>6. \A i \in DOMAIN index' :
         Len(index'[i]) = IF i \in items /\ Reach(i) < p + 1 THEN p + 1 ELSE Reach(i)
  BY <1>3, ListsAfterAppend
<1>7. \A i \in DOMAIN index' : \A k \in DOMAIN index'[i] : \A b \in Bits :
         b \in index'[i][k] <=>
           \/ i \in DOMAIN index /\ k \in DOMAIN index[i] /\ b \in index[i][k]
           \/ i \in items /\ ChunkSize * (k - 1) + b = q
  BY ListsAfterAppend
<1>8. \A i \in DOMAIN index' : Reach(i) \in Nat /\ Len(index'[i]) \in Nat
  <2>1. \A i \in DOMAIN index' : Reach(i) \in Nat
    BY Ranges DEF Reach
  <2>2. QED
    BY <2>1, <1>3, <1>6
<1> HIDE DEF q, len, off
<1>9. ASSUME NEW i \in DOMAIN index'
      PROVE  ChunkSize * (Len(index'[i]) - 1) < off + len + 1
  <2>1. Len(index'[i]) = p + 1 \/ Len(index'[i]) = Reach(i)
    BY <1>6
  <2>2. CASE Len(index'[i]) = p + 1
    <3>1. ChunkSize * (Len(index'[i]) - 1) = ChunkSize * p
      BY <2>2, <1>3
    <3> DEFINE cp == ChunkSize * p
    <3>2. cp \in Int /\ q = cp + r
      BY <1>1, <1>3
    <3> HIDE DEF cp
    <3>3. cp < off + len + 1
      BY <3>2, <1>1, <1>2, <1>3
    <3>4. QED
      BY <3>1, <3>3 DEF cp
  <2>3. CASE Len(index'[i]) = Reach(i) /\ i \in DOMAIN index
    <3> DEFINE cl == ChunkSize * (Len(index'[i]) - 1)
    <3>1. cl < off + len
      BY <2>3 DEF Reach, StateType, off, len
    <3>2. cl \in Int
      BY <1>1, <1>8
    <3> HIDE DEF cl
    <3>3. cl < off + len + 1
      BY <3>1, <3>2, <1>1
    <3>4. QED
      BY <3>3 DEF cl
  <2>4. CASE Len(index'[i]) = Reach(i) /\ i \notin DOMAIN index
    <3>1. ChunkSize * (Len(index'[i]) - 1) = -ChunkSize
      BY <2>4, <1>1 DEF Reach
    <3>2. QED
      BY <3>1, <1>1
  <2>5. QED
    BY <2>1, <2>2, <2>3, <2>4
<1>10. StateType'
  <2>1. \A i \in DOMAIN index' :
           ChunkSize * (Len(index'[i]) - 1) < first_chunk_start_offset' + Len(transactions')
    <3>1. off' + Len(transactions') = off + len + 1
      BY <1>1, <1>4
    <3>2. QED
      BY <3>1, <1>9 DEF off
  <2>2. /\ transactions' \in Seq([id : Tids, items : Itemsets])
        /\ Len(transactions') <= MaxLen
        /\ first_chunk_start_offset' \in Bits /\ first_chunk_start_tid' \in Tids
    BY QueueAfterAppend DEF StateType
  <2>3. QED
    BY <2>1, <2>2, <1>5, AppendKeepsNumbers DEF StateType
<1>11. \A n \in DOMAIN transactions' : transactions'[n].items \subseteq DOMAIN index'
  <2>1. \A n \in DOMAIN transactions : transactions[n].items \subseteq DOMAIN index
    BY DEF IndexIsWindow
  <2>2. QED
    BY <2>1, <1>4, <1>5
<1>12. ASSUME NEW i \in DOMAIN index', NEW k \in DOMAIN index'[i], NEW b \in Bits
       PROVE  b \in index'[i][k] <=>
                \E n \in DOMAIN transactions' :
                  off + n - 1 = ChunkSize * (k - 1) + b /\ i \in transactions'[n].items
  <2> DEFINE x == ChunkSize * (k - 1) + b
             old == \E n \in DOMAIN transactions :
                       off + n - 1 = x /\ i \in transactions[n].items
  <2>1. k \in Nat \ {0} /\ b \in Nat
    <3>1. index'[i] \in Seq(SUBSET Bits)
      BY <1>5
    <3>2. QED
      BY <3>1, <1>1 DEF Bits
  <2>2. b \in index'[i][k] <=>
           \/ i \in DOMAIN index /\ k \in DOMAIN index[i] /\ b \in index[i][k]
           \/ i \in items /\ x = q
    BY <1>7
  <2>3. i \in DOMAIN index /\ k \in DOMAIN index[i] => (b \in index[i][k] <=> old)
    BY DEF IndexIsWindow, off
  <2>4. ~(i \in DOMAIN index /\ k \in DOMAIN index[i]) => ~old
    <3>1. SUFFICES ASSUME NEW n \in DOMAIN transactions, i \in transactions[n].items,
                          off + n - 1 = x
                   PROVE  i \in DOMAIN index /\ k \in DOMAIN index[i]
      OBVIOUS
    <3>2. i \in DOMAIN index /\ off + n <= ChunkSize * Len(index[i])
      BY <3>1 DEF IndexIsWindow, off
    <3>3. Len(index[i]) \in Nat /\ DOMAIN index[i] = 1 .. Len(index[i]) /\ n \in Nat
      BY <3>2, Ranges
    <3> DEFINE a == ChunkSize * (k - 1)
               c == ChunkSize * Len(index[i])
    <3>4. a \in Int /\ c \in Int
      BY <2>1, <3>3, <1>1
    <3>5. a < c
      <4> HIDE DEF a, c
      <4>1. off + n - 1 = a + b /\ off + n <= c
        BY <3>1, <3>2 DEF a, c
      <4>2. QED
        BY <4>1, <3>3, <3>4, <2>1, <1>1
    <3>6. k - 1 < Len(index[i])
      <4>1. Len(index[i]) <= k - 1 => c <= a
        BY <2>1, <3>3, <1>1
      <4>2. QED
        BY <4>1, <3>3, <3>4, <3>5, <2>1
    <3>7. QED
      BY <3>2, <3>3, <3>6, <2>1
  <2> HIDE DEF x
  <2>5. (\E n \in DOMAIN transactions' : off + n - 1 = x /\ i \in transactions'[n].items)
          <=> old \/ (i \in items /\ x = q)
    <3>1. off + (len + 1) - 1 = q
      BY <1>1, <1>2
    <3>2. QED
      BY <3>1, <1>4
  <2> HIDE DEF old
  <2>6. QED
    BY <2>2, <2>3, <2>4, <2>5 DEF x
<1>13. ASSUME NEW i \in DOMAIN index', NEW n \in DOMAIN transactions',
              i \in transactions'[n].items
       PROVE  off + n <= ChunkSize * Len(index'[i])
  <2> DEFINE c == ChunkSize * Len(index'[i])
  <2>1. CASE n \in DOMAIN transactions
    <3> DEFINE a == ChunkSize * Len(index[i])
    <3>1. i \in transactions[n].items
      BY <1>13, <2>1, <1>4
    <3>2. i \in DOMAIN index /\ off + n <= a
      BY <2>1, <3>1 DEF IndexIsWindow, off
    <3>3. Len(index[i]) \in Nat /\ n \in Nat
      BY <2>1, <3>2, Ranges
    <3>4. Len(index[i]) <= Len(index'[i])
      BY <3>2, <3>3, <1>3, <1>6, <1>8 DEF Reach
    <3>5. a <= c /\ a \in Int /\ c \in Int
      BY <3>3, <3>4, <1>1, <1>8
    <3> HIDE DEF a, c
    <3>6. off + n <= c
      BY <3>2, <3>3, <3>5, <1>1
    <3>7. QED
      BY <3>6 DEF c
  <2>2. CASE n = len + 1
    <3> DEFINE a == ChunkSize * p
    <3>1. i \in items
      BY <1>13, <2>2, <1>4
    <3>2. Len(index'[i]) >= p + 1
      BY <3>1, <1>3, <1>6, <1>8
    <3>3. a + ChunkSize <= c /\ a \in Int /\ c \in Int
      BY <3>2, <1>1, <1>3, <1>8
    <3>4. q = a + r
      BY <1>3
    <3> HIDE DEF a, c
    <3>5. off + n <= c
      BY <2>2, <3>3, <3>4, <1>1, <1>2, <1>3
    <3>6. QED
      BY <3>5 DEF c
  <2>3. QED
    BY <2>1, <2>2, <1>4
<1>14. IndexIsWindow'
  <2>1. first_chunk_start_offset' = off
    BY <1>4 DEF off
  <2>2. QED
    BY <2>1, <1>11, <1>12, <1>13 DEF IndexIsWindow
<1>15. QED
  BY <1>10, <1>14, AppendKeepsNumbers
-----------------------------------------------------------------------------
(* Pop.                                                                    *)

(* The queue after Pop.                                                    *)
LEMMA QueueAfterPop ==
  ASSUME StateType, transactions # << >>, transactions' = Tail(transactions)
  PROVE  /\ transactions' \in Seq([id : Tids, items : Itemsets])
         /\ Len(transactions) >= 1 /\ Len(transactions') = Len(transactions) - 1
         /\ DOMAIN transactions' = 1 .. (Len(transactions) - 1)
         /\ \A n \in DOMAIN transactions' :
              n + 1 \in DOMAIN transactions /\ transactions'[n] = transactions[n + 1]
<1> DEFINE T == [id : Tids, items : Itemsets]
<1>1. transactions \in Seq(T)
  BY DEF StateType
<1> HIDE DEF T
<1>2. /\ transactions' \in Seq(T) /\ Len(transactions) >= 1
      /\ Len(transactions') = Len(transactions) - 1
  BY <1>1
<1>3. DOMAIN transactions' = 1 .. (Len(transactions) - 1)
  BY <1>2
<1>4. \A n \in DOMAIN transactions' :
         n + 1 \in DOMAIN transactions /\ transactions'[n] = transactions[n + 1]
  BY <1>1, <1>2
<1>5. QED
  BY <1>2, <1>3, <1>4 DEF T

(* The first bit in use is the front transaction's, and it is set in the   *)
(* lists of its items, which therefore have a first chunk.                 *)
LEMMA FrontFound ==
  ASSUME StateType, Numbers, IndexIsWindow, transactions # << >>
  PROVE  /\ 1 \in DOMAIN transactions
         /\ Offset(Front.id) = first_chunk_start_offset
         /\ Front.items \subseteq DOMAIN index
         /\ \A i \in Front.items :
              1 \in DOMAIN index[i] /\ first_chunk_start_offset \in index[i][1]
<1> DEFINE off == first_chunk_start_offset
<1>1. 1 \in DOMAIN transactions
  BY Ranges
<1>2. Offset(Front.id) = off
  BY <1>1, Ranges DEF Numbers, Front, Place
<1>3. Front.items \subseteq DOMAIN index
  BY <1>1 DEF IndexIsWindow, Front
<1>4. ASSUME NEW i \in Front.items
      PROVE  1 \in DOMAIN index[i] /\ off \in index[i][1]
  <2>1. i \in DOMAIN index /\ i \in transactions[1].items
    BY <1>3 DEF Front
  <2>2. off + 1 <= ChunkSize * Len(index[i])
    BY <2>1, <1>1 DEF IndexIsWindow
  <2>3. /\ off \in Nat /\ off < ChunkSize /\ ChunkSize \in Nat
        /\ Len(index[i]) \in Nat /\ DOMAIN index[i] = 1 .. Len(index[i])
    BY <2>1, Ranges
  <2>4. Len(index[i]) # 0
    <3>1. Len(index[i]) = 0 => ChunkSize * Len(index[i]) = 0
      BY <2>3
    <3>2. QED
      BY <3>1, <2>2, <2>3
  <2>5. 1 \in DOMAIN index[i] /\ off \in Bits
    BY <2>3, <2>4 DEF StateType
  <2>6. off + 1 - 1 = ChunkSize * (1 - 1) + off
    BY <2>3
  <2>7. QED
    BY <2>1, <2>5, <2>6, <1>1 DEF IndexIsWindow
<1>5. QED
  BY <1>1, <1>2, <1>3, <1>4

(* Pop within a chunk: the other numbers stay.                             *)
LEMMA PopBitKeepsNumbers ==
  ASSUME StateType, Numbers, PopBit
  PROVE  Numbers'
<1> DEFINE len == Len(transactions)
           off == first_chunk_start_offset
<1>1. /\ off \in Nat /\ len \in Nat /\ Len(transactions') = len - 1 /\ off' = off + 1
      /\ \A n \in DOMAIN transactions' :
           /\ n \in Nat /\ n + 1 \in DOMAIN transactions
           /\ transactions'[n] = transactions[n + 1]
  BY Ranges, QueueAfterPop DEF PopBit
<1>2. UNCHANGED <<nextTid, first_chunk_start_tid>>
  BY DEF PopBit
<1>3. \A tid : Offset(tid)' = Offset(tid')
  BY <1>2 DEF Offset
<1>4. Offset(nextTid)' = Place(Len(transactions) + 1)'
  <2>1. Offset(nextTid)' = off + (len + 1) - 1
    BY <1>2 DEF Offset, Numbers, Place
  <2>2. Place(Len(transactions) + 1)' = off' + (Len(transactions') + 1) - 1
    BY DEF Place
  <2>3. QED
    BY <2>1, <2>2, <1>1
<1>5. ASSUME NEW n \in DOMAIN transactions'
      PROVE  Offset(transactions[n].id)' = Place(n)'
  <2>1. Offset(transactions[n].id)' = off + (n + 1) - 1
    BY <1>1, <1>2 DEF Offset, Numbers, Place
  <2>2. Place(n)' = off' + n - 1
    BY DEF Place
  <2>3. QED
    BY <2>1, <2>2, <1>1
<1>6. QED
  BY <1>4, <1>5 DEF Numbers

(* The lists lose the front transaction's bit and nothing else.            *)
LEMMA ListsAfterPopBit ==
  ASSUME StateType, Numbers, IndexIsWindow, PopBit
  PROVE  /\ index' \in Seq(Seq(SUBSET Bits)) /\ Len(index') = Len(index)
         /\ DOMAIN index' = DOMAIN index
         /\ \A i \in DOMAIN index :
              /\ Len(index'[i]) = Len(index[i]) /\ DOMAIN index'[i] = DOMAIN index[i]
              /\ \A k \in DOMAIN index[i] : \A b \in Bits :
                   b \in index'[i][k] <=>
                     /\ b \in index[i][k]
                     /\ ~(i \in Front.items /\ k = 1 /\ b = first_chunk_start_offset)
<1> DEFINE off == first_chunk_start_offset
           row(i) == IF i \in Front.items
                     THEN [index[i] EXCEPT ![1] = @ \ {off}] ELSE index[i]
<1>1. Offset(Front.id) % ChunkSize = off
  <2>1. Offset(Front.id) = off
    BY FrontFound DEF PopBit
  <2>2. off \in Nat /\ off < ChunkSize /\ ChunkSize \in Nat \ {0}
    BY Ranges
  <2> HIDE DEF off
  <2>3. off % ChunkSize = off
    BY <2>2
  <2>4. QED
    BY <2>1, <2>3
<1>2. index' = [i \in DOMAIN index |-> row(i)]
  BY <1>1 DEF PopBit
<1>3. ASSUME NEW i \in DOMAIN index
      PROVE  /\ row(i) \in Seq(SUBSET Bits) /\ Len(row(i)) = Len(index[i])
             /\ DOMAIN row(i) = DOMAIN index[i]
             /\ \A k \in DOMAIN index[i] : \A b \in Bits :
                  b \in row(i)[k] <=>
                    b \in index[i][k] /\ ~(i \in Front.items /\ k = 1 /\ b = off)
  <2>1. /\ index[i] \in Seq(SUBSET Bits) /\ Len(index[i]) \in Nat
        /\ DOMAIN index[i] = 1 .. Len(index[i])
    BY Ranges
  <2>2. CASE i \in Front.items
    <3> DEFINE n == Len(index[i])
    <3>1. row(i) = [k \in 1 .. n |-> IF k = 1 THEN index[i][k] \ {off} ELSE index[i][k]]
      BY <2>1, <2>2
    <3>2. \A k \in 1 .. n :
             (IF k = 1 THEN index[i][k] \ {off} ELSE index[i][k]) \in SUBSET Bits
      BY <2>1
    <3> HIDE DEF row
    <3>3. row(i) \in Seq(SUBSET Bits) /\ Len(row(i)) = n /\ DOMAIN row(i) = 1 .. n
      BY <2>1, <3>1, <3>2
    <3>4. QED
      BY <2>1, <2>2, <3>1, <3>3
  <2>3. CASE i \notin Front.items
    BY <2>1, <2>3
  <2>4. QED
    BY <2>2, <2>3
<1> HIDE DEF row
<1>4. index' \in Seq(Seq(SUBSET Bits)) /\ Len(index') = Len(index)
  <2> DEFINE T == Seq(SUBSET Bits)
             n == Len(index)
  <2>1. n \in Nat /\ DOMAIN index = 1 .. n
    BY DEF StateType
  <2>2. index' = [i \in 1 .. n |-> row(i)] /\ \A i \in 1 .. n : row(i) \in T
    BY <2>1, <1>2, <1>3
  <2> HIDE DEF T, n
  <2>3. index' \in Seq(T) /\ Len(index') = n
    BY <2>1, <2>2
  <2>4. QED
    BY <2>3 DEF T, n
<1>5. DOMAIN index' = DOMAIN index /\ \A i \in DOMAIN index : index'[i] = row(i)
  BY <1>2
<1>6. QED
  BY <1>3, <1>4, <1>5

(* Pop within a chunk keeps the invariant.                                 *)
LEMMA PopBitKeepsInvariant ==
  ASSUME StateType, Numbers, IndexIsWindow, PopBit
  PROVE  StateType' /\ Numbers' /\ IndexIsWindow'
<1> DEFINE len == Len(transactions)
           off == first_chunk_start_offset
<1>1. /\ off \in Nat /\ off + 1 < ChunkSize /\ off' = off + 1 /\ ChunkSize \in Nat \ {0}
      /\ len \in Nat /\ len <= MaxLen /\ MaxLen \in Nat
      /\ DOMAIN transactions = 1 .. len
  BY Ranges DEF PopBit
<1>2. /\ transactions' \in Seq([id : Tids, items : Itemsets])
      /\ len >= 1 /\ Len(transactions') = len - 1 /\ DOMAIN transactions' = 1 .. (len - 1)
      /\ \A n \in DOMAIN transactions' :
           n + 1 \in DOMAIN transactions /\ transactions'[n] = transactions[n + 1]
  BY QueueAfterPop DEF PopBit
<1>3. /\ index' \in Seq(Seq(SUBSET Bits)) /\ Len(index') = Len(index)
      /\ DOMAIN index' = DOMAIN index
      /\ \A i \in DOMAIN index :
           Len(index'[i]) = Len(index[i]) /\ DOMAIN index'[i] = DOMAIN index[i]
  BY ListsAfterPopBit
<1> HIDE DEF len, off
<1>4. StateType'
  <2>1. off' + Len(transactions') = off + len
    BY <1>1, <1>2
  <2>2. \A i \in DOMAIN index' :
           ChunkSize * (Len(index'[i]) - 1) < first_chunk_start_offset' + Len(transactions')
    BY <2>1, <1>3 DEF StateType, off, len
  <2>3. Len(transactions') <= MaxLen /\ off' \in Bits
    BY <1>1, <1>2 DEF Bits
  <2>4. QED
    BY <2>2, <2>3, <1>2, <1>3 DEF StateType, PopBit, off
<1>5. \A n \in DOMAIN transactions' : transactions'[n].items \subseteq DOMAIN index'
  BY <1>2, <1>3 DEF IndexIsWindow
<1>6. ASSUME NEW i \in DOMAIN index', NEW k \in DOMAIN index'[i], NEW b \in Bits
      PROVE  b \in index'[i][k] <=>
               \E n \in DOMAIN transactions' :
                 off' + n - 1 = ChunkSize * (k - 1) + b /\ i \in transactions'[n].items
  <2> DEFINE a == ChunkSize * (k - 1)
             x == a + b
  <2>1. i \in DOMAIN index /\ k \in DOMAIN index[i] /\ k \in Nat \ {0} /\ b \in Nat
    BY <1>1, <1>3, Ranges DEF Bits
  <2>2. a \in Int /\ (k = 1 => a = 0) /\ (k # 1 => a >= ChunkSize)
    BY <2>1, <1>1
  <2>3. b \in index'[i][k] <=>
          b \in index[i][k] /\ ~(i \in transactions[1].items /\ k = 1 /\ b = off)
    BY <2>1, ListsAfterPopBit DEF off, Front
  <2>4. b \in index[i][k] <=>
          \E n \in DOMAIN transactions : off + n - 1 = x /\ i \in transactions[n].items
    BY <2>1 DEF IndexIsWindow, off
  <2> HIDE DEF a
  <2>5. k = 1 /\ b = off <=> x = off
    BY <2>1, <2>2, <1>1
  <2>6. x \in Int
    BY <2>1, <2>2
  <2> HIDE DEF x
  <2>7. ASSUME b \in index'[i][k]
        PROVE  \E n \in DOMAIN transactions' : off' + n - 1 = x /\ i \in transactions'[n].items
    <3>1. PICK n \in DOMAIN transactions : off + n - 1 = x /\ i \in transactions[n].items
      BY <2>3, <2>4, <2>7
    <3>2. n # 1
      BY <3>1, <2>3, <2>5, <2>7, <1>1
    <3>3. n - 1 \in DOMAIN transactions' /\ transactions'[n - 1] = transactions[n]
      BY <3>2, <1>1, <1>2
    <3>4. off' + (n - 1) - 1 = x
      BY <3>1, <1>1
    <3>5. QED
      BY <3>1, <3>3, <3>4
  <2>8. ASSUME NEW n \in DOMAIN transactions', off' + n - 1 = x, i \in transactions'[n].items
        PROVE  b \in index'[i][k]
    <3>1. n + 1 \in DOMAIN transactions /\ i \in transactions[n + 1].items
      BY <2>8, <1>2
    <3>2. off + (n + 1) - 1 = x /\ x # off
      BY <2>8, <1>1, <1>2
    <3>3. QED
      BY <3>1, <3>2, <2>3, <2>4, <2>5
  <2>9. QED
    BY <2>7, <2>8 DEF x, a
<1>7. ASSUME NEW i \in DOMAIN index', NEW n \in DOMAIN transactions',
             i \in transactions'[n].items
      PROVE  off' + n <= ChunkSize * Len(index'[i])
  <2>1. i \in DOMAIN index /\ n + 1 \in DOMAIN transactions /\ i \in transactions[n + 1].items
    BY <1>7, <1>2, <1>3
  <2>2. off + (n + 1) <= ChunkSize * Len(index[i])
    BY <2>1 DEF IndexIsWindow, off
  <2>3. off + (n + 1) = off' + n
    BY <1>1, <1>2
  <2>4. QED
    BY <2>1, <2>2, <2>3, <1>3
<1>8. IndexIsWindow'
  BY <1>5, <1>6, <1>7 DEF IndexIsWindow, off
<1>9. QED
  BY <1>4, <1>8, PopBitKeepsNumbers

(* Pop at the end of a chunk: the distances shrink by a chunk.             *)
LEMMA PopChunkKeepsNumbers ==
  ASSUME StateType, Numbers, PopChunk
  PROVE  Numbers' /\ first_chunk_start_tid' \in Tids
<1> DEFINE len == Len(transactions)
           off == first_chunk_start_offset
           start == first_chunk_start_tid
<1>1. /\ off = ChunkSize - 1 /\ ChunkSize \in Nat \ {0} /\ TidMod \in Nat \ {0}
      /\ ChunkSize <= TidMod /\ len \in Nat
  <2>1. /\ off \in Nat /\ off < ChunkSize /\ ChunkSize \in Nat \ {0} /\ MaxLen \in Nat
        /\ MaxLen + ChunkSize <= TidMod /\ TidMod \in Nat \ {0} /\ len \in Nat
    BY Ranges
  <2>2. ~(off + 1 < ChunkSize)
    BY DEF PopChunk
  <2> HIDE DEF off
  <2>3. QED
    BY <2>1, <2>2
<1>2. /\ len >= 1 /\ Len(transactions') = len - 1 /\ DOMAIN transactions' = 1 .. (len - 1)
      /\ \A n \in DOMAIN transactions' :
           n + 1 \in DOMAIN transactions /\ transactions'[n] = transactions[n + 1]
  BY QueueAfterPop DEF PopChunk
<1>3. off' = 0 /\ start' = (start + ChunkSize) % TidMod /\ nextTid' = nextTid
  BY DEF PopChunk
<1>4. start \in Tids /\ nextTid \in Tids
  BY DEF StateType
<1>5. /\ start' \in Tids
      /\ start' = IF start + ChunkSize < TidMod THEN start + ChunkSize
                                                ELSE start + ChunkSize - TidMod
  <2>1. ChunkSize \in 0 .. TidMod
    BY <1>1
  <2>2. QED
    BY <2>1, <1>3, <1>4, Advance
(* What was at least a chunk from the old start is a chunk less from the new. *)
<1>6. ASSUME NEW tid \in Tids, Offset(tid) >= ChunkSize
      PROVE  (tid - start') % TidMod = Offset(tid) - ChunkSize
  <2>1. Offset(tid) = IF tid >= start THEN tid - start ELSE tid - start + TidMod
    BY <1>4, OffsetIs
  <2> DEFINE d == tid - start'
  <2>2. d \in (-TidMod) .. (2 * TidMod - 1)
    BY <1>1, <1>5 DEF Tids
  <2>3. d % TidMod = IF d < 0 THEN d + TidMod ELSE IF d < TidMod THEN d ELSE d - TidMod
    <3> HIDE DEF d
    <3>1. QED
      BY <1>1, <2>2, ModSmall
  <2> DEFINE o == Offset(tid)
  <2>4. o >= ChunkSize
    BY <1>6
  <2> HIDE DEF start, o
  <2>5. o = IF tid >= start THEN tid - start ELSE tid - start + TidMod
    BY <2>1 DEF o
  <2>6. d % TidMod = o - ChunkSize
    BY <1>1, <1>4, <1>5, <2>3, <2>4, <2>5 DEF Tids
  <2>7. QED
    BY <2>6 DEF o
<1>7. Offset(nextTid)' = Place(Len(transactions) + 1)'
  <2>1. Offset(nextTid) = off + (len + 1) - 1
    BY DEF Numbers, Place
  <2>2. Offset(nextTid) >= ChunkSize
    BY <2>1, <1>1, <1>2
  <2>3. Offset(nextTid)' = Offset(nextTid) - ChunkSize
    BY <2>2, <1>3, <1>4, <1>6 DEF Offset
  <2>4. Place(Len(transactions) + 1)' = off' + (Len(transactions') + 1) - 1
    BY DEF Place
  <2>5. QED
    BY <2>1, <2>3, <2>4, <1>1, <1>2, <1>3
<1>8. ASSUME NEW n \in DOMAIN transactions'
      PROVE  Offset(transactions[n].id)' = Place(n)'
  <2> DEFINE tid == transactions[n + 1].id
  <2>1. n \in Nat \ {0} /\ n + 1 \in DOMAIN transactions /\ transactions'[n] = transactions[n + 1]
    BY <1>1, <1>2
  <2>2. tid \in Tids
    BY <2>1, Ranges
  <2>3. Offset(tid) = off + (n + 1) - 1
    BY <2>1 DEF Numbers, Place
  <2>4. Offset(tid) >= ChunkSize
    BY <2>1, <2>3, <1>1
  <2>5. Offset(transactions[n].id)' = (tid - start') % TidMod
    BY <2>1 DEF Offset
  <2>6. Place(n)' = off' + n - 1
    BY DEF Place
  <2> HIDE DEF tid
  <2>7. (tid - start') % TidMod = Offset(tid) - ChunkSize
    BY <2>2, <2>4, <1>6
  <2>8. QED
    BY <2>1, <2>3, <2>5, <2>6, <2>7, <1>1, <1>3
<1>9. QED
  BY <1>5, <1>7, <1>8 DEF Numbers

(* Every list that is not empty loses its first chunk.                     *)
LEMMA ListsAfterPopChunk ==
  ASSUME StateType, PopChunk
  PROVE  /\ index' \in Seq(Seq(SUBSET Bits)) /\ Len(index') = Len(index)
         /\ DOMAIN index' = DOMAIN index
         /\ \A i \in DOMAIN index :
              /\ Len(index'[i]) = IF Len(index[i]) > 0 THEN Len(index[i]) - 1 ELSE 0
              /\ DOMAIN index'[i] = 1 .. (Len(index[i]) - 1)
              /\ \A k \in DOMAIN index'[i] : index'[i][k] = index[i][k + 1]
<1> DEFINE row(i) == IF Len(index[i]) > 0 THEN Tail(index[i]) ELSE index[i]
           T == SUBSET Bits
<1>1. index' = [i \in DOMAIN index |-> row(i)]
  BY DEF PopChunk
<1>2. ASSUME NEW i \in DOMAIN index
      PROVE  /\ row(i) \in Seq(T)
             /\ Len(row(i)) = IF Len(index[i]) > 0 THEN Len(index[i]) - 1 ELSE 0
             /\ DOMAIN row(i) = 1 .. (Len(index[i]) - 1)
             /\ \A k \in DOMAIN row(i) : row(i)[k] = index[i][k + 1]
  <2>1. index[i] \in Seq(T)
    BY Ranges
  <2> HIDE DEF T
  <2>2. Len(index[i]) > 0 =>
          /\ row(i) \in Seq(T) /\ Len(row(i)) = Len(index[i]) - 1
          /\ DOMAIN row(i) = 1 .. (Len(index[i]) - 1)
          /\ \A k \in DOMAIN row(i) : row(i)[k] = index[i][k + 1]
    BY <2>1
  <2>3. ~(Len(index[i]) > 0) =>
          row(i) \in Seq(T) /\ Len(row(i)) = 0 /\ Len(index[i]) = 0 /\ DOMAIN row(i) = {}
    BY <2>1
  <2>4. QED
    BY <2>2, <2>3
<1> HIDE DEF row
<1>3. index' \in Seq(Seq(T)) /\ Len(index') = Len(index)
  <2> DEFINE n == Len(index)
             U == Seq(T)
  <2>1. n \in Nat /\ DOMAIN index = 1 .. n
    BY DEF StateType
  <2>2. index' = [i \in 1 .. n |-> row(i)] /\ \A i \in 1 .. n : row(i) \in U
    BY <2>1, <1>1, <1>2
  <2> HIDE DEF n, U
  <2>3. index' \in Seq(U) /\ Len(index') = n
    BY <2>1, <2>2
  <2>4. QED
    BY <2>3 DEF n, U
<1>4. DOMAIN index' = DOMAIN index /\ \A i \in DOMAIN index : index'[i] = row(i)
  BY <1>1
<1>5. QED
  BY <1>2, <1>3, <1>4

(* Pop at the end of a chunk keeps the invariant.                          *)
LEMMA PopChunkKeepsInvariant ==
  ASSUME StateType, Numbers, IndexIsWindow, PopChunk
  PROVE  StateType' /\ Numbers' /\ IndexIsWindow'
<1> DEFINE len == Len(transactions)
           off == first_chunk_start_offset
<1>1. /\ off = ChunkSize - 1 /\ off' = 0 /\ ChunkSize \in Nat \ {0}
      /\ len \in Nat /\ len <= MaxLen /\ MaxLen \in Nat
      /\ DOMAIN transactions = 1 .. len
  <2>1. /\ off \in Nat /\ off < ChunkSize /\ ChunkSize \in Nat \ {0} /\ MaxLen \in Nat
        /\ len \in Nat /\ len <= MaxLen /\ DOMAIN transactions = 1 .. len
    BY Ranges
  <2>2. ~(off + 1 < ChunkSize) /\ off' = 0
    BY DEF PopChunk
  <2> HIDE DEF off, len
  <2>3. QED
    BY <2>1, <2>2
<1>2. /\ transactions' \in Seq([id : Tids, items : Itemsets])
      /\ len >= 1 /\ Len(transactions') = len - 1 /\ DOMAIN transactions' = 1 .. (len - 1)
      /\ \A n \in DOMAIN transactions' :
           n + 1 \in DOMAIN transactions /\ transactions'[n] = transactions[n + 1]
  BY QueueAfterPop DEF PopChunk
<1>3. /\ index' \in Seq(Seq(SUBSET Bits)) /\ Len(index') = Len(index)
      /\ DOMAIN index' = DOMAIN index
      /\ \A i \in DOMAIN index :
           /\ Len(index'[i]) = IF Len(index[i]) > 0 THEN Len(index[i]) - 1 ELSE 0
           /\ DOMAIN index'[i] = 1 .. (Len(index[i]) - 1)
           /\ \A k \in DOMAIN index'[i] : index'[i][k] = index[i][k + 1]
  BY ListsAfterPopChunk
<1>4. \A i \in DOMAIN index :
         Len(index[i]) \in Nat /\ DOMAIN index[i] = 1 .. Len(index[i])
  BY Ranges
<1> HIDE DEF len, off
<1>5. ASSUME NEW i \in DOMAIN index'
      PROVE  ChunkSize * (Len(index'[i]) - 1) < off' + Len(transactions')
  <2> DEFINE m == Len(index[i])
  <2>1. m \in Nat /\ Len(index'[i]) = IF m > 0 THEN m - 1 ELSE 0
    BY <1>3, <1>4
  <2>2. ChunkSize * (m - 1) < off + len
    BY <1>3 DEF StateType, off, len
  <2> HIDE DEF m
  <2>3. CASE m > 0
    <3> DEFINE a == ChunkSize * (m - 1)
               c == ChunkSize * (m - 1 - 1)
    <3>1. a \in Int /\ c \in Int /\ c = a - ChunkSize
      BY <2>1, <1>1
    <3>2. a < off + len /\ ChunkSize * (Len(index'[i]) - 1) = c
      BY <2>1, <2>2, <2>3
    <3> HIDE DEF a, c
    <3>3. QED
      BY <3>1, <3>2, <1>1, <1>2
  <2>4. CASE m = 0
    <3>1. ChunkSize * (Len(index'[i]) - 1) = -ChunkSize
      BY <2>1, <2>4, <1>1
    <3>2. QED
      BY <3>1, <1>1, <1>2
  <2>5. QED
    BY <2>1, <2>3, <2>4
<1>6. StateType'
  <2>1. Len(transactions') <= MaxLen /\ off' \in Bits
    BY <1>1, <1>2 DEF Bits
  <2>2. QED
    BY <2>1, <1>2, <1>3, <1>5, PopChunkKeepsNumbers DEF StateType, PopChunk, off
<1>7. \A n \in DOMAIN transactions' : transactions'[n].items \subseteq DOMAIN index'
  BY <1>2, <1>3 DEF IndexIsWindow
<1>8. ASSUME NEW i \in DOMAIN index', NEW k \in DOMAIN index'[i], NEW b \in Bits
      PROVE  b \in index'[i][k] <=>
               \E n \in DOMAIN transactions' :
                 off' + n - 1 = ChunkSize * (k - 1) + b /\ i \in transactions'[n].items
  <2> DEFINE a == ChunkSize * (k - 1)
  <2>1. /\ i \in DOMAIN index /\ k + 1 \in DOMAIN index[i] /\ k \in Nat \ {0} /\ b \in Nat
        /\ index'[i][k] = index[i][k + 1]
    BY <1>1, <1>3, <1>4 DEF Bits
  <2>2. a \in Nat /\ ChunkSize * ((k + 1) - 1) = a + ChunkSize
    BY <2>1, <1>1
  <2>3. b \in index'[i][k] <=>
          \E n \in DOMAIN transactions :
            off + n - 1 = ChunkSize * ((k + 1) - 1) + b /\ i \in transactions[n].items
    BY <2>1 DEF IndexIsWindow, off
  <2> HIDE DEF a
  <2>4. b \in index'[i][k] <=>
          \E n \in DOMAIN transactions :
            off + n - 1 = a + ChunkSize + b /\ i \in transactions[n].items
    BY <2>2, <2>3
  <2>5. ASSUME b \in index'[i][k]
        PROVE  \E n \in DOMAIN transactions' : off' + n - 1 = a + b /\ i \in transactions'[n].items
    <3>1. PICK n \in DOMAIN transactions :
             off + n - 1 = a + ChunkSize + b /\ i \in transactions[n].items
      BY <2>4, <2>5
    <3>2. n \in Nat \ {0} /\ ChunkSize \in Nat /\ off = ChunkSize - 1 /\ off' = 0
      BY <1>1
    <3>3. a \in Nat /\ b \in Nat /\ off + n - 1 = a + ChunkSize + b
      BY <3>1, <2>1, <2>2
    <3>4. n # 1 /\ off' + (n - 1) - 1 = a + b
      <4> HIDE DEF off
      <4>1. QED
        BY ONLY <3>2, <3>3
    <3>5. n - 1 \in DOMAIN transactions' /\ transactions'[n - 1] = transactions[n]
      BY <3>4, <1>1, <1>2
    <3>6. QED
      BY <3>1, <3>4, <3>5
  <2>6. ASSUME NEW n \in DOMAIN transactions', off' + n - 1 = a + b, i \in transactions'[n].items
        PROVE  b \in index'[i][k]
    <3>1. n + 1 \in DOMAIN transactions /\ i \in transactions[n + 1].items
      BY <2>6, <1>2
    <3>2. n \in Nat /\ ChunkSize \in Nat /\ off = ChunkSize - 1 /\ off' = 0
      BY <1>1, <1>2
    <3>3. a \in Nat /\ b \in Nat /\ off' + n - 1 = a + b
      BY <2>6, <2>1, <2>2
    <3>4. off + (n + 1) - 1 = a + ChunkSize + b
      <4> HIDE DEF off
      <4>1. QED
        BY ONLY <3>2, <3>3
    <3>5. QED
      BY <3>1, <3>4, <2>4
  <2>7. QED
    BY <2>5, <2>6 DEF a
<1>9. ASSUME NEW i \in DOMAIN index', NEW n \in DOMAIN transactions',
             i \in transactions'[n].items
      PROVE  off' + n <= ChunkSize * Len(index'[i])
  <2> DEFINE m == Len(index[i])
             c == ChunkSize * m
  <2>1. i \in DOMAIN index /\ n + 1 \in DOMAIN transactions /\ i \in transactions[n + 1].items
    BY <1>9, <1>2, <1>3
  <2>2. off + (n + 1) <= c
    BY <2>1 DEF IndexIsWindow, off
  <2>3. m \in Nat /\ Len(index'[i]) = IF m > 0 THEN m - 1 ELSE 0
    BY <2>1, <1>3, <1>4
  <2> HIDE DEF m
  <2>4. c \in Int /\ (m = 0 => c = 0) /\ ChunkSize * (m - 1) = c - ChunkSize
    BY <2>3, <1>1
  <2> HIDE DEF c
  <2>5. m > 0
    BY <2>2, <2>3, <2>4, <1>1, <1>2
  <2>6. ChunkSize * Len(index'[i]) = c - ChunkSize
    BY <2>3, <2>4, <2>5
  <2>7. QED
    BY <2>2, <2>4, <2>6, <1>1, <1>2
<1>10. IndexIsWindow'
  BY <1>7, <1>8, <1>9 DEF IndexIsWindow, off
<1>11. QED
  BY <1>6, <1>10, PopChunkKeepsNumbers
-----------------------------------------------------------------------------
(* Count.                                                                  *)

(* Among the items of an itemset there is one with the shortest list.      *)
LEMMA ShortestExists ==
  ASSUME StateType, NEW S \in Itemsets, S \subseteq DOMAIN index
  PROVE  /\ Shortest(S) \in S
         /\ \A j \in S : Len(index[Shortest(S)]) <= Len(index[j])
<1> DEFINE lens == {Len(index[i]) : i \in S}
<1>1. S # {} /\ \A i \in S : Len(index[i]) \in Nat
  BY Ranges DEF Itemsets
<1>2. lens \in SUBSET Nat /\ lens # {}
  BY <1>1
<1> HIDE DEF lens
<1>3. PICK n \in lens : \A m \in lens : n <= m
  BY <1>2, LeastExists
<1>4. PICK i \in S : Len(index[i]) = n
  BY DEF lens
<1>5. \A j \in S : Len(index[i]) <= Len(index[j])
  BY <1>3, <1>4 DEF lens
<1>6. QED
  BY <1>5 DEF Shortest

(* The chunk and the bit of a queued transaction, under names of their own. *)
LEMMA PlaceParts ==
  ASSUME StateType, NEW n \in DOMAIN transactions
  PROVE  /\ Place(n) \in Nat /\ Place(n) = first_chunk_start_offset + n - 1
         /\ \E p \in Nat, r \in Bits :
              /\ Place(n) = ChunkSize * p + r
              /\ Place(n) \div ChunkSize = p /\ Place(n) % ChunkSize = r
<1> DEFINE pl == Place(n)
<1>1. pl = first_chunk_start_offset + n - 1
  BY DEF Place
<1>2. pl \in Nat
  BY <1>1, Ranges
<1> HIDE DEF pl
<1>3. \E p \in Nat, r \in 0 .. (ChunkSize - 1) :
         pl = ChunkSize * p + r /\ pl \div ChunkSize = p /\ pl % ChunkSize = r
  BY <1>2, DivModExist, ChunkAssumption
<1>4. QED
  BY <1>1, <1>2, <1>3 DEF pl, Bits

(* What Count finds in the lists is the number of queued transactions that *)
(* contain the itemset: their places are in one-to-one correspondence with *)
(* the bits that are left of the shortest list after the ANDs.             *)
LEMMA CountIsExact ==
  ASSUME StateType, IndexIsWindow, NEW S \in Itemsets
  PROVE  /\ Count(S) = Abstract!CountIn(Contents, S)
         /\ Count(S) \in 0 .. MaxLen
<1> DEFINE off == first_chunk_start_offset
           D == {n \in DOMAIN transactions : S \subseteq transactions[n].items}
           T == {p \in (DOMAIN index[Shortest(S)]) \X Bits :
                   \A i \in S : p[1] \in DOMAIN index[i] => p[2] \in index[i][p[1]]}
           spot(n) == <<Place(n) \div ChunkSize + 1, Place(n) % ChunkSize>>
           f == [n \in D |-> spot(n)]
<1>1. Abstract!CountIn(Contents, S) = Cardinality(D)
  <2>1. DOMAIN Contents = DOMAIN transactions
    BY DEF Contents
  <2>2. \A n \in DOMAIN transactions : Contents[n] = transactions[n].items
    BY DEF Contents
  <2>3. {n \in DOMAIN Contents : S \subseteq Contents[n]} = D
    BY <2>1, <2>2
  <2>4. QED
    BY <2>3 DEF Abstract!CountIn, Abstract!Cardinality, Cardinality
<1>2. IsFiniteSet(D) /\ Cardinality(D) \in 0 .. MaxLen
  <2>1. /\ Len(transactions) \in Nat /\ Len(transactions) <= MaxLen /\ MaxLen \in Nat
        /\ DOMAIN transactions = 1 .. Len(transactions)
    BY Ranges
  <2>2. /\ IsFiniteSet(1 .. Len(transactions))
        /\ Cardinality(1 .. Len(transactions)) = Len(transactions)
    <3> DEFINE l == Len(transactions)
    <3>1. l \in Nat
      BY <2>1
    <3> HIDE DEF l
    <3>2. IsFiniteSet(1 .. l) /\ Cardinality(1 .. l) = IF 1 > l THEN 0 ELSE l - 1 + 1
      BY <3>1, FS_Interval
    <3>3. QED
      BY <3>1, <3>2 DEF l
  <2>3. D \in SUBSET (1 .. Len(transactions))
    BY <2>1
  <2>4. /\ IsFiniteSet(D) /\ Cardinality(D) <= Len(transactions)
        /\ Cardinality(D) \in Nat
    BY <2>2, <2>3, FS_Subset, FS_CardinalityType
  <2>5. QED
    BY <2>1, <2>4
<1>3. CASE \E i \in S : i > Len(index)
  <2>1. PICK i \in S : i > Len(index)
    BY <1>3
  <2>2. i \notin DOMAIN index
    BY <2>1 DEF StateType
  <2>3. D = {}
    BY <2>2 DEF IndexIsWindow
  <2>4. Count(S) = 0
    BY <1>3 DEF Count
  <2>5. Cardinality(D) = 0
    BY <2>3, FS_EmptySet
  <2>6. QED
    BY <1>1, <1>2, <2>4, <2>5
<1>4. CASE ~ \E i \in S : i > Len(index)
  <2>1. S \subseteq DOMAIN index /\ S # {}
    <3>1. \A i \in S : i \in Nat \ {0} /\ ~(i > Len(index))
      BY <1>4, ItemsAssumption DEF Itemsets, Ids
    <3>2. DOMAIN index = 1 .. Len(index) /\ Len(index) \in Nat
      BY DEF StateType
    <3>3. QED
      BY <3>1, <3>2 DEF Itemsets
  <2>2. /\ Shortest(S) \in S
        /\ \A i \in S : DOMAIN index[Shortest(S)] \subseteq DOMAIN index[i]
    BY <2>1, ShortestExists, Ranges
  <2>3. /\ ChunkSize \in Nat \ {0} /\ off \in Nat
        /\ \A n \in DOMAIN transactions : n \in Nat \ {0} /\ Place(n) = off + n - 1
    BY Ranges DEF Place
  <2>4. \A i \in S : \A k \in DOMAIN index[i] : \A b \in Bits :
           b \in index[i][k] <=>
             \E n \in DOMAIN transactions :
               Place(n) = ChunkSize * (k - 1) + b /\ i \in transactions[n].items
    BY <2>1 DEF IndexIsWindow, Place
  <2>5. ASSUME NEW n \in D, NEW i \in S
        PROVE  /\ Place(n) \div ChunkSize + 1 \in DOMAIN index[i]
               /\ Place(n) % ChunkSize \in Bits
               /\ Place(n) % ChunkSize \in index[i][Place(n) \div ChunkSize + 1]
    <3>1. PICK p \in Nat, r \in Bits :
             /\ Place(n) = ChunkSize * p + r
             /\ Place(n) \div ChunkSize = p /\ Place(n) % ChunkSize = r
      BY PlaceParts
    <3>2. r \in Nat
      BY <2>3 DEF Bits
    <3>3. off + n <= ChunkSize * Len(index[i])
      BY <2>1 DEF IndexIsWindow
    <3>4. Len(index[i]) \in Nat /\ DOMAIN index[i] = 1 .. Len(index[i])
      BY <2>1, Ranges
    <3> DEFINE l == Len(index[i])
               a == ChunkSize * p
               c == ChunkSize * l
    <3>5. a \in Int /\ c \in Int /\ (l <= p => c <= a)
      <4>1. l \in Nat
        BY <3>4
      <4> HIDE DEF l
      <4>2. l <= p => ChunkSize * l <= ChunkSize * p
        BY <4>1, <2>3
      <4>3. QED
        BY <4>1, <4>2, <2>3
    <3>6. a < c
      <4>1. Place(n) = a + r /\ Place(n) = off + n - 1 /\ off + n <= c /\ n \in Nat /\ off \in Nat
        BY <2>3, <3>1, <3>3
      <4> HIDE DEF a, c, off
      <4>2. a + r + 1 <= c
        BY <4>1, <3>2, <3>5
      <4>3. QED
        BY <4>2, <3>2, <3>5
    <3>7. p + 1 \in DOMAIN index[i]
      <4>1. ~(l <= p) /\ l \in Nat
        BY <3>4, <3>5, <3>6
      <4>2. QED
        BY <4>1, <3>4
    <3>8. Place(n) = ChunkSize * ((p + 1) - 1) + r
      BY <3>1
    <3>9. r \in index[i][p + 1]
      BY <2>4, <3>7, <3>8
    <3>10. QED
      BY <3>1, <3>7, <3>9
  <2>6. ASSUME NEW n \in D PROVE spot(n) \in T
    BY <2>2, <2>5
  <2>7. ASSUME NEW m \in D, NEW n \in D, spot(m) = spot(n) PROVE m = n
    <3>1. PICK p \in Nat, r \in Bits :
             /\ Place(m) = ChunkSize * p + r
             /\ Place(m) \div ChunkSize = p /\ Place(m) % ChunkSize = r
      BY PlaceParts
    <3>2. PICK q \in Nat, t \in Bits :
             /\ Place(n) = ChunkSize * q + t
             /\ Place(n) \div ChunkSize = q /\ Place(n) % ChunkSize = t
      BY PlaceParts
    <3>3. p + 1 = q + 1 /\ r = t
      BY <2>7, <3>1, <3>2
    <3>4. Place(m) = Place(n)
      BY <3>1, <3>2, <3>3
    <3>5. QED
      BY <2>3, <3>4
  <2>8. ASSUME NEW p \in T PROVE \E n \in D : spot(n) = p
    <3>1. PICK k \in DOMAIN index[Shortest(S)], b \in Bits : p = <<k, b>>
      OBVIOUS
    <3>2. \A i \in S : k \in DOMAIN index[i] /\ b \in index[i][k]
      BY <2>2, <3>1
    <3>3. k \in Nat \ {0}
      BY <2>1, <2>2, Ranges
    <3>4. \A i \in S : \E n \in DOMAIN transactions :
             Place(n) = ChunkSize * (k - 1) + b /\ i \in transactions[n].items
      BY <2>4, <3>2
    <3>5. PICK n \in DOMAIN transactions : Place(n) = ChunkSize * (k - 1) + b
      BY <2>1, <3>4
    <3>6. \A m \in DOMAIN transactions : Place(m) = Place(n) => m = n
      BY <2>3
    <3>7. n \in D
      BY <3>4, <3>5, <3>6
    <3>8. Place(n) \in Nat
      BY <2>3
    <3>9. k = Place(n) \div ChunkSize + 1 /\ b = Place(n) % ChunkSize
      BY <3>3, <3>5, <3>8, ChunkAndBit
    <3>10. QED
      BY <3>1, <3>7, <3>9
  <2> HIDE DEF D, T, spot
  <2>9. f \in Bijection(D, T)
    <3>1. f \in [D -> T] /\ \A n \in D : f[n] = spot(n)
      BY <2>6
    <3>2. f \in Injection(D, T)
      BY <3>1, <2>7 DEF Injection, IsInjective
    <3>3. f \in Surjection(D, T)
      BY <3>1, <2>8 DEF Surjection
    <3>4. QED
      BY <3>2, <3>3 DEF Bijection
  <2>10. ExistsBijection(D, T)
    BY <2>9 DEF ExistsBijection
  <2>11. Cardinality(T) = Cardinality(D)
    BY <1>2, <2>10, FS_Bijection
  <2>12. Count(S) = Cardinality(T)
    BY <1>4 DEF Count, T
  <2>13. QED
    BY <1>1, <1>2, <2>11, <2>12
<1>5. QED
  BY <1>3, <1>4
-----------------------------------------------------------------------------
(* The theorems.                                                           *)

(* The invariant holds at the start.                                       *)
LEMMA InitHolds == Init => IInv
<1> SUFFICES ASSUME Init PROVE IInv
  OBVIOUS
<1>1. StateType
  <2>1. 0 \in Tids /\ 0 \in Bits
    BY TidAssumption, ChunkAssumption DEF Tids, Bits
  <2>2. /\ << >> \in Seq([id : Tids, items : Itemsets]) /\ Len(<< >>) = 0
        /\ << >> \in Seq(Seq(SUBSET Bits)) /\ DOMAIN << >> = {}
    OBVIOUS
  <2>3. QED
    BY <2>1, <2>2, ChunkAssumption, ItemsAssumption DEF Init, StateType
<1>2. AnswerType
  BY ChunkAssumption DEF Init, AnswerType
<1>3. Numbers
  <2>1. 0 \in Tids
    BY TidAssumption, ChunkAssumption DEF Tids
  <2>2. Offset(nextTid) = 0
    BY <2>1, OffsetIs DEF Init
  <2>3. transactions = << >> /\ first_chunk_start_offset = 0
    BY DEF Init
  <2>4. DOMAIN transactions = {} /\ Len(transactions) = 0
    BY <2>3
  <2>5. QED
    BY <2>2, <2>3, <2>4 DEF Numbers, Place
<1>4. IndexIsWindow
  BY DEF Init, IndexIsWindow
<1>5. QED
  BY <1>1, <1>2, <1>3, <1>4 DEF IInv

(* Every step keeps the invariant.                                         *)
LEMMA NextKeepsInvariant == IInv /\ [Next]_vars => IInv'
<1> SUFFICES ASSUME IInv, [Next]_vars PROVE IInv'
  OBVIOUS
<1>1. StateType /\ AnswerType /\ Numbers /\ IndexIsWindow
  BY DEF IInv
<1>2. ASSUME NEW items \in Itemsets, AppendTransaction(items) PROVE IInv'
  BY <1>1, <1>2, AppendKeepsInvariant DEF IInv, AnswerType, AppendTransaction
<1>3. ASSUME PopBit PROVE IInv'
  BY <1>1, <1>3, PopBitKeepsInvariant DEF IInv, AnswerType, PopBit
<1>4. ASSUME PopChunk PROVE IInv'
  BY <1>1, <1>4, PopChunkKeepsInvariant DEF IInv, AnswerType, PopChunk
<1>5. ASSUME NEW S \in Itemsets, Ask(S) PROVE IInv'
  <2>1. Count(S) \in 0 .. MaxLen
    BY <1>1, CountIsExact
  <2>2. AnswerType'
    BY <1>5, <2>1 DEF Ask, AnswerType, Itemsets
  <2>3. UNCHANGED <<nextTid, transactions, index, first_chunk_start_tid,
                    first_chunk_start_offset>>
    BY <1>5 DEF Ask
  <2>4. StateType' /\ Numbers' /\ IndexIsWindow'
    BY <1>1, <2>3 DEF StateType, Numbers, IndexIsWindow, Offset, Place
  <2>5. QED
    BY <2>2, <2>4 DEF IInv
<1>6. CASE UNCHANGED vars
  BY <1>1, <1>6 DEF vars, IInv, StateType, AnswerType, Numbers, IndexIsWindow, Offset, Place
<1>7. QED
  BY <1>2, <1>3, <1>4, <1>5, <1>6 DEF Next

(***************************************************************************)
(* The inductive invariant: to the bits it adds that the queued numbers    *)
(* are consecutive and start at the first bit in use, without which Pop    *)
(* would clear the wrong one.                                              *)
(***************************************************************************)
THEOREM IInvHolds == Spec => []IInv
BY InitHolds, NextKeepsInvariant, PTL DEF Spec

(***************************************************************************)
(* All variables keep their types: no list is ever longer than the queue   *)
(* requires, and Pop never leaves a chunk behind.                          *)
(***************************************************************************)
THEOREM TypeCorrect == Spec => []TypeOK
<1>1. IInv => TypeOK
  BY DEF IInv, StateType, AnswerType, TypeOK
<1>2. QED
  BY <1>1, IInvHolds, PTL

(***************************************************************************)
(* The lists hold exactly the bits of the queued transactions, at their    *)
(* places, however many chunks were dropped.                               *)
(***************************************************************************)
THEOREM ListsAreTheWindow == Spec => []IndexIsWindow
<1>1. IInv => IndexIsWindow
  BY DEF IInv
<1>2. QED
  BY <1>1, IInvHolds, PTL

(***************************************************************************)
(* Pop's assertions hold, for any stream: the numbers may wrap as often as *)
(* they like, since only distances between them are used.                  *)
(***************************************************************************)
THEOREM FrontBitFound == Spec => []FrontHasFirstBit
<1>1. IInv => FrontHasFirstBit
  BY FrontFound DEF IInv, FrontHasFirstBit
<1>2. QED
  BY <1>1, IInvHolds, PTL

(***************************************************************************)
(* The chunked lists implement a window of variable length.                *)
(***************************************************************************)
THEOREM WindowRefinement == Spec => ImplementsTransactionWindow
<1>1. Init => Abstract!Init
  <2>1. Init => Contents = << >>
    BY DEF Init, Contents
  <2>2. QED
    BY <2>1 DEF Init, Abstract!Init, Abstract!NoAnswer
<1>2. IInv /\ [Next]_vars => [Abstract!Next]_<<Contents, answer>>
  <2> SUFFICES ASSUME IInv, [Next]_vars
               PROVE  [Abstract!Next]_<<Contents, answer>>
    OBVIOUS
  <2>1. StateType /\ Numbers /\ IndexIsWindow
    BY DEF IInv
  <2>2. ASSUME NEW items \in Itemsets, AppendTransaction(items) PROVE Abstract!Next
    <3>1. /\ Len(transactions) \in Nat /\ DOMAIN transactions = 1 .. Len(transactions)
          /\ DOMAIN transactions' = DOMAIN transactions \cup {Len(transactions) + 1}
          /\ \A n \in DOMAIN transactions : transactions'[n] = transactions[n]
          /\ transactions'[Len(transactions) + 1].items = items
      BY <2>1, <2>2, Ranges, QueueAfterAppend
    <3> DEFINE len == Len(transactions)
    <3>2. DOMAIN transactions' = 1 .. (len + 1)
      BY <3>1
    <3>3. Contents' = [n \in 1 .. (len + 1) |->
                         IF n <= len THEN transactions[n].items ELSE items]
      <4>1. \A n \in 1 .. (len + 1) :
               transactions'[n].items = IF n <= len THEN transactions[n].items ELSE items
        BY <3>1
      <4>2. QED
        BY <4>1, <3>2 DEF Contents
    <3>4. Contents = [n \in 1 .. len |-> transactions[n].items]
      BY <3>1 DEF Contents
    <3>5. \A n \in 1 .. len : transactions[n].items \in Itemsets
      BY <2>1, <3>1, Ranges
    <3> HIDE DEF len
    <3>6. Contents \in Seq(Itemsets) /\ Len(Contents) = len
      <4>1. len \in Nat
        BY <3>1 DEF len
      <4>2. QED
        BY <3>4, <3>5, <4>1
    <3>7. Contents' = Append(Contents, items)
      <4>1. len \in Nat
        BY <3>1 DEF len
      <4> DEFINE longer == Append(Contents, items)
      <4>2. longer \in Seq(Itemsets)
        BY <3>6, AppendProperties
      <4>3. Len(longer) = len + 1
        BY <3>6, AppendProperties
      <4>4. longer[len + 1] = items
        BY <3>6, AppendProperties
      <4>5. ASSUME NEW n \in 1 .. len PROVE longer[n] = transactions[n].items
        <5>1. longer[n] = Contents[n]
          BY <3>6, AppendProperties
        <5>2. QED
          BY <5>1, <3>4
      <4>6. Contents' \in Seq(Itemsets) /\ Len(Contents') = len + 1
        BY <3>3, <3>5, <4>1
      <4> HIDE DEF longer
      <4>7. ASSUME NEW n \in 1 .. (len + 1) PROVE Contents'[n] = longer[n]
        <5>1. Contents'[n] = IF n <= len THEN transactions[n].items ELSE items
          BY <3>3
        <5>2. CASE n <= len
          BY <5>1, <5>2, <4>1, <4>5
        <5>3. CASE n = len + 1
          BY <5>1, <5>3, <4>1, <4>4
        <5>4. QED
          BY <5>2, <5>3, <4>1
      <4>8. Contents' = longer
        BY <4>2, <4>3, <4>6, <4>7, SeqEqual
      <4>9. QED
        BY <4>8 DEF longer
    <3>8. answer' = answer
      BY <2>2 DEF AppendTransaction
    <3>9. items \in Abstract!Itemsets
      BY DEF Itemsets, Abstract!Itemsets
    <3>10. QED
      BY <3>7, <3>8, <3>9 DEF Abstract!Next, Abstract!Enter
  <2>3. ASSUME PopBit \/ PopChunk PROVE Abstract!Next
    <3>1. transactions # << >> /\ transactions' = Tail(transactions) /\ answer' = answer
      BY <2>3 DEF PopBit, PopChunk
    <3> DEFINE len == Len(transactions)
    <3>2. /\ len \in Nat /\ len >= 1 /\ DOMAIN transactions = 1 .. len
          /\ DOMAIN transactions' = 1 .. (len - 1)
          /\ \A n \in DOMAIN transactions' : transactions'[n] = transactions[n + 1]
      BY <2>1, <3>1, Ranges, QueueAfterPop
    <3>3. Contents = [n \in 1 .. len |-> transactions[n].items]
      BY <3>2 DEF Contents
    <3>4. Contents' = [n \in 1 .. (len - 1) |-> transactions[n + 1].items]
      BY <3>2 DEF Contents
    <3>5. \A n \in 1 .. len : transactions[n].items \in Itemsets
      BY <2>1, <3>2, Ranges
    <3> HIDE DEF len
    <3>6. Contents \in Seq(Itemsets) /\ Len(Contents) = len
      BY <3>2, <3>3, <3>5
    <3>7. Contents # << >> /\ Contents' = Tail(Contents)
      BY <3>2, <3>3, <3>4, <3>6
    <3>8. QED
      BY <3>1, <3>7 DEF Abstract!Next, Abstract!Leave
  <2>4. ASSUME NEW S \in Itemsets, Ask(S) PROVE Abstract!Next
    <3>1. Count(S) = Abstract!CountIn(Contents, S)
      BY <2>1, CountIsExact
    <3>2. Contents' = Contents
      BY <2>4 DEF Ask, Contents
    <3>3. answer' = [query |-> S, count |-> Abstract!CountIn(Contents, S)]
      BY <2>4, <3>1 DEF Ask
    <3>4. S \in Abstract!Itemsets
      BY DEF Itemsets, Abstract!Itemsets
    <3>5. QED
      BY <3>2, <3>3, <3>4 DEF Abstract!Next, Abstract!Ask
  <2>5. CASE UNCHANGED vars
    BY <2>5 DEF vars, Contents
  <2>6. QED
    BY <2>2, <2>3, <2>4, <2>5 DEF Next
<1>3. QED
  BY <1>1, <1>2, IInvHolds, PTL DEF Spec, Abstract!Spec, ImplementsTransactionWindow
=============================================================================
