------------------------ MODULE DriftDetectorProofs ------------------------
(***************************************************************************)
(* Proofs about DriftDetector for every interval, set of items, method and *)
(* length of the stream: check points that cut the window, tables that     *)
(* count it, the block that no purge takes, and the exponential histogram. *)
(***************************************************************************)
EXTENDS DriftDetector, FiniteSetTheorems, SequenceTheorems, TLAPS

-----------------------------------------------------------------------------
(* Numbers.                                                                *)

(* Quotient and remainder of a natural number.                             *)
LEMMA DivMod ==
  ASSUME NEW a \in Nat, NEW n \in Nat \ {0}
  PROVE  /\ a = n * (a \div n) + (a % n)
         /\ a \div n \in Nat
         /\ a % n \in 0 .. (n - 1)
OBVIOUS

(* The representation as quotient and remainder is unique.                 *)
LEMMA DivModUnique ==
  ASSUME NEW n \in Nat \ {0}, NEW p \in Nat, NEW q \in Nat,
         NEW r \in 0 .. (n - 1), NEW s \in 0 .. (n - 1),
         n * p + r = n * q + s
  PROVE  p = q /\ r = s
<1>1. n * (q - p) = r - s
  OBVIOUS
<1>2. q - p <= -1 => n * (q - p) <= -n
  OBVIOUS
<1>3. q - p >= 1 => n * (q - p) >= n
  OBVIOUS
<1>4. p = q
  BY <1>1, <1>2, <1>3
<1>5. QED
  BY <1>1, <1>4

(* Below the modulus nothing wraps, and what is at most one modulus below  *)
(* zero wraps once.                                                        *)
LEMMA ModSmall ==
  ASSUME NEW m \in Nat \ {0}, NEW d \in (-m) .. (2 * m - 1)
  PROVE  d % m = IF d < 0 THEN d + m ELSE IF d < m THEN d ELSE d - m
OBVIOUS

-----------------------------------------------------------------------------
TransactionType == [id : Nat, items : Transactions]
CheckPointType == [start_tid : Nat, end_tid : Nat, frequency_table : Tables]

StateType ==
  /\ setup \in Setups
  /\ pc \in Phases
  /\ tid \in 0 .. setup.length
  /\ data_set \in Seq(TransactionType)
  /\ freq \in Tables
  /\ check_points \in Seq(CheckPointType)
  /\ block_index \in Int
  /\ exp_cap \in Nat

(* The ids in the window are consecutive up to the last transaction.       *)
Window ==
  /\ Len(data_set) <= tid
  /\ \A k \in DOMAIN data_set : data_set[k].id = tid - Len(data_set) + k - 1

(* A check point is a number of whole intervals, its capacity.             *)
Whole(c) ==
  /\ Capacity(c) \in Nat \ {0}
  /\ c.end_tid + 1 - c.start_tid = Interval * Capacity(c)

(* Check points that follow each other without gap.                        *)
Chain(cps) ==
  /\ \A k \in DOMAIN cps : Whole(cps[k])
  /\ \A k \in 1 .. (Len(cps) - 1) : cps[k + 1].start_tid = cps[k].end_tid + 1
  /\ \A j, k \in DOMAIN cps : j < k => cps[j].end_tid < cps[k].start_tid

Blocks ==
  /\ Chain(check_points)
  /\ check_points = << >> => tid < Interval /\ Len(data_set) = tid
  /\ check_points # << >> =>
       /\ check_points[Len(check_points)].end_tid = tid - 1 - (tid % Interval)
       /\ pc # "purge" => check_points[1].start_tid = tid - Len(data_set)

(* Where block_index is in each phase.                                     *)
Control ==
  /\ pc \in {"add", "end"} => block_index = 0
  /\ pc = "arrange" => block_index \in -1 .. (Len(check_points) - 2)
  /\ pc = "find" =>
       /\ check_points # << >>
       /\ block_index \in IF method = "partition" THEN 1 .. Len(check_points)
                          ELSE 0 .. (Len(check_points) - 1)
  /\ pc = "purge" =>
       /\ block_index \in 1 .. (Len(check_points) - 1)
       /\ tid - Len(data_set) <= check_points[block_index].end_tid + 1
  /\ exp_cap \in 1 .. (2 * tid + 1)
  /\ pc # "arrange" => exp_cap = 1

(* The histogram while arrangeCheckPoints works on it: only at block_index *)
(* may there be a third check point of a capacity, the one looked for.     *)
Arranging(cps, third, cap) ==
  /\ \A k \in 1 .. (Len(cps) - 1) :
       Capacity(cps[k]) \in {Capacity(cps[k + 1]), 2 * Capacity(cps[k + 1])}
  /\ \A k \in 1 .. (Len(cps) - 2) :
       k = third \/ Capacity(cps[k]) # Capacity(cps[k + 2])
  /\ cps # << >> => Capacity(cps[Len(cps)]) = 1
  /\ \A k \in DOMAIN cps : k \in {third + 1, third + 2} => Capacity(cps[k]) = cap

(* Nowhere in the sequence.                                                *)
NoThird == -2

HistogramInv ==
  adaptive /\ method # "progressive" =>
    IF pc = "arrange" THEN Arranging(check_points, block_index, exp_cap)
                      ELSE Arranging(check_points, NoThird, 1)

(* The transactions of ds up to last that hold item i, by their places.    *)
Holding(ds, last, i) == {k \in DOMAIN ds : ds[k].id <= last /\ i \in ds[k].items}

(* table counts the transactions of ds up to last.                         *)
CountsUpTo(table, ds, last) ==
  \A i \in Items : table[i] = Cardinality(Holding(ds, last, i))

Counts ==
  /\ CountsUpTo(freq, data_set, tid)
  /\ \A k \in DOMAIN check_points :
       (pc = "purge" => k > block_index) =>
         CountsUpTo(check_points[k].frequency_table, data_set,
                    check_points[k].end_tid)

IInv == StateType /\ Window /\ Blocks /\ Control /\ Counts /\ HistogramInv
-----------------------------------------------------------------------------
(* Sequences.                                                              *)

(* What a sequence of length n is.                                         *)
LEMMA SeqIs ==
  ASSUME NEW T, NEW s \in Seq(T)
  PROVE  /\ Len(s) \in Nat /\ DOMAIN s = 1 .. Len(s)
         /\ \A k \in DOMAIN s : s[k] \in T
         /\ s = << >> <=> Len(s) = 0
OBVIOUS

(* A function on the first n positions is a sequence.                      *)
LEMMA SeqMade ==
  ASSUME NEW T, NEW n \in Nat, NEW s, s = [k \in 1 .. n |-> s[k]],
         \A k \in 1 .. n : s[k] \in T
  PROVE  s \in Seq(T) /\ Len(s) = n
<1>1. s \in [1 .. n -> T]
  OBVIOUS
<1>2. QED
  BY <1>1

(* A sequence with one more element.                                       *)
LEMMA Appended ==
  ASSUME NEW T, NEW s \in Seq(T), NEW e \in T
  PROVE  /\ Append(s, e) \in Seq(T) /\ Len(Append(s, e)) = Len(s) + 1
         /\ \A k \in 1 .. (Len(s) + 1) :
              Append(s, e)[k] = IF k <= Len(s) THEN s[k] ELSE e
OBVIOUS

(* A sequence without its first elements.                                  *)
LEMMA Suffix ==
  ASSUME NEW T, NEW s \in Seq(T), NEW b \in 0 .. (Len(s) - 1)
  PROVE  LET rest == SubSeq(s, b + 1, Len(s))
         IN /\ rest \in Seq(T) /\ Len(rest) = Len(s) - b
            /\ \A k \in 1 .. (Len(s) - b) : rest[k] = s[k + b]
OBVIOUS
-----------------------------------------------------------------------------
(* Capacities.                                                             *)

(* A check point of m intervals has the capacity m.                        *)
LEMMA CapacityIs ==
  ASSUME NEW c, c.start_tid \in Nat, c.end_tid \in Nat, NEW m \in Nat \ {0},
         c.end_tid + 1 - c.start_tid = Interval * m
  PROVE  Capacity(c) = m /\ Whole(c)
<1>1. Interval \in Nat /\ Interval > 1
  BY IntervalAssumption
<1>2. Interval * m >= Interval
  BY <1>1
<1>3. c.end_tid # 0
  BY <1>1, <1>2
<1> DEFINE size == Interval * m
<1>4. size \in Nat
  BY <1>1
<1>5. /\ size = Interval * (size \div Interval) + (size % Interval)
      /\ size \div Interval \in Nat
      /\ size % Interval \in 0 .. (Interval - 1)
  <2>1. Interval \in Nat \ {0}
    BY <1>1
  <2> HIDE DEF size
  <2>2. QED
    BY <1>4, <2>1, DivMod, Zenon
<1>6. Interval * m + 0 = Interval * (size \div Interval) + (size % Interval)
  BY <1>1, <1>5
<1>7. size \div Interval = m
  <2> HIDE DEF size
  <2>1. 0 \in 0 .. (Interval - 1)
    BY <1>1
  <2>2. QED
    BY <1>1, <1>5, <1>6, <2>1, DivModUnique
<1>8. c.end_tid - c.start_tid + 1 = size
  BY <1>4
<1>9. Capacity(c) = m
  BY <1>3, <1>7, <1>8 DEF Capacity
<1>10. QED
  BY <1>9 DEF Whole

(* A whole check point holds an interval's transactions at least.          *)
LEMMA WholeIsLong ==
  ASSUME NEW c \in CheckPointType, Whole(c)
  PROVE  /\ c.start_tid + Interval <= c.end_tid + 1
         /\ Capacity(c) \in Nat \ {0} /\ Capacity(c) <= c.end_tid
<1>1. Interval \in Nat /\ Interval > 1
  BY IntervalAssumption
<1> DEFINE m == Capacity(c)
<1>2. m \in Nat \ {0} /\ c.end_tid + 1 - c.start_tid = Interval * m
  BY DEF Whole
<1> HIDE DEF m
<1>3. Interval * m >= Interval /\ Interval * m >= 2 * m
  BY <1>1, <1>2
<1>4. c.start_tid \in Nat /\ c.end_tid \in Nat
  BY DEF CheckPointType
<1>5. QED
  BY <1>1, <1>2, <1>3, <1>4 DEF m

(* Capacity looks at the ends only.                                        *)
LEMMA SameEnds ==
  ASSUME NEW c, NEW d, c.start_tid = d.start_tid, c.end_tid = d.end_tid
  PROVE  Capacity(c) = Capacity(d) /\ (Whole(c) <=> Whole(d))
BY DEF Capacity, Whole
-----------------------------------------------------------------------------
(* Chains of check points.                                                 *)

(* The parts of a check point.                                             *)
LEMMA Parts ==
  ASSUME NEW cps \in Seq(CheckPointType), NEW k \in DOMAIN cps
  PROVE  /\ cps[k] \in CheckPointType
         /\ cps[k].start_tid \in Nat /\ cps[k].end_tid \in Nat
         /\ cps[k].frequency_table \in Tables
<1>1. cps[k] \in CheckPointType
  BY SeqIs
<1>2. QED
  BY <1>1 DEF CheckPointType

(* All check points end before the last one does, or with it, and start    *)
(* after the first one does, or with it.                                   *)
LEMMA ChainBounds ==
  ASSUME NEW cps \in Seq(CheckPointType), Chain(cps), NEW k \in DOMAIN cps
  PROVE  /\ cps[k].end_tid <= cps[Len(cps)].end_tid
         /\ cps[1].start_tid <= cps[k].start_tid
         /\ cps[k].start_tid + Interval <= cps[k].end_tid + 1
         /\ k < Len(cps) => cps[k].end_tid + Interval <= cps[Len(cps)].end_tid
<1>1. Len(cps) \in Nat /\ DOMAIN cps = 1 .. Len(cps) /\ Interval \in Nat
  BY SeqIs, IntervalAssumption
<1>2. 1 \in DOMAIN cps /\ Len(cps) \in DOMAIN cps /\ k \in 1 .. Len(cps)
  BY <1>1
<1>3. ASSUME NEW j \in DOMAIN cps
      PROVE  /\ cps[j].start_tid \in Nat /\ cps[j].end_tid \in Nat
             /\ cps[j].start_tid + Interval <= cps[j].end_tid + 1
  BY Parts, WholeIsLong DEF Chain
<1>4. k < Len(cps) => cps[k].end_tid < cps[Len(cps)].start_tid
  BY <1>1, <1>2 DEF Chain
<1>5. 1 < k => cps[1].end_tid < cps[k].start_tid
  BY <1>1, <1>2 DEF Chain
<1>6. 1 = k \/ 1 < k
  BY <1>2
<1>7. Len(cps) = k \/ k < Len(cps)
  BY <1>1, <1>2
<1>8. 1 < Interval
  BY IntervalAssumption
<1>9. cps[1].start_tid <= cps[k].start_tid
  BY <1>1, <1>2, <1>3, <1>5, <1>6, <1>8
<1>10. /\ cps[k].end_tid <= cps[Len(cps)].end_tid
       /\ k < Len(cps) => cps[k].end_tid + Interval <= cps[Len(cps)].end_tid
  BY <1>1, <1>2, <1>3, <1>4, <1>7, <1>8
<1>11. QED
  BY <1>3, <1>9, <1>10

(* A check point more, where the last one ends.                            *)
LEMMA AppendChain ==
  ASSUME NEW cps \in Seq(CheckPointType), Chain(cps),
         NEW c \in CheckPointType, Whole(c),
         cps # << >> => c.start_tid = cps[Len(cps)].end_tid + 1
  PROVE  Chain(Append(cps, c))
<1> DEFINE n == Len(cps)
           longer == Append(cps, c)
<1>1. /\ n \in Nat /\ DOMAIN cps = 1 .. n
      /\ longer \in Seq(CheckPointType) /\ Len(longer) = n + 1
      /\ DOMAIN longer = 1 .. (n + 1)
      /\ \A k \in 1 .. (n + 1) : longer[k] = IF k <= n THEN cps[k] ELSE c
  BY SeqIs, Appended
<1>2. n > 0 => c.start_tid = cps[n].end_tid + 1
  BY <1>1
<1> HIDE DEF n, longer
<1>3. ASSUME NEW k \in DOMAIN longer PROVE Whole(longer[k])
  BY <1>1, <1>3 DEF Chain
<1>4. ASSUME NEW k \in 1 .. (Len(longer) - 1)
      PROVE  longer[k + 1].start_tid = longer[k].end_tid + 1
  <2>1. CASE k = n
    BY <1>1, <1>2, <2>1
  <2>2. CASE k < n
    <3>1. k \in 1 .. (n - 1) /\ k + 1 \in 1 .. n
      BY <1>1, <2>2
    <3>2. cps[k + 1].start_tid = cps[k].end_tid + 1
      BY <3>1 DEF Chain, n
    <3>3. QED
      BY <1>1, <2>2, <3>1, <3>2
  <2>3. QED
    BY <1>1, <2>1, <2>2
<1>5. ASSUME NEW j \in DOMAIN longer, NEW k \in DOMAIN longer, j < k
      PROVE  longer[j].end_tid < longer[k].start_tid
  <2>1. CASE k <= n
    BY <1>1, <1>5, <2>1 DEF Chain
  <2>2. CASE k = n + 1
    <3>1. j \in DOMAIN cps /\ n \in DOMAIN cps /\ n > 0
      BY <1>1, <1>5, <2>2
    <3>2. cps[j].end_tid <= cps[n].end_tid
      BY <3>1, ChainBounds DEF n
    <3>3. cps[j].end_tid \in Nat /\ cps[n].end_tid \in Nat
      BY <3>1, Parts
    <3>4. QED
      BY <1>1, <1>2, <1>5, <2>2, <3>1, <3>2, <3>3
  <2>3. QED
    BY <1>1, <2>1, <2>2
<1>6. QED
  BY <1>3, <1>4, <1>5 DEF Chain, longer

(* The newest check points of a chain are one.                             *)
LEMMA SuffixChain ==
  ASSUME NEW cps \in Seq(CheckPointType), Chain(cps), NEW b \in 0 .. (Len(cps) - 1)
  PROVE  Chain(SubSeq(cps, b + 1, Len(cps)))
<1> DEFINE n == Len(cps)
           rest == SubSeq(cps, b + 1, n)
<1>1. /\ n \in Nat /\ DOMAIN cps = 1 .. n /\ b \in 0 .. (n - 1)
      /\ rest \in Seq(CheckPointType) /\ Len(rest) = n - b
      /\ DOMAIN rest = 1 .. (n - b)
      /\ \A k \in 1 .. (n - b) : rest[k] = cps[k + b]
  BY SeqIs, Suffix
<1> HIDE DEF n, rest
<1>2. ASSUME NEW k \in 1 .. (n - b)
      PROVE  /\ k + b \in DOMAIN cps
             /\ k < n - b => k + b \in 1 .. (n - 1) /\ (k + b) + 1 = (k + 1) + b
  BY <1>1
<1>3. \A k \in DOMAIN rest : Whole(rest[k])
  BY <1>1, <1>2 DEF Chain
<1>4. ASSUME NEW k \in 1 .. (Len(rest) - 1)
      PROVE  rest[k + 1].start_tid = rest[k].end_tid + 1
  <2>1. k \in 1 .. (n - b) /\ k + 1 \in 1 .. (n - b) /\ k < n - b
    BY <1>1
  <2>2. cps[(k + b) + 1].start_tid = cps[k + b].end_tid + 1
    BY <1>2, <2>1 DEF Chain, n
  <2>3. QED
    BY <1>1, <1>2, <2>1, <2>2
<1>5. ASSUME NEW j \in DOMAIN rest, NEW k \in DOMAIN rest, j < k
      PROVE  rest[j].end_tid < rest[k].start_tid
  <2>1. j + b < k + b /\ j + b \in DOMAIN cps /\ k + b \in DOMAIN cps
    BY <1>1, <1>2, <1>5
  <2>2. QED
    BY <1>1, <1>5, <2>1 DEF Chain
<1>6. QED
  BY <1>3, <1>4, <1>5 DEF Chain, rest, n

(* Merging two neighbours: the ends, the tables and the capacities.        *)
LEMMA Merged ==
  ASSUME NEW cps \in Seq(CheckPointType), Chain(cps), NEW b \in 1 .. (Len(cps) - 1)
  PROVE  LET m == MergeCheckPointWithNext(cps, b)
         IN /\ m \in Seq(CheckPointType) /\ Len(m) = Len(cps) - 1
            /\ \A k \in 1 .. (Len(cps) - 1) :
                 /\ m[k].start_tid = cps[IF k <= b THEN k ELSE k + 1].start_tid
                 /\ m[k].end_tid = cps[IF k < b THEN k ELSE k + 1].end_tid
                 /\ m[k].frequency_table
                      = cps[IF k < b THEN k ELSE k + 1].frequency_table
                 /\ Capacity(m[k])
                      = IF k < b THEN Capacity(cps[k])
                        ELSE IF k = b THEN Capacity(cps[b]) + Capacity(cps[b + 1])
                        ELSE Capacity(cps[k + 1])
            /\ Chain(m)
<1> DEFINE n == Len(cps)
           m == MergeCheckPointWithNext(cps, b)
           big == CheckPoint(cps[b].start_tid, cps[b + 1].end_tid,
                             cps[b + 1].frequency_table)
<1>1. /\ n \in Nat /\ DOMAIN cps = 1 .. n /\ b \in 1 .. (n - 1)
      /\ b \in DOMAIN cps /\ b + 1 \in DOMAIN cps /\ n - 1 \in Nat
  BY SeqIs
<1>2. /\ big \in CheckPointType
      /\ big.start_tid = cps[b].start_tid /\ big.end_tid = cps[b + 1].end_tid
      /\ big.frequency_table = cps[b + 1].frequency_table
  <2>1. /\ cps[b].start_tid \in Nat /\ cps[b + 1].end_tid \in Nat
        /\ cps[b + 1].frequency_table \in Tables
    BY <1>1, Parts
  <2>2. QED
    BY <2>1 DEF CheckPoint, CheckPointType
<1>3. m = [k \in 1 .. (n - 1) |->
             IF k < b THEN cps[k] ELSE IF k = b THEN big ELSE cps[k + 1]]
  BY DEF MergeCheckPointWithNext
<1> HIDE DEF m, big, n
<1>4. ASSUME NEW k \in 1 .. (n - 1)
      PROVE  /\ m[k] = IF k < b THEN cps[k] ELSE IF k = b THEN big ELSE cps[k + 1]
             /\ k \in DOMAIN cps /\ k + 1 \in DOMAIN cps
             /\ m[k] \in CheckPointType
  <2>1. k \in DOMAIN cps /\ k + 1 \in DOMAIN cps
    BY <1>1
  <2>2. cps[k] \in CheckPointType /\ cps[k + 1] \in CheckPointType
    BY <2>1, Parts
  <2>3. QED
    BY <1>2, <1>3, <2>1, <2>2
<1>5. m \in Seq(CheckPointType) /\ Len(m) = n - 1 /\ DOMAIN m = 1 .. (n - 1)
  <2>1. m = [k \in 1 .. (n - 1) |-> m[k]]
    BY <1>3
  <2>2. \A k \in 1 .. (n - 1) : m[k] \in CheckPointType
    BY <1>4
  <2>3. m \in Seq(CheckPointType) /\ Len(m) = n - 1
    BY <1>1, <2>1, <2>2, SeqMade
  <2>4. QED
    BY <1>1, <2>3, SeqIs
<1>6. Capacity(big) = Capacity(cps[b]) + Capacity(cps[b + 1]) /\ Whole(big)
  <2>1. /\ cps[b + 1].start_tid = cps[b].end_tid + 1
        /\ Whole(cps[b]) /\ Whole(cps[b + 1])
    BY <1>1 DEF Chain, n
  <2> DEFINE p == Capacity(cps[b])
             q == Capacity(cps[b + 1])
  <2>2. /\ p \in Nat \ {0} /\ q \in Nat \ {0}
        /\ cps[b].end_tid + 1 - cps[b].start_tid = Interval * p
        /\ cps[b + 1].end_tid + 1 - cps[b + 1].start_tid = Interval * q
    BY <2>1 DEF Whole
  <2>3. /\ cps[b].start_tid \in Nat /\ cps[b].end_tid \in Nat
        /\ cps[b + 1].start_tid \in Nat /\ cps[b + 1].end_tid \in Nat
    BY <1>1, Parts
  <2> HIDE DEF p, q
  <2>4. Interval \in Nat
    BY IntervalAssumption
  <2>5. Interval * (p + q) = Interval * p + Interval * q /\ p + q \in Nat \ {0}
    BY <2>2, <2>4
  <2>6. Interval * p \in Nat /\ Interval * q \in Nat
    BY <2>2, <2>4
  <2>7. big.end_tid + 1 - big.start_tid = Interval * (p + q)
    <3> DEFINE x == Interval * p
               y == Interval * q
               z == Interval * (p + q)
    <3>1. /\ x \in Nat /\ y \in Nat /\ z = x + y
          /\ cps[b].end_tid + 1 - cps[b].start_tid = x
          /\ cps[b + 1].end_tid + 1 - cps[b + 1].start_tid = y
      BY <2>2, <2>5, <2>6
    <3> HIDE DEF x, y, z
    <3> DEFINE s == cps[b].start_tid
               e == cps[b].end_tid
               t == cps[b + 1].start_tid
               f == cps[b + 1].end_tid
    <3>2. /\ s \in Nat /\ e \in Nat /\ t \in Nat /\ f \in Nat
          /\ t = e + 1 /\ e + 1 - s = x /\ f + 1 - t = y
      BY <2>1, <2>3, <3>1
    <3> HIDE DEF s, e, t, f
    <3>3. f + 1 - s = z
      BY <3>1, <3>2
    <3>4. QED
      BY <1>2, <3>3 DEF z, s, f
  <2>8. big.start_tid \in Nat /\ big.end_tid \in Nat
    BY <1>2, <2>3
  <2>9. QED
    BY <2>5, <2>7, <2>8, CapacityIs DEF p, q
<1>7. ASSUME NEW k \in 1 .. (n - 1)
      PROVE  /\ m[k].start_tid = cps[IF k <= b THEN k ELSE k + 1].start_tid
             /\ m[k].end_tid = cps[IF k < b THEN k ELSE k + 1].end_tid
             /\ m[k].frequency_table
                  = cps[IF k < b THEN k ELSE k + 1].frequency_table
             /\ Capacity(m[k])
                  = IF k < b THEN Capacity(cps[k])
                    ELSE IF k = b THEN Capacity(cps[b]) + Capacity(cps[b + 1])
                    ELSE Capacity(cps[k + 1])
             /\ Whole(m[k])
  <2>1. CASE k < b
    BY <1>1, <1>4, <2>1 DEF Chain
  <2>2. CASE k = b
    <3>1. m[b] = big
      BY <1>1, <1>4, <2>2
    <3>2. /\ (IF k <= b THEN k ELSE k + 1) = b
          /\ (IF k < b THEN k ELSE k + 1) = b + 1
          /\ ~ (k < b)
      BY <1>1, <2>2
    <3>3. m[k] = big
      BY <2>2, <3>1
    <3>4. Capacity(m[k]) = Capacity(cps[b]) + Capacity(cps[b + 1]) /\ Whole(m[k])
      BY <1>6, <3>3
    <3>5. /\ m[k].start_tid = cps[b].start_tid /\ m[k].end_tid = cps[b + 1].end_tid
          /\ m[k].frequency_table = cps[b + 1].frequency_table
      BY <1>2, <3>3
    <3>6. QED
      BY <2>2, <3>2, <3>4, <3>5
  <2>3. CASE k > b
    <3>1. /\ (IF k <= b THEN k ELSE k + 1) = k + 1
          /\ (IF k < b THEN k ELSE k + 1) = k + 1
          /\ ~ (k < b) /\ k # b
      BY <1>1, <2>3
    <3>2. m[k] = cps[k + 1] /\ k + 1 \in DOMAIN cps
      BY <1>4, <3>1
    <3>3. Whole(cps[k + 1])
      BY <3>2 DEF Chain
    <3>4. QED
      BY <3>1, <3>2, <3>3
  <2>4. QED
    BY <1>1, <2>1, <2>2, <2>3
<1>8. ASSUME NEW j \in DOMAIN m, NEW k \in DOMAIN m, j < k
      PROVE  m[j].end_tid < m[k].start_tid
  <2> DEFINE jj == IF j < b THEN j ELSE j + 1
             kk == IF k <= b THEN k ELSE k + 1
  <2>1. jj \in DOMAIN cps /\ kk \in DOMAIN cps /\ jj < kk
    BY <1>1, <1>5, <1>8
  <2>2. m[j].end_tid = cps[jj].end_tid /\ m[k].start_tid = cps[kk].start_tid
    BY <1>5, <1>7
  <2> HIDE DEF jj, kk
  <2>3. QED
    BY <2>1, <2>2 DEF Chain
<1>9. ASSUME NEW k \in 1 .. (Len(m) - 1)
      PROVE  m[k + 1].start_tid = m[k].end_tid + 1
  <2> DEFINE kk == IF k < b THEN k ELSE k + 1
  <2>1. k \in 1 .. (n - 1) /\ k + 1 \in 1 .. (n - 1) /\ kk \in 1 .. (n - 1)
    BY <1>1, <1>5
  <2>2. m[k].end_tid = cps[kk].end_tid /\ m[k + 1].start_tid = cps[kk + 1].start_tid
    BY <1>1, <1>7, <2>1
  <2> HIDE DEF kk
  <2>3. QED
    BY <2>1, <2>2 DEF Chain, n
<1>10. Chain(m)
  BY <1>5, <1>7, <1>8, <1>9 DEF Chain
<1>11. QED
  BY <1>5, <1>7, <1>10 DEF m, n

(* Check points with the same ends and, if the tables change at all, other *)
(* tables are a chain as well.                                             *)
LEMMA SameEndsChain ==
  ASSUME NEW cps \in Seq(CheckPointType), Chain(cps),
         NEW others \in Seq(CheckPointType), Len(others) = Len(cps),
         \A k \in DOMAIN cps : /\ others[k].start_tid = cps[k].start_tid
                               /\ others[k].end_tid = cps[k].end_tid
  PROVE  /\ Chain(others)
         /\ \A k \in DOMAIN cps : Capacity(others[k]) = Capacity(cps[k])
<1> DEFINE n == Len(cps)
<1>1. n \in Nat /\ DOMAIN cps = 1 .. n /\ DOMAIN others = 1 .. n /\ Len(others) = n
  BY SeqIs
<1>2. \A k \in DOMAIN cps : /\ Capacity(others[k]) = Capacity(cps[k])
                            /\ Whole(others[k]) <=> Whole(cps[k])
  BY SameEnds
<1>3. \A k \in 1 .. (n - 1) : k \in DOMAIN cps /\ k + 1 \in DOMAIN cps
  BY <1>1
<1>4. \A k \in 1 .. (n - 1) : others[k + 1].start_tid = others[k].end_tid + 1
  BY <1>3 DEF Chain
<1> HIDE DEF n
<1>5. QED
  BY <1>1, <1>2, <1>4 DEF Chain
-----------------------------------------------------------------------------
(* The exponential histogram.                                              *)

(* The capacities of a chain are positive.                                 *)
LEMMA Capacities ==
  ASSUME NEW cps, Chain(cps), NEW k \in DOMAIN cps
  PROVE  Capacity(cps[k]) \in Nat \ {0}
BY DEF Chain, Whole

(* A new check point of capacity 1 may be the third of its kind.           *)
LEMMA ArrangingAppend ==
  ASSUME NEW cps \in Seq(CheckPointType), Arranging(cps, NoThird, 1),
         NEW c \in CheckPointType, Capacity(c) = 1
  PROVE  Arranging(Append(cps, c), Len(cps) - 1, 1)
<1> DEFINE n == Len(cps)
           longer == Append(cps, c)
<1>1. /\ n \in Nat /\ DOMAIN cps = 1 .. n
      /\ Len(longer) = n + 1 /\ DOMAIN longer = 1 .. (n + 1)
      /\ \A k \in 1 .. (n + 1) : longer[k] = IF k <= n THEN cps[k] ELSE c
      /\ longer # << >>
  BY SeqIs, Appended
<1>2. n > 0 => Capacity(cps[n]) = 1
  BY <1>1 DEF Arranging
<1>3. /\ \A k \in 1 .. (n - 1) :
           Capacity(cps[k]) \in {Capacity(cps[k + 1]), 2 * Capacity(cps[k + 1])}
      /\ \A k \in 1 .. (n - 2) : Capacity(cps[k]) # Capacity(cps[k + 2])
  BY DEF Arranging, NoThird
<1> HIDE DEF n, longer
<1>4. ASSUME NEW k \in 1 .. n
      PROVE  Capacity(longer[k])
               \in {Capacity(longer[k + 1]), 2 * Capacity(longer[k + 1])}
  <2>1. CASE k = n
    BY <1>1, <1>2, <2>1
  <2>2. CASE k # n
    <3>1. k \in 1 .. (n - 1) /\ k + 1 <= n /\ k <= n /\ k + 1 \in 1 .. (n + 1)
      BY <1>1, <2>2
    <3>2. longer[k] = cps[k] /\ longer[k + 1] = cps[k + 1]
      BY <1>1, <3>1
    <3>3. QED
      BY <1>3, <3>1, <3>2
  <2>3. QED
    BY <2>1, <2>2
<1>5. ASSUME NEW k \in 1 .. (n - 1), k # n - 1
      PROVE  Capacity(longer[k]) # Capacity(longer[k + 2])
  <2>1. /\ k \in 1 .. (n - 2) /\ k + 2 <= n /\ k <= n
        /\ k \in 1 .. (n + 1) /\ k + 2 \in 1 .. (n + 1)
    BY <1>1, <1>5
  <2>2. longer[k] = cps[k] /\ longer[k + 2] = cps[k + 2]
    BY <1>1, <2>1
  <2>3. QED
    BY <1>3, <2>1, <2>2
<1>6. Capacity(longer[n + 1]) = 1
  BY <1>1
<1>7. ASSUME NEW k \in 1 .. (n + 1), k \in {(n - 1) + 1, (n - 1) + 2}
      PROVE  Capacity(longer[k]) = 1
  <2>1. k = n + 1 \/ (k = n /\ n > 0 /\ k <= n)
    BY <1>1, <1>7
  <2>2. QED
    BY <1>1, <1>2, <1>6, <2>1
<1>8. Arranging(longer, n - 1, 1)
  <2>1. Len(longer) - 1 = n /\ Len(longer) - 2 = n - 1
    BY <1>1
  <2>2. QED
    BY <1>1, <1>4, <1>5, <1>6, <1>7, <2>1 DEF Arranging
<1>9. QED
  BY <1>8 DEF n, longer

(* Merging the third of its kind with the second leaves at most one third, *)
(* two places further to the front and of twice the capacity.              *)
LEMMA ArrangingMerge ==
  ASSUME NEW cps \in Seq(CheckPointType), Chain(cps),
         NEW b \in 1 .. (Len(cps) - 2), NEW e,
         Arranging(cps, b, e), Capacity(cps[b]) = e
  PROVE  Arranging(MergeCheckPointWithNext(cps, b), b - 2, 2 * e)
<1> DEFINE n == Len(cps)
           m == MergeCheckPointWithNext(cps, b)
           cap(k) == Capacity(cps[k])
           mcap(k) == Capacity(m[k])
<1>1. /\ n \in Nat /\ DOMAIN cps = 1 .. n /\ b \in 1 .. (n - 2)
      /\ b \in 1 .. (Len(cps) - 1)
  BY SeqIs
<1>2. \A k \in 1 .. n : cap(k) \in Nat \ {0}
  BY <1>1, Capacities
<1>3. /\ m \in Seq(CheckPointType) /\ Len(m) = n - 1
      /\ \A k \in 1 .. (n - 1) :
           mcap(k) = IF k < b THEN cap(k)
                     ELSE IF k = b THEN cap(b) + cap(b + 1) ELSE cap(k + 1)
  BY <1>1, Merged
<1>4. DOMAIN m = 1 .. (n - 1)
  BY <1>3, SeqIs
<1>5. /\ \A k \in 1 .. (n - 1) : cap(k) \in {cap(k + 1), 2 * cap(k + 1)}
      /\ \A k \in 1 .. (n - 2) : k = b \/ cap(k) # cap(k + 2)
      /\ n > 0 => cap(n) = 1
      /\ \A k \in 1 .. n : k \in {b + 1, b + 2} => cap(k) = e
      /\ cap(b) = e
  BY <1>1 DEF Arranging
<1> HIDE DEF n, m, cap, mcap
<1>6. cap(b + 1) = e /\ cap(b + 2) = e /\ e \in Nat \ {0}
  BY <1>1, <1>2, <1>5
<1>7. mcap(b) = 2 * e /\ mcap(b + 1) = e
  BY <1>1, <1>3, <1>5, <1>6
<1>8. b > 1 => cap(b - 1) = 2 * e /\ mcap(b - 1) = 2 * e
  <2>1. ASSUME b > 1 PROVE b - 1 \in 1 .. (n - 2) /\ b - 1 # b /\ b - 1 < b
                           /\ (b - 1) + 1 = b /\ (b - 1) + 2 = b + 1
    BY <1>1, <2>1
  <2>2. ASSUME b > 1 PROVE cap(b - 1) \in {e, 2 * e} /\ cap(b - 1) # e
    BY <1>1, <1>5, <1>6, <2>1, <2>2
  <2>3. QED
    BY <1>1, <1>3, <2>1, <2>2
<1>9. ASSUME NEW k \in 1 .. (n - 2)
      PROVE  mcap(k) \in {mcap(k + 1), 2 * mcap(k + 1)}
  <2>1. CASE k < b - 1
    BY <1>1, <1>3, <1>5, <2>1
  <2>2. CASE k = b - 1
    BY <1>1, <1>7, <1>8, <2>2
  <2>3. CASE k = b
    BY <1>7, <2>3
  <2>4. CASE k > b
    <3>1. /\ k + 1 \in 1 .. (n - 1) /\ k \in 1 .. (n - 1)
          /\ ~ (k < b) /\ k # b /\ ~ (k + 1 < b) /\ k + 1 # b
      BY <1>1, <2>4
    <3>2. mcap(k) = cap(k + 1) /\ mcap(k + 1) = cap((k + 1) + 1)
      BY <1>3, <3>1
    <3>3. QED
      BY <1>5, <3>1, <3>2
  <2>5. QED
    BY <1>1, <2>1, <2>2, <2>3, <2>4
<1>10. ASSUME NEW k \in 1 .. (n - 3), k # b - 2
       PROVE  mcap(k) # mcap(k + 2)
  <2>1. CASE k < b - 2
    BY <1>1, <1>3, <1>5, <2>1
  <2>2. CASE k = b - 1
    BY <1>1, <1>6, <1>7, <1>8, <2>2
  <2>3. CASE k = b
    <3>1. b + 2 \in 1 .. (n - 1) /\ (b + 2) + 1 = b + 3 /\ b + 3 \in 1 .. n
      BY <1>1, <2>3
    <3>2. mcap(b + 2) = cap(b + 3)
      BY <1>1, <1>3, <3>1
    <3>3. e \in {cap(b + 3), 2 * cap(b + 3)} /\ cap(b + 3) \in Nat \ {0}
      BY <1>2, <1>5, <1>6, <3>1
    <3>4. QED
      BY <1>6, <1>7, <2>3, <3>2, <3>3
  <2>4. CASE k > b
    <3>1. /\ k + 1 \in 1 .. (n - 2) /\ k + 1 # b /\ (k + 1) + 2 = k + 3
          /\ k \in 1 .. (n - 1) /\ k + 2 \in 1 .. (n - 1) /\ (k + 2) + 1 = k + 3
          /\ ~ (k < b) /\ k # b /\ ~ (k + 2 < b) /\ k + 2 # b
      BY <1>1, <2>4
    <3>2. mcap(k) = cap(k + 1) /\ mcap(k + 2) = cap(k + 3)
      BY <1>3, <3>1
    <3>3. QED
      BY <1>5, <3>1, <3>2
  <2>5. QED
    BY <1>1, <1>10, <2>1, <2>2, <2>3, <2>4
<1>11. mcap(n - 1) = 1
  <2>1. n - 1 \in 1 .. (n - 1) /\ ~ (n - 1 < b) /\ n - 1 # b /\ (n - 1) + 1 = n /\ n > 0
    BY <1>1
  <2>2. mcap(n - 1) = cap(n)
    BY <1>3, <2>1
  <2>3. QED
    BY <1>5, <2>1, <2>2
<1>12. ASSUME NEW k \in 1 .. (n - 1), k \in {(b - 2) + 1, (b - 2) + 2}
       PROVE  mcap(k) = 2 * e
  BY <1>1, <1>7, <1>8, <1>12
<1>13. Len(m) - 1 = n - 2 /\ Len(m) - 2 = n - 3
  BY <1>1, <1>3
<1>14. QED
  BY <1>3, <1>4, <1>9, <1>10, <1>11, <1>12, <1>13 DEF Arranging, m, mcap

(* When the place looked at holds none of that capacity there is no third. *)
LEMMA ArrangingDone ==
  ASSUME NEW cps \in Seq(CheckPointType), NEW b \in -1 .. (Len(cps) - 2), NEW e,
         Arranging(cps, b, e), ~ (b >= 1 /\ Capacity(cps[b]) = e)
  PROVE  Arranging(cps, NoThird, 1)
<1> DEFINE n == Len(cps)
<1>1. n \in Nat /\ DOMAIN cps = 1 .. n /\ b \in -1 .. (n - 2)
  BY SeqIs
<1>2. ASSUME NEW k \in 1 .. (n - 2) PROVE Capacity(cps[k]) # Capacity(cps[k + 2])
  <2>1. CASE k # b
    BY <2>1 DEF Arranging
  <2>2. CASE k = b
    <3>1. b >= 1 /\ b + 2 \in DOMAIN cps
      BY <1>1, <2>2
    <3>2. Capacity(cps[b + 2]) = e
      BY <3>1 DEF Arranging
    <3>3. QED
      BY <2>2, <3>1, <3>2
  <2>3. QED
    BY <2>1, <2>2
<1>3. \A k \in DOMAIN cps : k \notin {NoThird + 1, NoThird + 2}
  BY <1>1 DEF NoThird
<1>4. QED
  BY <1>2, <1>3 DEF Arranging

(* Only capacities matter.                                                 *)
LEMMA ArrangingSame ==
  ASSUME NEW cps \in Seq(CheckPointType), NEW others \in Seq(CheckPointType),
         Len(others) = Len(cps), NEW third, NEW cap, Arranging(cps, third, cap),
         \A k \in DOMAIN cps : Capacity(others[k]) = Capacity(cps[k])
  PROVE  Arranging(others, third, cap)
<1> DEFINE n == Len(cps)
<1>1. /\ n \in Nat /\ DOMAIN cps = 1 .. n /\ DOMAIN others = 1 .. n
      /\ Len(others) = n /\ (others = << >> <=> n = 0) /\ (cps = << >> <=> n = 0)
  BY SeqIs
<1>2. /\ \A k \in 1 .. (n - 1) : k \in DOMAIN cps /\ k + 1 \in DOMAIN cps
      /\ \A k \in 1 .. (n - 2) : k \in DOMAIN cps /\ k + 2 \in DOMAIN cps
      /\ n # 0 => n \in DOMAIN cps
  BY <1>1
<1> HIDE DEF n
<1>3. /\ \A k \in 1 .. (n - 1) :
           Capacity(cps[k]) \in {Capacity(cps[k + 1]), 2 * Capacity(cps[k + 1])}
      /\ \A k \in 1 .. (n - 2) : k = third \/ Capacity(cps[k]) # Capacity(cps[k + 2])
      /\ n # 0 => Capacity(cps[n]) = 1
      /\ \A k \in DOMAIN cps : k \in {third + 1, third + 2} => Capacity(cps[k]) = cap
  BY <1>1 DEF Arranging, n
<1>4. /\ \A k \in 1 .. (n - 1) :
           Capacity(others[k]) \in {Capacity(others[k + 1]), 2 * Capacity(others[k + 1])}
      /\ \A k \in 1 .. (n - 2) :
           k = third \/ Capacity(others[k]) # Capacity(others[k + 2])
      /\ n # 0 => Capacity(others[n]) = 1
      /\ \A k \in DOMAIN cps :
           k \in {third + 1, third + 2} => Capacity(others[k]) = cap
  BY <1>2, <1>3
<1>5. QED
  BY <1>1, <1>4 DEF Arranging

(* The newest part of a histogram is one.                                  *)
LEMMA ArrangingSuffix ==
  ASSUME NEW cps \in Seq(CheckPointType), Arranging(cps, NoThird, 1),
         NEW b \in 0 .. (Len(cps) - 1)
  PROVE  Arranging(SubSeq(cps, b + 1, Len(cps)), NoThird, 1)
<1> DEFINE n == Len(cps)
           rest == SubSeq(cps, b + 1, n)
<1>1. /\ n \in Nat /\ DOMAIN cps = 1 .. n /\ b \in 0 .. (n - 1)
      /\ rest \in Seq(CheckPointType) /\ Len(rest) = n - b
      /\ DOMAIN rest = 1 .. (n - b)
      /\ \A k \in 1 .. (n - b) : rest[k] = cps[k + b]
  BY SeqIs, Suffix
<1>2. /\ \A k \in 1 .. (n - 1) :
           Capacity(cps[k]) \in {Capacity(cps[k + 1]), 2 * Capacity(cps[k + 1])}
      /\ \A k \in 1 .. (n - 2) : Capacity(cps[k]) # Capacity(cps[k + 2])
      /\ n # 0 => Capacity(cps[n]) = 1
  BY <1>1 DEF Arranging, NoThird
<1> HIDE DEF n, rest
<1>3. ASSUME NEW k \in 1 .. ((n - b) - 1)
      PROVE  Capacity(rest[k]) \in {Capacity(rest[k + 1]), 2 * Capacity(rest[k + 1])}
  <2>1. /\ k + b \in 1 .. (n - 1) /\ (k + 1) + b = (k + b) + 1
        /\ k \in 1 .. (n - b) /\ k + 1 \in 1 .. (n - b)
    BY <1>1
  <2>2. rest[k] = cps[k + b] /\ rest[k + 1] = cps[(k + b) + 1]
    BY <1>1, <2>1
  <2>3. QED
    BY <1>2, <2>1, <2>2
<1>4. ASSUME NEW k \in 1 .. ((n - b) - 2)
      PROVE  Capacity(rest[k]) # Capacity(rest[k + 2])
  <2>1. /\ k + b \in 1 .. (n - 2) /\ (k + 2) + b = (k + b) + 2
        /\ k \in 1 .. (n - b) /\ k + 2 \in 1 .. (n - b)
    BY <1>1
  <2>2. rest[k] = cps[k + b] /\ rest[k + 2] = cps[(k + b) + 2]
    BY <1>1, <2>1
  <2>3. QED
    BY <1>2, <2>1, <2>2
<1>5. Capacity(rest[n - b]) = 1
  <2>1. n - b \in 1 .. (n - b) /\ (n - b) + b = n /\ n # 0
    BY <1>1
  <2>2. QED
    BY <1>1, <1>2, <2>1
<1>6. \A k \in DOMAIN rest : k \notin {NoThird + 1, NoThird + 2}
  BY <1>1 DEF NoThird
<1>7. QED
  BY <1>1, <1>3, <1>4, <1>5, <1>6 DEF Arranging, rest, n
-----------------------------------------------------------------------------
(* Counting transactions: there are finitely many.                         *)
LEMMA HoldingFinite ==
  ASSUME NEW ds \in Seq(TransactionType), NEW last, NEW i
  PROVE  /\ IsFiniteSet(Holding(ds, last, i))
         /\ Cardinality(Holding(ds, last, i)) \in Nat
<1>1. Len(ds) \in Nat /\ DOMAIN ds = 1 .. Len(ds)
  BY SeqIs
<1>2. IsFiniteSet(1 .. Len(ds))
  BY <1>1, FS_Interval
<1>3. Holding(ds, last, i) \subseteq 1 .. Len(ds)
  BY <1>1 DEF Holding
<1>4. QED
  BY <1>2, <1>3, FS_Subset, FS_CardinalityType

(* A transaction more.                                                     *)
LEMMA HoldingAppend ==
  ASSUME NEW ds \in Seq(TransactionType), NEW t \in TransactionType, NEW last, NEW i
  PROVE  Cardinality(Holding(Append(ds, t), last, i))
           = Cardinality(Holding(ds, last, i))
               + IF t.id <= last /\ i \in t.items THEN 1 ELSE 0
<1> DEFINE n == Len(ds)
           longer == Append(ds, t)
           old == Holding(ds, last, i)
<1>1. /\ n \in Nat /\ DOMAIN ds = 1 .. n /\ DOMAIN longer = 1 .. (n + 1)
      /\ \A k \in 1 .. (n + 1) : longer[k] = IF k <= n THEN ds[k] ELSE t
  BY SeqIs, Appended
<1>2. IsFiniteSet(old) /\ Cardinality(old) \in Nat
  BY HoldingFinite
<1>3. n + 1 \notin old
  BY <1>1 DEF Holding
<1>4. Holding(longer, last, i)
        = old \cup (IF t.id <= last /\ i \in t.items THEN {n + 1} ELSE {})
  <2> HIDE DEF n, longer
  <2>1. ASSUME NEW k \in 1 .. n
        PROVE  k \in 1 .. (n + 1) /\ longer[k] = ds[k] /\ k # n + 1
    BY <1>1
  <2>2. longer[n + 1] = t /\ 1 .. (n + 1) = (1 .. n) \cup {n + 1}
    BY <1>1
  <2>3. QED
    BY <1>1, <2>1, <2>2 DEF Holding
<1> HIDE DEF n, longer, old
<1>5. CASE t.id <= last /\ i \in t.items
  <2>1. Holding(longer, last, i) = old \cup {n + 1}
    BY <1>4, <1>5
  <2>2. Cardinality(old \cup {n + 1}) = Cardinality(old) + 1
    BY <1>2, <1>3, FS_AddElement
  <2>3. QED
    BY <1>5, <2>1, <2>2 DEF longer, old
<1>6. CASE ~ (t.id <= last /\ i \in t.items)
  <2>1. Holding(longer, last, i) = old
    BY <1>4, <1>6
  <2>2. Cardinality(old) = Cardinality(old) + 0
    BY <1>2
  <2>3. QED
    BY <1>6, <2>1, <2>2 DEF longer, old
<1>7. QED
  BY <1>5, <1>6

(* A transaction less.                                                     *)
LEMMA HoldingTail ==
  ASSUME NEW ds \in Seq(TransactionType), ds # << >>, NEW last, NEW i
  PROVE  Cardinality(Holding(Tail(ds), last, i))
           = Cardinality(Holding(ds, last, i))
               - IF Head(ds).id <= last /\ i \in Head(ds).items THEN 1 ELSE 0
<1> DEFINE n == Len(ds)
           rest == Tail(ds)
           old == Holding(ds, last, i)
           new == Holding(rest, last, i)
           f == [k \in new |-> k + 1]
<1>1. /\ n \in Nat \ {0} /\ DOMAIN ds = 1 .. n /\ DOMAIN rest = 1 .. (n - 1)
      /\ rest \in Seq(TransactionType) /\ Head(ds) = ds[1]
      /\ \A k \in 1 .. (n - 1) : rest[k] = ds[k + 1]
  OBVIOUS
<1>2. /\ IsFiniteSet(old) /\ Cardinality(old) \in Nat
      /\ IsFiniteSet(new) /\ Cardinality(new) \in Nat
  BY <1>1, HoldingFinite
<1>3. Cardinality(new) = Cardinality(old \ {1})
  <2> HIDE DEF n, rest
  <2>1. \A k \in new : k \in 1 .. (n - 1) /\ k + 1 \in old \ {1}
    BY <1>1 DEF Holding
  <2>2. ASSUME NEW k \in old \ {1} PROVE k - 1 \in new /\ f[k - 1] = k
    <3>1. k \in 2 .. n /\ k - 1 \in 1 .. (n - 1) /\ (k - 1) + 1 = k
      BY <1>1, <2>2 DEF Holding
    <3>2. rest[k - 1] = ds[k]
      BY <1>1, <3>1
    <3>3. k - 1 \in new
      BY <1>1, <2>2, <3>1, <3>2 DEF Holding
    <3>4. QED
      BY <3>1, <3>3
  <2>3. f \in Bijection(new, old \ {1})
    <3>1. f \in [new -> old \ {1}]
      BY <2>1
    <3>2. \A j, k \in new : f[j] = f[k] => j = k
      BY <2>1
    <3>3. QED
      BY <2>2, <3>1, <3>2 DEF Bijection, Injection, Surjection, IsInjective
  <2>4. QED
    BY <1>2, <2>3, FS_Bijection DEF ExistsBijection
<1>4. CASE Head(ds).id <= last /\ i \in Head(ds).items
  <2>1. 1 \in old
    BY <1>1, <1>4 DEF Holding
  <2>2. Cardinality(old \ {1}) = Cardinality(old) - 1
    BY <1>2, <2>1, FS_RemoveElement
  <2>3. QED
    BY <1>3, <1>4, <2>2
<1>5. CASE ~ (Head(ds).id <= last /\ i \in Head(ds).items)
  <2>1. 1 \notin old
    BY <1>1, <1>5 DEF Holding
  <2>2. old \ {1} = old
    BY <2>1
  <2>3. Cardinality(new) = Cardinality(old) - 0
    <3> HIDE DEF old, new
    <3>1. QED
      BY <1>2, <1>3, <2>2
  <2>4. QED
    BY <1>5, <2>3
<1>6. QED
  BY <1>4, <1>5

(* Beyond the last transaction no bound makes a difference.                *)
LEMMA HoldingAll ==
  ASSUME NEW ds, NEW a, NEW b, NEW i,
         \A k \in DOMAIN ds : ds[k].id <= a /\ ds[k].id <= b
  PROVE  Holding(ds, a, i) = Holding(ds, b, i)
BY DEF Holding

(* The remainder of the next number.                                       *)
LEMMA NextRemainder ==
  ASSUME NEW a \in Nat, NEW n \in Nat, n > 1
  PROVE  (a + 1) % n = IF (a % n) = n - 1 THEN 0 ELSE (a % n) + 1
<1> DEFINE q == a \div n
           r == a % n
           p == (a + 1) \div n
           s == (a + 1) % n
<1>1. n \in Nat \ {0} /\ a + 1 \in Nat
  OBVIOUS
<1>2. a = n * q + r /\ q \in Nat /\ r \in 0 .. (n - 1)
  BY <1>1, DivMod, Zenon
<1>3. a + 1 = n * p + s /\ p \in Nat /\ s \in 0 .. (n - 1)
  <2> DEFINE c == a + 1
  <2> HIDE DEF c
  <2>1. c \in Nat => c = n * (c \div n) + (c % n) /\ c \div n \in Nat /\ c % n \in 0 .. (n - 1)
    BY <1>1, DivMod, Zenon
  <2>2. QED
    BY <1>1, <2>1, Zenon DEF c
<1> HIDE DEF q, r, p, s
<1>4. CASE r = n - 1
  <2>1. n * (q + 1) = n * q + n
    BY <1>2
  <2>2. n * p + s = n * (q + 1) + 0 /\ q + 1 \in Nat /\ 0 \in 0 .. (n - 1)
    BY <1>1, <1>2, <1>3, <1>4, <2>1
  <2>3. s = 0
    BY <1>1, <1>3, <2>2, DivModUnique, Zenon
  <2>4. QED
    BY <1>4, <2>3 DEF r, s
<1>5. CASE r # n - 1
  <2>1. n * p + s = n * q + (r + 1) /\ r + 1 \in 0 .. (n - 1)
    <3> DEFINE x == n * p
               y == n * q
    <3>1. x \in Nat /\ y \in Nat
      BY <1>1, <1>2, <1>3
    <3>2. a + 1 = x + s /\ a = y + r /\ r \in 0 .. (n - 1) /\ s \in Nat
      BY <1>1, <1>2, <1>3
    <3> HIDE DEF x, y
    <3>3. x + s = y + (r + 1) /\ r + 1 \in 0 .. (n - 1)
      BY <1>1, <1>5, <3>1, <3>2
    <3>4. QED
      BY <3>3 DEF x, y
  <2> DEFINE r1 == r + 1
  <2>2. n * p + s = n * q + r1 /\ r1 \in 0 .. (n - 1)
    BY <2>1
  <2> HIDE DEF r1
  <2>3. n \in Nat \ {0} /\ p \in Nat /\ q \in Nat /\ s \in 0 .. (n - 1)
    BY <1>1, <1>2, <1>3
  <2>4. s = r1
    BY <2>2, <2>3, DivModUnique
  <2>5. QED
    BY <1>5, <2>4 DEF r, s, r1
<1>6. QED
  BY <1>4, <1>5
-----------------------------------------------------------------------------
(* Counting with tables.                                                   *)

(* A transaction that counts.                                              *)
LEMMA PlusCounts ==
  ASSUME NEW ds \in Seq(TransactionType), NEW t \in TransactionType, NEW last,
         NEW table \in Tables, CountsUpTo(table, ds, last), t.id <= last
  PROVE  /\ CountsUpTo(Plus(table, t.items), Append(ds, t), last)
         /\ Plus(table, t.items) \in Tables
<1>1. ASSUME NEW i \in Items
      PROVE  Plus(table, t.items)[i] = Cardinality(Holding(Append(ds, t), last, i))
  <2>1. Cardinality(Holding(Append(ds, t), last, i))
          = Cardinality(Holding(ds, last, i))
              + IF t.id <= last /\ i \in t.items THEN 1 ELSE 0
    BY HoldingAppend
  <2>2. QED
    BY <2>1 DEF Plus, CountsUpTo
<1>2. Plus(table, t.items) \in Tables
  BY DEF Plus, Tables
<1>3. QED
  BY <1>1, <1>2 DEF CountsUpTo

(* One that comes too late to count.                                       *)
LEMMA LaterCounts ==
  ASSUME NEW ds \in Seq(TransactionType), NEW t \in TransactionType, NEW last,
         NEW table \in Tables, CountsUpTo(table, ds, last), ~ (t.id <= last)
  PROVE  CountsUpTo(table, Append(ds, t), last)
<1>1. ASSUME NEW i \in Items
      PROVE  table[i] = Cardinality(Holding(Append(ds, t), last, i))
  <2>1. Cardinality(Holding(Append(ds, t), last, i))
          = Cardinality(Holding(ds, last, i))
              + IF t.id <= last /\ i \in t.items THEN 1 ELSE 0
    BY HoldingAppend
  <2>2. Cardinality(Holding(ds, last, i)) \in Nat
    BY HoldingFinite
  <2>3. QED
    BY <2>1, <2>2 DEF CountsUpTo
<1>2. QED
  BY <1>1 DEF CountsUpTo

(* The oldest one leaves.                                                  *)
LEMMA MinusCounts ==
  ASSUME NEW ds \in Seq(TransactionType), ds # << >>, NEW last,
         NEW table \in Tables, CountsUpTo(table, ds, last), Head(ds).id <= last
  PROVE  /\ CountsUpTo(Minus(table, Head(ds).items), Tail(ds), last)
         /\ Minus(table, Head(ds).items) \in Tables
<1>1. ASSUME NEW i \in Items
      PROVE  Minus(table, Head(ds).items)[i] = Cardinality(Holding(Tail(ds), last, i))
  <2>1. Cardinality(Holding(Tail(ds), last, i))
          = Cardinality(Holding(ds, last, i))
              - IF Head(ds).id <= last /\ i \in Head(ds).items THEN 1 ELSE 0
    BY HoldingTail
  <2>2. QED
    BY <2>1 DEF Minus, CountsUpTo
<1>2. Minus(table, Head(ds).items) \in Tables
  BY DEF Minus, Tables
<1>3. QED
  BY <1>1, <1>2 DEF CountsUpTo

(* Beyond the last transaction all bounds are the same.                    *)
LEMMA AllCount ==
  ASSUME NEW ds, NEW a, NEW b, NEW table, CountsUpTo(table, ds, a),
         \A k \in DOMAIN ds : ds[k].id <= a /\ ds[k].id <= b
  PROVE  CountsUpTo(table, ds, b)
BY HoldingAll DEF CountsUpTo
-----------------------------------------------------------------------------
(* Facts about every state.                                                *)

(* What SetupAssumption says of the settings.                              *)
LEMMA SetupIs ==
  ASSUME setup \in Setups
  PROVE  /\ method \in AllMethods /\ adaptive \in BOOLEAN
         /\ setup.lines \in SUBSET Transactions /\ setup.length \in Nat
BY SetupAssumption DEF method, adaptive

(* The types in the form the steps below use them.                         *)
LEMMA StateIs ==
  ASSUME StateType
  PROVE  /\ tid \in Nat /\ setup.length \in Nat /\ tid <= setup.length
         /\ Interval \in Nat /\ Interval > 1
         /\ Len(data_set) \in Nat /\ DOMAIN data_set = 1 .. Len(data_set)
         /\ Len(check_points) \in Nat /\ DOMAIN check_points = 1 .. Len(check_points)
         /\ (check_points = << >> <=> Len(check_points) = 0)
         /\ (data_set = << >> <=> Len(data_set) = 0)
         /\ tid % Interval \in 0 .. (Interval - 1)
<1>1. setup.length \in Nat /\ Interval \in Nat /\ Interval > 1
  BY SetupIs, IntervalAssumption DEF StateType
<1>2. /\ data_set \in Seq(TransactionType) /\ check_points \in Seq(CheckPointType)
      /\ tid \in 0 .. setup.length
  BY DEF StateType
<1>3. tid \in Nat /\ Interval \in Nat \ {0}
  BY <1>1, <1>2
<1>4. tid % Interval \in 0 .. (Interval - 1)
  BY <1>3, DivMod
<1>5. QED
  BY <1>1, <1>2, <1>4, SeqIs

(* Check points end before the next transaction.                           *)
LEMMA EndsBefore ==
  ASSUME StateType, Blocks, NEW k \in DOMAIN check_points
  PROVE  /\ check_points[k].start_tid \in Nat /\ check_points[k].end_tid \in Nat
         /\ check_points[k].end_tid <= tid - 1
         /\ check_points[1].start_tid <= check_points[k].start_tid
         /\ check_points[k].start_tid + Interval <= check_points[k].end_tid + 1
         /\ k < Len(check_points) => check_points[k].end_tid + Interval <= tid - 1
         /\ Capacity(check_points[k]) \in Nat \ {0}
         /\ Capacity(check_points[k]) <= check_points[k].end_tid
<1> DEFINE n == Len(check_points)
<1>1. /\ tid \in Nat /\ n \in Nat /\ DOMAIN check_points = 1 .. n
      /\ (check_points = << >> <=> n = 0) /\ tid % Interval \in Nat
  BY StateIs
<1>2. check_points \in Seq(CheckPointType) /\ Chain(check_points)
  BY DEF StateType, Blocks
<1>3. n \in DOMAIN check_points /\ check_points # << >>
  BY <1>1
<1>4. check_points[n].end_tid = tid - 1 - (tid % Interval)
  BY <1>3 DEF Blocks
<1>5. /\ check_points[k] \in CheckPointType
      /\ check_points[k].start_tid \in Nat /\ check_points[k].end_tid \in Nat
      /\ check_points[n].end_tid \in Nat
  BY <1>2, <1>3, Parts
<1>6. check_points[n].end_tid <= tid - 1
  BY <1>1, <1>4
<1>7. /\ check_points[k].end_tid <= check_points[n].end_tid
      /\ check_points[1].start_tid <= check_points[k].start_tid
      /\ check_points[k].start_tid + Interval <= check_points[k].end_tid + 1
      /\ k < n => check_points[k].end_tid + Interval <= check_points[n].end_tid
  BY <1>2, ChainBounds
<1>8. Whole(check_points[k])
  BY <1>2 DEF Chain
<1>9. /\ Capacity(check_points[k]) \in Nat \ {0}
      /\ Capacity(check_points[k]) <= check_points[k].end_tid
  BY <1>5, <1>8, WholeIsLong
<1>10. Interval \in Nat
  BY IntervalAssumption
<1> HIDE DEF n
<1>11. /\ check_points[k].end_tid <= tid - 1
       /\ k < n => check_points[k].end_tid + Interval <= tid - 1
  BY <1>1, <1>5, <1>6, <1>7, <1>10
<1>12. QED
  BY <1>5, <1>7, <1>9, <1>11 DEF n

(* The transactions of the window come before the next one.                *)
LEMMA WindowIsBefore ==
  ASSUME StateType, Window, NEW k \in DOMAIN data_set
  PROVE  data_set[k].id \in Nat /\ data_set[k].id <= tid - 1
<1>1. /\ tid \in Nat /\ Len(data_set) \in Nat /\ k \in 1 .. Len(data_set)
      /\ data_set[k].id = tid - Len(data_set) + k - 1 /\ Len(data_set) <= tid
  BY StateIs DEF Window
<1>2. QED
  BY <1>1
-----------------------------------------------------------------------------
(* The first state.                                                        *)
LEMMA Initially == Init => IInv
<1> SUFFICES ASSUME Init PROVE IInv
  OBVIOUS
<1>1. setup.length \in Nat /\ Interval \in Nat /\ Interval > 1
  BY SetupIs, IntervalAssumption DEF Init
<1>2. /\ data_set = << >> /\ check_points = << >> /\ tid = 0 /\ pc = "add"
      /\ block_index = 0 /\ exp_cap = 1 /\ freq = [i \in Items |-> 0]
      /\ setup \in Setups
  BY DEF Init
<1>3. StateType
  BY <1>1, <1>2 DEF StateType, Phases, Tables
<1>4. Window
  BY <1>2 DEF Window
<1>5. Blocks
  BY <1>1, <1>2 DEF Blocks, Chain
<1>6. Control
  BY <1>2 DEF Control
<1>7. Counts
  <2>1. ASSUME NEW i \in Items PROVE freq[i] = Cardinality(Holding(data_set, tid, i))
    <3>1. Holding(data_set, tid, i) = {}
      BY <1>2 DEF Holding
    <3>2. QED
      BY <1>2, <3>1, FS_EmptySet
  <2>2. DOMAIN check_points = {}
    BY <1>2
  <2>3. QED
    BY <2>1, <2>2 DEF Counts, CountsUpTo
<1>8. HistogramInv
  BY <1>2 DEF HistogramInv, Arranging
<1>9. QED
  BY <1>3, <1>4, <1>5, <1>6, <1>7, <1>8 DEF IInv
-----------------------------------------------------------------------------
(* Add.                                                                    *)

(* The window and the tree's own table, check point due or not.            *)
LEMMA AddWindow ==
  ASSUME IInv, NEW items \in setup.lines, Add(items)
  PROVE  /\ data_set' \in Seq(TransactionType) /\ Window'
         /\ Len(data_set') = Len(data_set) + 1
         /\ tid' = tid + 1 /\ tid' \in 0 .. setup.length
         /\ freq' \in Tables
         /\ CountsUpTo(freq', data_set', tid) /\ CountsUpTo(freq', data_set', tid')
         /\ \A k \in DOMAIN check_points :
              CountsUpTo(check_points[k].frequency_table, data_set',
                         check_points[k].end_tid)
<1> DEFINE n == Len(data_set)
           t == [id |-> tid, items |-> items]
<1>1. /\ StateType /\ Window /\ Blocks /\ Counts
      /\ pc = "add" /\ tid < setup.length /\ tid' = tid + 1
      /\ data_set' = Append(data_set, t) /\ freq' = Plus(freq, items)
  BY DEF IInv, Add
<1>2. /\ tid \in Nat /\ setup.length \in Nat /\ n \in Nat /\ DOMAIN data_set = 1 .. n
      /\ data_set \in Seq(TransactionType) /\ freq \in Tables
      /\ check_points \in Seq(CheckPointType)
      /\ n <= tid /\ \A k \in DOMAIN data_set : data_set[k].id = tid - n + k - 1
  BY <1>1, StateIs DEF StateType, Window
<1>3. t \in TransactionType /\ t.id = tid /\ t.items = items
  <2>1. items \in Transactions
    BY <1>1, SetupIs DEF StateType
  <2>2. QED
    BY <1>2, <2>1 DEF TransactionType
<1> HIDE DEF t
<1>4. /\ data_set' \in Seq(TransactionType) /\ Len(data_set') = n + 1
      /\ DOMAIN data_set' = 1 .. (n + 1)
      /\ \A k \in 1 .. (n + 1) : data_set'[k] = IF k <= n THEN data_set[k] ELSE t
  <2>1. Append(data_set, t) \in Seq(TransactionType)
    BY <1>2, <1>3, Appended
  <2>2. QED
    BY <1>1, <1>2, <1>3, <2>1, Appended, SeqIs
<1> HIDE DEF n
<1>5. ASSUME NEW k \in DOMAIN data_set'
      PROVE  data_set'[k].id = tid' - (n + 1) + k - 1 /\ data_set'[k].id <= tid
  <2>1. CASE k <= n
    BY <1>1, <1>2, <1>4, <1>5, <2>1
  <2>2. CASE ~ (k <= n)
    <3>1. k = n + 1 /\ data_set'[k] = t
      BY <1>2, <1>4, <1>5, <2>2
    <3>2. QED
      BY <1>1, <1>2, <1>3, <3>1
  <2>3. QED
    BY <2>1, <2>2
<1>6. Window'
  BY <1>1, <1>2, <1>4, <1>5 DEF Window
<1>7. CountsUpTo(freq', data_set', tid) /\ freq' \in Tables
  <2>1. CountsUpTo(freq, data_set, tid)
    BY <1>1 DEF Counts
  <2>2. t.id <= tid
    BY <1>2, <1>3
  <2>3. QED
    BY <1>1, <1>2, <1>3, <2>1, <2>2, PlusCounts
<1>8. CountsUpTo(freq', data_set', tid')
  <2>1. \A k \in DOMAIN data_set' : data_set'[k].id <= tid /\ data_set'[k].id <= tid'
    <3>1. ASSUME NEW k \in DOMAIN data_set'
          PROVE  data_set'[k].id <= tid /\ data_set'[k].id <= tid'
      <4>1. /\ data_set'[k].id = tid' - (n + 1) + k - 1 /\ data_set'[k].id <= tid
            /\ k \in 1 .. (n + 1)
        BY <1>4, <1>5
      <4>2. QED
        BY <1>1, <1>2, <4>1
    <3>2. QED
      BY <3>1
  <2>2. QED
    BY <1>7, <2>1, AllCount
<1>9. ASSUME NEW k \in DOMAIN check_points
      PROVE  CountsUpTo(check_points[k].frequency_table, data_set',
                        check_points[k].end_tid)
  <2>1. CountsUpTo(check_points[k].frequency_table, data_set, check_points[k].end_tid)
    BY <1>1 DEF Counts
  <2>2. check_points[k].end_tid \in Nat /\ check_points[k].end_tid <= tid - 1
    BY <1>1, EndsBefore
  <2>3. check_points[k].frequency_table \in Tables
    BY <1>2, Parts
  <2>4. ~ (t.id <= check_points[k].end_tid)
    BY <1>2, <1>3, <2>2
  <2>5. QED
    BY <1>1, <1>2, <1>3, <2>1, <2>3, <2>4, LaterCounts
<1>10. tid' \in 0 .. setup.length
  BY <1>1, <1>2
<1>11. QED
  BY <1>1, <1>4, <1>6, <1>7, <1>8, <1>9, <1>10 DEF n

(* No check point is due.                                                  *)
LEMMA AddWithin ==
  ASSUME IInv, NEW items \in setup.lines, Add(items),
         ~ (tid # 0 /\ (tid + 1) % Interval = 0)
  PROVE  IInv'
<1>1. /\ StateType /\ Blocks /\ Control /\ HistogramInv
      /\ pc = "add" /\ pc' = "add" /\ check_points' = check_points
      /\ block_index' = block_index /\ exp_cap' = exp_cap /\ setup' = setup
  BY DEF IInv, Add
<1>2. /\ data_set' \in Seq(TransactionType) /\ Window'
      /\ Len(data_set') = Len(data_set) + 1
      /\ tid' = tid + 1 /\ tid' \in 0 .. setup.length
      /\ freq' \in Tables /\ CountsUpTo(freq', data_set', tid')
      /\ \A k \in DOMAIN check_points :
           CountsUpTo(check_points[k].frequency_table, data_set',
                      check_points[k].end_tid)
  BY AddWindow
<1>3. /\ tid \in Nat /\ Interval \in Nat /\ Interval > 1 /\ Len(data_set) \in Nat
      /\ tid % Interval \in 0 .. (Interval - 1)
  BY <1>1, StateIs
<1>4. tid' % Interval = (tid % Interval) + 1
  <2>1. (tid + 1) % Interval
          = IF tid % Interval = Interval - 1 THEN 0 ELSE (tid % Interval) + 1
    BY <1>3, NextRemainder
  <2>2. tid = 0 => tid % Interval # Interval - 1
    <3>1. 0 % Interval = 0
      BY <1>3, ModSmall
    <3>2. QED
      BY <1>3, <3>1
  <2>3. QED
    BY <1>2, <2>1, <2>2
<1>5. StateType'
  BY <1>1, <1>2 DEF StateType
<1>6. Blocks'
  <2>1. check_points = << >> => tid' < Interval /\ Len(data_set') = tid'
    <3>1. check_points = << >> => tid < Interval /\ Len(data_set) = tid
      BY <1>1 DEF Blocks
    <3>2. tid + 1 # Interval
      <4>1. Interval % Interval = 0
        BY <1>3, ModSmall
      <4>2. QED
        BY <1>2, <1>3, <1>4, <4>1
    <3>3. QED
      BY <1>2, <1>3, <3>1, <3>2
  <2>2. check_points # << >> =>
          /\ check_points[Len(check_points)].end_tid = tid' - 1 - (tid' % Interval)
          /\ check_points[1].start_tid = tid' - Len(data_set')
    <3>1. check_points # << >> =>
            /\ check_points[Len(check_points)].end_tid = tid - 1 - (tid % Interval)
            /\ check_points[1].start_tid = tid - Len(data_set)
      BY <1>1 DEF Blocks
    <3>2. QED
      BY <1>2, <1>3, <1>4, <3>1
  <2>3. QED
    BY <1>1, <2>1, <2>2 DEF Blocks
<1>7. Control'
  <2>1. block_index = 0 /\ exp_cap = 1
    BY <1>1 DEF Control
  <2>2. 1 \in 1 .. (2 * tid' + 1)
    BY <1>2, <1>3
  <2>3. QED
    BY <1>1, <2>1, <2>2 DEF Control
<1>8. Counts'
  BY <1>1, <1>2 DEF Counts
<1>9. HistogramInv'
  BY <1>1 DEF HistogramInv, adaptive, method
<1>10. QED
  BY <1>2, <1>5, <1>6, <1>7, <1>8, <1>9 DEF IInv

(* A check point is due.                                                   *)
LEMMA AddCheckPoint ==
  ASSUME IInv, NEW items \in setup.lines, Add(items),
         tid # 0, (tid + 1) % Interval = 0
  PROVE  IInv'
<1> DEFINE n == Len(check_points)
           c == NewCheckPoint(freq')
<1>1. /\ StateType /\ Window /\ Blocks /\ Control /\ HistogramInv
      /\ pc = "add" /\ pc' = (IF adaptive THEN "arrange" ELSE "find")
      /\ check_points' = Append(check_points, c)
      /\ block_index' = (IF adaptive THEN Len(check_points') - 2
                                     ELSE FirstIndex(check_points'))
      /\ exp_cap' = exp_cap /\ setup' = setup
  BY DEF IInv, Add
<1>2. /\ data_set' \in Seq(TransactionType) /\ Window'
      /\ Len(data_set') = Len(data_set) + 1
      /\ tid' = tid + 1 /\ tid' \in 0 .. setup.length
      /\ freq' \in Tables
      /\ CountsUpTo(freq', data_set', tid) /\ CountsUpTo(freq', data_set', tid')
      /\ \A k \in DOMAIN check_points :
           CountsUpTo(check_points[k].frequency_table, data_set',
                      check_points[k].end_tid)
  BY AddWindow
<1>3. /\ tid \in Nat /\ Interval \in Nat /\ Interval > 1 /\ Len(data_set) \in Nat
      /\ n \in Nat /\ DOMAIN check_points = 1 .. n
      /\ (check_points = << >> <=> n = 0)
      /\ tid % Interval \in 0 .. (Interval - 1)
  BY <1>1, StateIs
<1>4. tid % Interval = Interval - 1 /\ tid' % Interval = 0
  <2>1. (tid + 1) % Interval
          = IF tid % Interval = Interval - 1 THEN 0 ELSE (tid % Interval) + 1
    BY <1>3, NextRemainder
  <2>2. QED
    BY <1>2, <1>3, <2>1
<1>5. tid + 1 >= Interval
  <2>1. ASSUME tid < Interval PROVE tid % Interval = tid
    <3>1. Interval \in Nat \ {0} /\ tid \in (-Interval) .. (2 * Interval - 1)
      BY <1>3, <2>1
    <3>2. tid % Interval = IF tid < 0 THEN tid + Interval
                           ELSE IF tid < Interval THEN tid ELSE tid - Interval
      BY <3>1, ModSmall, Zenon
    <3>3. QED
      BY <1>3, <2>1, <3>2
  <2>2. QED
    BY <1>3, <1>4, <2>1
<1>6. /\ c \in CheckPointType
      /\ c.start_tid = tid + 1 - Interval /\ c.end_tid = tid
      /\ c.frequency_table = freq'
  <2>1. tid + 1 - Interval \in Nat
    BY <1>3, <1>5
  <2>2. c = [start_tid |-> tid + 1 - Interval, end_tid |-> tid, frequency_table |-> freq']
    BY DEF NewCheckPoint, CheckPoint
  <2> HIDE DEF c
  <2>3. QED
    BY <1>2, <1>3, <2>1, <2>2 DEF CheckPointType
<1> HIDE DEF c
<1>7. Whole(c) /\ Capacity(c) = 1
  <2>1. c.end_tid + 1 - c.start_tid = Interval * 1
    BY <1>3, <1>6
  <2>2. c.start_tid \in Nat /\ c.end_tid \in Nat /\ 1 \in Nat \ {0}
    BY <1>6 DEF CheckPointType
  <2>3. QED
    BY <2>1, <2>2, CapacityIs
<1>8. check_points \in Seq(CheckPointType) /\ Chain(check_points)
  BY <1>1 DEF StateType, Blocks
<1>9. /\ check_points' \in Seq(CheckPointType) /\ Len(check_points') = n + 1
      /\ \A k \in 1 .. (n + 1) :
           check_points'[k] = IF k <= n THEN check_points[k] ELSE c
      /\ DOMAIN check_points' = 1 .. (n + 1) /\ check_points' # << >>
  <2>1. Append(check_points, c) \in Seq(CheckPointType)
    BY <1>6, <1>8, Appended
  <2>2. QED
    BY <1>1, <1>3, <1>6, <1>8, <2>1, Appended, SeqIs
<1>10. check_points'[n + 1] = c
  BY <1>3, <1>9
<1>11. n > 0 => /\ check_points[n].end_tid = tid - Interval
                /\ check_points[1].start_tid = tid - Len(data_set)
  <2>1. check_points # << >> =>
          /\ check_points[Len(check_points)].end_tid = tid - 1 - (tid % Interval)
          /\ check_points[1].start_tid = tid - Len(data_set)
    BY <1>1 DEF Blocks
  <2>2. QED
    BY <1>3, <1>4, <2>1
<1>12. n = 0 => tid + 1 = Interval /\ Len(data_set) = tid
  BY <1>1, <1>3, <1>5 DEF Blocks
<1> HIDE DEF n
<1>13. StateType'
  <2>1. pc' \in Phases
    BY <1>1 DEF Phases
  <2>2. block_index' \in Int
    BY <1>1, <1>3, <1>9 DEF FirstIndex
  <2>3. QED
    BY <1>1, <1>2, <1>9, <2>1, <2>2 DEF StateType
<1>14. Blocks'
  <2>1. Chain(check_points')
    <3>1. check_points # << >> => c.start_tid = check_points[Len(check_points)].end_tid + 1
      BY <1>3, <1>6, <1>11 DEF n
    <3>2. QED
      BY <1>1, <1>6, <1>7, <1>8, <3>1, AppendChain
  <2>2. check_points'[Len(check_points')].end_tid = tid' - 1 - (tid' % Interval)
    BY <1>2, <1>3, <1>4, <1>6, <1>9, <1>10
  <2>3. check_points'[1].start_tid = tid' - Len(data_set')
    <3>1. CASE n = 0
      BY <1>2, <1>3, <1>6, <1>10, <1>12, <3>1
    <3>2. CASE n > 0
      <4>1. check_points'[1] = check_points[1]
        BY <1>3, <1>9, <3>2
      <4>2. QED
        BY <1>2, <1>3, <1>11, <3>2, <4>1
    <3>3. QED
      BY <1>3, <3>1, <3>2
  <2>4. QED
    BY <1>9, <2>1, <2>2, <2>3 DEF Blocks
<1>15. Control'
  <2>1. exp_cap' = 1 /\ 1 \in 1 .. (2 * tid' + 1)
    BY <1>1, <1>2, <1>3 DEF Control
  <2>2. CASE adaptive
    <3>1. pc' = "arrange" /\ block_index' = (n + 1) - 2
      BY <1>1, <1>9, <2>2
    <3>2. block_index' \in -1 .. (Len(check_points') - 2)
      BY <1>3, <1>9, <3>1
    <3>3. QED
      BY <2>1, <3>1, <3>2 DEF Control
  <2>3. CASE ~ adaptive
    <3>1. pc' = "find" /\ block_index' = FirstIndex(check_points')
      BY <1>1, <2>3
    <3>2. block_index' = IF method = "partition" THEN 1 ELSE n
      BY <1>3, <1>9, <3>1 DEF FirstIndex
    <3>3. block_index' \in IF method' = "partition" THEN 1 .. Len(check_points')
                           ELSE 0 .. (Len(check_points') - 1)
      BY <1>1, <1>3, <1>9, <3>2 DEF method
    <3>4. QED
      BY <1>9, <2>1, <3>1, <3>3 DEF Control
  <2>4. QED
    BY <2>2, <2>3
<1>16. Counts'
  <2>1. ASSUME NEW k \in DOMAIN check_points'
        PROVE  CountsUpTo(check_points'[k].frequency_table, data_set',
                          check_points'[k].end_tid)
    <3>1. CASE k = n + 1
      BY <1>2, <1>6, <1>10, <3>1
    <3>2. CASE k # n + 1
      <4>1. k \in DOMAIN check_points /\ check_points'[k] = check_points[k]
        BY <1>3, <1>9, <3>2
      <4>2. QED
        BY <1>2, <4>1
    <3>3. QED
      BY <3>1, <3>2
  <2>2. QED
    BY <1>2, <2>1 DEF Counts
<1>17. HistogramInv'
  <2>1. adaptive' = adaptive /\ method' = method
    BY <1>1 DEF adaptive, method
  <2>2. SUFFICES ASSUME adaptive, method # "progressive"
                 PROVE  Arranging(check_points', block_index', exp_cap') /\ pc' = "arrange"
    BY <2>1 DEF HistogramInv
  <2>3. Arranging(check_points, NoThird, 1) /\ exp_cap' = 1
    BY <1>1, <2>2 DEF HistogramInv, Control
  <2>4. Arranging(check_points', n - 1, 1)
    BY <1>1, <1>6, <1>7, <1>8, <2>3, ArrangingAppend DEF n
  <2>5. block_index' = n - 1 /\ pc' = "arrange"
    BY <1>1, <1>3, <1>9, <2>2
  <2>6. QED
    BY <2>3, <2>4, <2>5
<1>18. QED
  BY <1>2, <1>13, <1>14, <1>15, <1>16, <1>17 DEF IInv
-----------------------------------------------------------------------------
(* Merging check points, while arranging them or while searching.          *)

(* What a merge of the check points b and b + 1 leaves as it was.          *)
LEMMA MergeKeeps ==
  ASSUME IInv, pc # "purge", NEW b \in 1 .. (Len(check_points) - 1),
         check_points' = MergeCheckPointWithNext(check_points, b),
         UNCHANGED <<setup, tid, data_set, freq>>, pc' # "purge"
  PROVE  /\ check_points' \in Seq(CheckPointType)
         /\ Len(check_points') = Len(check_points) - 1 /\ check_points' # << >>
         /\ Window' /\ Blocks' /\ Counts'
<1> DEFINE n == Len(check_points)
<1>1. StateType /\ Window /\ Blocks /\ Counts
  BY DEF IInv
<1>2. /\ check_points \in Seq(CheckPointType) /\ Chain(check_points)
      /\ n \in Nat /\ DOMAIN check_points = 1 .. n /\ check_points # << >>
  BY <1>1, StateIs DEF StateType, Blocks
<1>3. /\ check_points' \in Seq(CheckPointType) /\ Len(check_points') = n - 1
      /\ Chain(check_points')
      /\ \A k \in 1 .. (n - 1) :
           /\ check_points'[k].start_tid
                = check_points[IF k <= b THEN k ELSE k + 1].start_tid
           /\ check_points'[k].end_tid
                = check_points[IF k < b THEN k ELSE k + 1].end_tid
           /\ check_points'[k].frequency_table
                = check_points[IF k < b THEN k ELSE k + 1].frequency_table
  BY <1>2, Merged
<1>4. DOMAIN check_points' = 1 .. (n - 1) /\ b \in 1 .. (n - 1) /\ check_points' # << >>
  BY <1>2, <1>3, SeqIs
<1> HIDE DEF n
<1>5. Window'
  BY <1>1 DEF Window
<1>6. Blocks'
  <2>1. check_points'[n - 1].end_tid = check_points[n].end_tid
    <3>1. n - 1 \in 1 .. (n - 1) /\ (IF n - 1 < b THEN n - 1 ELSE (n - 1) + 1) = n
      BY <1>2, <1>4
    <3>2. QED
      BY <1>3, <3>1
  <2>2. check_points'[1].start_tid = check_points[1].start_tid
    <3>1. 1 \in 1 .. (n - 1) /\ (IF 1 <= b THEN 1 ELSE 1 + 1) = 1
      BY <1>2, <1>4
    <3>2. QED
      BY <1>3, <3>1
  <2>3. /\ check_points[n].end_tid = tid - 1 - (tid % Interval)
        /\ check_points[1].start_tid = tid - Len(data_set)
    BY <1>1, <1>2 DEF Blocks, n
  <2>4. QED
    BY <1>3, <1>4, <2>1, <2>2, <2>3 DEF Blocks
<1>7. Counts'
  <2>1. ASSUME NEW k \in DOMAIN check_points'
        PROVE  CountsUpTo(check_points'[k].frequency_table, data_set',
                          check_points'[k].end_tid)
    <3> DEFINE j == IF k < b THEN k ELSE k + 1
    <3>1. j \in DOMAIN check_points /\ k \in 1 .. (n - 1)
      BY <1>2, <1>4
    <3>2. /\ check_points'[k].end_tid = check_points[j].end_tid
          /\ check_points'[k].frequency_table = check_points[j].frequency_table
      BY <1>3, <3>1
    <3> HIDE DEF j
    <3>3. QED
      BY <1>1, <3>1, <3>2 DEF Counts
  <2>2. CountsUpTo(freq', data_set', tid')
    BY <1>1 DEF Counts
  <2>3. QED
    BY <2>1, <2>2 DEF Counts
<1>8. QED
  BY <1>3, <1>4, <1>5, <1>6, <1>7 DEF n

(* A turn of arrangeCheckPoints merges, or the loop ends.                  *)
LEMMA ArrangeStep ==
  ASSUME IInv, Arrange
  PROVE  IInv'
<1> DEFINE n == Len(check_points)
           b == block_index
<1>1. /\ StateType /\ Window /\ Blocks /\ Control /\ Counts /\ HistogramInv
      /\ pc = "arrange" /\ setup' = setup /\ tid' = tid /\ data_set' = data_set
      /\ freq' = freq /\ adaptive' = adaptive /\ method' = method
  BY DEF IInv, Arrange, adaptive, method
<1>2. /\ check_points \in Seq(CheckPointType) /\ Chain(check_points)
      /\ n \in Nat /\ DOMAIN check_points = 1 .. n
      /\ b \in -1 .. (n - 2) /\ (check_points = << >> <=> n = 0)
      /\ tid \in Nat /\ exp_cap \in Nat
  BY <1>1, StateIs DEF StateType, Blocks, Control
<1>3. CASE ThirdOfItsKind
  <2>1. /\ b >= 1 /\ Capacity(check_points[b]) = exp_cap
        /\ check_points' = MergeCheckPointWithNext(check_points, b)
        /\ block_index' = b - 2 /\ exp_cap' = exp_cap * 2 /\ pc' = "arrange"
    BY <1>1, <1>3 DEF Arrange, ThirdOfItsKind
  <2>2. /\ check_points' \in Seq(CheckPointType) /\ Len(check_points') = n - 1
        /\ Window' /\ Blocks' /\ Counts'
    <3>1. b \in 1 .. (n - 1) /\ pc # "purge" /\ pc' # "purge"
      BY <1>1, <1>2, <2>1
    <3>2. UNCHANGED <<setup, tid, data_set, freq>>
      BY <1>1
    <3>3. QED
      BY <2>1, <3>1, <3>2, MergeKeeps
  <2>3. StateType'
    <3>1. exp_cap' \in Nat /\ block_index' \in Int
      BY <1>2, <2>1
    <3>2. QED
      BY <1>1, <2>1, <2>2, <3>1 DEF StateType, Phases
  <2>4. Control'
    <3>1. exp_cap \in Nat \ {0} /\ exp_cap <= tid
      <4>1. b \in DOMAIN check_points
        BY <1>2, <2>1
      <4>2. /\ check_points[b].end_tid \in Nat /\ check_points[b].end_tid <= tid - 1
            /\ exp_cap \in Nat \ {0} /\ exp_cap <= check_points[b].end_tid
        BY <1>1, <2>1, <4>1, EndsBefore
      <4>3. QED
        BY <1>2, <4>2
    <3>2. exp_cap' \in 1 .. (2 * tid' + 1)
      BY <1>1, <1>2, <2>1, <3>1
    <3>3. block_index' \in -1 .. (Len(check_points') - 2)
      BY <1>2, <2>1, <2>2
    <3>4. QED
      BY <2>1, <3>2, <3>3 DEF Control
  <2>5. HistogramInv'
    <3>1. SUFFICES ASSUME adaptive, method # "progressive"
                   PROVE  Arranging(check_points', block_index', exp_cap')
      BY <1>1, <2>1 DEF HistogramInv
    <3>2. Arranging(check_points, b, exp_cap)
      BY <1>1, <3>1 DEF HistogramInv
    <3>3. b \in 1 .. (Len(check_points) - 2)
      BY <1>2, <2>1
    <3>4. Arranging(MergeCheckPointWithNext(check_points, b), b - 2, 2 * exp_cap)
      BY <1>2, <2>1, <3>2, <3>3, ArrangingMerge
    <3>5. 2 * exp_cap = exp_cap'
      BY <1>2, <2>1
    <3>6. QED
      BY <2>1, <3>4, <3>5
  <2>6. QED
    BY <2>2, <2>3, <2>4, <2>5 DEF IInv
<1>4. CASE ~ ThirdOfItsKind
  <2>1. /\ pc' = "find" /\ check_points' = check_points /\ exp_cap' = 1
        /\ block_index' = FirstIndex(check_points)
        /\ ~ (b >= 1 /\ Capacity(check_points[b]) = exp_cap)
    BY <1>1, <1>4 DEF Arrange, ThirdOfItsKind
  <2>2. block_index' = IF method = "partition" THEN 1 ELSE n - 1
    BY <2>1 DEF FirstIndex
  <2> HIDE DEF n
  <2>3. StateType'
    BY <1>1, <1>2, <2>1, <2>2 DEF StateType, Phases
  <2>4. Window' /\ Blocks' /\ Counts'
    BY <1>1, <2>1 DEF Window, Blocks, Counts
  <2>5. Control'
    <3>1. block_index' \in IF method' = "partition" THEN 1 .. Len(check_points')
                           ELSE 0 .. (Len(check_points') - 1)
      BY <1>1, <1>2, <2>1, <2>2 DEF n
    <3>2. check_points' # << >> /\ 1 \in 1 .. (2 * tid' + 1)
      BY <1>1, <1>2, <2>1
    <3>3. QED
      BY <2>1, <3>1, <3>2 DEF Control
  <2>6. HistogramInv'
    <3>1. SUFFICES ASSUME adaptive, method # "progressive"
                   PROVE  Arranging(check_points', NoThird, 1)
      BY <1>1, <2>1 DEF HistogramInv
    <3>2. Arranging(check_points, b, exp_cap)
      BY <1>1, <3>1 DEF HistogramInv
    <3>3. Arranging(check_points, NoThird, 1)
      BY <1>2, <2>1, <3>2, ArrangingDone DEF n
    <3>4. QED
      BY <2>1, <3>3
  <2>7. QED
    BY <2>3, <2>4, <2>5, <2>6 DEF IInv
<1>5. QED
  BY <1>3, <1>4

(* The halves at a cut are alike: the check points there are merged.       *)
LEMMA AlikeStep ==
  ASSUME IInv, Alike
  PROVE  IInv'
<1> DEFINE n == Len(check_points)
           b == block_index
<1>1. /\ StateType /\ Control /\ pc = "find" /\ pc' = "find"
      /\ check_points' = MergeCheckPointWithNext(check_points, b)
      /\ UNCHANGED <<setup, tid, data_set, freq>> /\ exp_cap' = exp_cap
      /\ adaptive' = adaptive /\ method' = method
  BY DEF IInv, Alike, adaptive, method
<1>2. \/ /\ method = "progressive" /\ b < n - 1 /\ block_index' = b - 1 /\ b >= 1
      \/ /\ method = "partition" /\ ~ adaptive /\ block_index' = b /\ b < n
  BY DEF Alike, Searching
<1>3. /\ n \in Nat /\ exp_cap = 1 /\ tid \in Nat
      /\ b \in IF method = "partition" THEN 1 .. n ELSE 0 .. (n - 1)
  BY <1>1, StateIs DEF Control
<1>4. b \in 1 .. (Len(check_points) - 1)
  BY <1>2, <1>3
<1>5. /\ check_points' \in Seq(CheckPointType) /\ Len(check_points') = n - 1
      /\ check_points' # << >> /\ Window' /\ Blocks' /\ Counts'
  BY <1>1, <1>4, MergeKeeps
<1> HIDE DEF n
<1>6. /\ block_index' \in Int
      /\ block_index' \in IF method = "partition" THEN 1 .. (n - 1) ELSE 0 .. (n - 2)
  BY <1>2, <1>3, <1>4 DEF n
<1>7. StateType'
  BY <1>1, <1>5, <1>6 DEF StateType
<1>8. Control'
  <2>1. block_index' \in IF method' = "partition" THEN 1 .. Len(check_points')
                         ELSE 0 .. (Len(check_points') - 1)
    BY <1>1, <1>3, <1>5, <1>6
  <2>2. exp_cap' \in 1 .. (2 * tid' + 1) /\ exp_cap' = 1
    BY <1>1, <1>3
  <2>3. QED
    BY <1>1, <1>5, <2>1, <2>2 DEF Control
<1>9. HistogramInv'
  BY <1>1, <1>2 DEF HistogramInv
<1>10. QED
  BY <1>5, <1>7, <1>8, <1>9 DEF IInv
-----------------------------------------------------------------------------
(* The rest of a search.                                                   *)

(* A search looks at check points that are there, never at the newest one. *)
LEMMA SearchingIs ==
  ASSUME method \in AllMethods, block_index \in Int, Searching
  PROVE  IF method = "partition" THEN block_index < Len(check_points)
                                 ELSE block_index >= 1
<1>1. CASE method = "partition"
  BY <1>1 DEF Searching
<1>2. CASE method = "progressive"
  BY <1>2 DEF Searching
<1>3. CASE method = "distribution"
  <2>1. block_index >= 2 /\ method # "partition"
    BY <1>3 DEF Searching
  <2>2. QED
    BY <2>1
<1>4. QED
  BY <1>1, <1>2, <1>3 DEF AllMethods

(* No more transactions.                                                   *)
LEMMA EndOfStreamStep ==
  ASSUME IInv, EndOfStream
  PROVE  IInv'
BY DEF IInv, EndOfStream, StateType, Phases, Window, Blocks, Control, Counts,
       HistogramInv, adaptive, method

(* The check point found is not the last one.                              *)
LEMMA UnstableStep ==
  ASSUME IInv, Unstable
  PROVE  IInv'
<1> DEFINE n == Len(check_points)
           b == block_index
<1>1. /\ StateType /\ Window /\ Blocks /\ Control /\ Counts /\ HistogramInv
      /\ pc = "find" /\ pc' = "purge" /\ Searching
      /\ UNCHANGED <<setup, tid, data_set, freq, check_points, block_index, exp_cap>>
      /\ adaptive' = adaptive /\ method' = method
  BY DEF IInv, Unstable, adaptive, method
<1>2. /\ n \in Nat /\ exp_cap = 1 /\ tid \in Nat /\ Len(data_set) \in Nat
      /\ DOMAIN check_points = 1 .. n /\ method \in AllMethods
      /\ b \in IF method = "partition" THEN 1 .. n ELSE 0 .. (n - 1)
      /\ check_points # << >>
  BY <1>1, StateIs, SetupIs DEF Control, StateType
<1>3. b \in 1 .. (n - 1)
  BY <1>1, <1>2, SearchingIs DEF StateType
<1>4. tid - Len(data_set) <= check_points[b].end_tid + 1
  <2>1. /\ check_points[1].start_tid <= check_points[b].start_tid
        /\ check_points[b].start_tid + Interval <= check_points[b].end_tid + 1
        /\ check_points[b].start_tid \in Nat /\ check_points[b].end_tid \in Nat
    BY <1>1, <1>2, <1>3, EndsBefore
  <2>2. check_points[1].start_tid = tid - Len(data_set)
    BY <1>1, <1>2 DEF Blocks
  <2>3. Interval \in Nat
    BY IntervalAssumption
  <2>4. QED
    BY <1>2, <2>1, <2>2, <2>3
<1>5. StateType' /\ Window' /\ Blocks' /\ Counts' /\ HistogramInv'
  BY <1>1 DEF StateType, Phases, Window, Blocks, Counts, HistogramInv
<1>6. Control'
  BY <1>1, <1>2, <1>3, <1>4 DEF Control
<1>7. QED
  BY <1>5, <1>6 DEF IInv

(* A cut is stable, the search goes on.                                    *)
LEMMA StableStep ==
  ASSUME IInv, Stable
  PROVE  IInv'
<1> DEFINE n == Len(check_points)
           b == block_index
<1>1. /\ StateType /\ Window /\ Blocks /\ Control /\ Counts /\ HistogramInv
      /\ pc = "find" /\ pc' = pc /\ Searching
      /\ UNCHANGED <<setup, tid, data_set, freq, check_points, exp_cap>>
      /\ block_index' = (IF method = "partition" THEN b + 1 ELSE b - 1)
      /\ adaptive' = adaptive /\ method' = method
  BY DEF IInv, Stable, adaptive, method
<1>2. /\ n \in Nat /\ exp_cap = 1 /\ tid \in Nat /\ method \in AllMethods
      /\ b \in IF method = "partition" THEN 1 .. n ELSE 0 .. (n - 1)
      /\ check_points # << >>
  BY <1>1, StateIs, SetupIs DEF Control, StateType
<1>3. block_index' \in IF method = "partition" THEN 1 .. n ELSE 0 .. (n - 1)
  BY <1>1, <1>2, SearchingIs DEF StateType
<1>4. StateType' /\ Window' /\ Blocks' /\ Counts' /\ HistogramInv'
  <2>1. block_index' \in Int
    BY <1>2, <1>3
  <2>2. QED
    BY <1>1, <2>1 DEF StateType, Window, Blocks, Counts, HistogramInv
<1>5. Control'
  BY <1>1, <1>2, <1>3 DEF Control
<1>6. QED
  BY <1>4, <1>5 DEF IInv

(* The search ends without drift.                                          *)
LEMMA NoDriftStep ==
  ASSUME IInv, NoDrift
  PROVE  IInv'
BY DEF IInv, NoDrift, StateType, Phases, Window, Blocks, Control, Counts,
       HistogramInv, adaptive, method
-----------------------------------------------------------------------------
(* The purge.                                                              *)

(* The oldest transaction leaves tree, data set and tables.                *)
LEMMA PurgeTransactionStep ==
  ASSUME IInv, PurgeTransaction
  PROVE  IInv'
<1> DEFINE n == Len(check_points)
           m == Len(data_set)
           b == block_index
           oldest == Head(data_set)
<1>1. /\ StateType /\ Window /\ Blocks /\ Control /\ Counts /\ HistogramInv
      /\ pc = "purge" /\ pc' = "purge" /\ data_set # << >>
      /\ oldest.id <= check_points[b].end_tid
      /\ data_set' = Tail(data_set) /\ freq' = Minus(freq, oldest.items)
      /\ check_points' =
           [k \in DOMAIN check_points |->
              IF k > b
              THEN [check_points[k] EXCEPT !.frequency_table =
                      Minus(check_points[k].frequency_table, oldest.items)]
              ELSE check_points[k]]
      /\ UNCHANGED <<setup, tid, block_index, exp_cap>>
      /\ adaptive' = adaptive /\ method' = method
  BY DEF IInv, PurgeTransaction, adaptive, method
<1>2. /\ n \in Nat /\ DOMAIN check_points = 1 .. n /\ tid \in Nat
      /\ m \in Nat \ {0} /\ m <= tid /\ DOMAIN data_set = 1 .. m
      /\ data_set \in Seq(TransactionType) /\ freq \in Tables
      /\ check_points \in Seq(CheckPointType) /\ Chain(check_points)
      /\ b \in 1 .. (n - 1)
      /\ tid - m <= check_points[b].end_tid + 1
      /\ \A k \in 1 .. m : data_set[k].id = tid - m + k - 1
  BY <1>1, StateIs DEF StateType, Window, Blocks, Control
<1>3. oldest = data_set[1] /\ oldest.id = tid - m
  BY <1>2
<1>4. /\ data_set' \in Seq(TransactionType) /\ Len(data_set') = m - 1
      /\ DOMAIN data_set' = 1 .. (m - 1)
      /\ \A k \in 1 .. (m - 1) : data_set'[k] = data_set[k + 1]
  BY <1>1, <1>2
<1> HIDE DEF n, m, oldest
<1>5. ASSUME NEW k \in 1 .. n
      PROVE  /\ check_points[k].start_tid \in Nat /\ check_points[k].end_tid \in Nat
             /\ check_points[k].frequency_table \in Tables
             /\ check_points[k] \in CheckPointType
             /\ check_points[k].end_tid <= tid - 1
             /\ k > b => check_points[b].end_tid < check_points[k].end_tid
  <2>1. /\ check_points[k].start_tid \in Nat /\ check_points[k].end_tid \in Nat
        /\ check_points[k].frequency_table \in Tables
        /\ check_points[k] \in CheckPointType
        /\ check_points[b].end_tid \in Nat
    BY <1>2, Parts
  <2>2. /\ check_points[k].end_tid <= tid - 1
        /\ check_points[k].start_tid + Interval <= check_points[k].end_tid + 1
    BY <1>1, <1>2, EndsBefore
  <2>3. k > b => check_points[b].end_tid < check_points[k].start_tid
    <3>1. b \in DOMAIN check_points /\ k \in DOMAIN check_points /\ (k > b => b < k)
      BY <1>2
    <3>2. \A i, j \in DOMAIN check_points :
             i < j => check_points[i].end_tid < check_points[j].start_tid
      BY <1>2 DEF Chain
    <3>3. QED
      BY <3>1, <3>2
  <2>4. Interval \in Nat /\ Interval > 1
    BY IntervalAssumption
  <2>5. k > b => check_points[b].end_tid < check_points[k].end_tid
    BY <2>1, <2>2, <2>3, <2>4
  <2>6. QED
    BY <2>1, <2>2, <2>5
<1>6. ASSUME NEW last \in Nat, NEW table \in Tables, CountsUpTo(table, data_set, last),
             oldest.id <= last
      PROVE  /\ CountsUpTo(Minus(table, oldest.items), data_set', last)
             /\ Minus(table, oldest.items) \in Tables
  BY <1>1, <1>2, <1>6, MinusCounts DEF oldest
<1>7. freq' \in Tables /\ CountsUpTo(freq', data_set', tid')
  <2>1. CountsUpTo(freq, data_set, tid) /\ oldest.id <= tid
    BY <1>1, <1>2, <1>3 DEF Counts
  <2>2. QED
    BY <1>1, <1>2, <1>6, <2>1
<1>8. ASSUME NEW k \in 1 .. n
      PROVE  /\ check_points'[k] \in CheckPointType
             /\ check_points'[k].start_tid = check_points[k].start_tid
             /\ check_points'[k].end_tid = check_points[k].end_tid
             /\ k > b => CountsUpTo(check_points'[k].frequency_table, data_set',
                                    check_points'[k].end_tid)
  <2>1. CASE ~ (k > b)
    <3>1. check_points'[k] = check_points[k]
      BY <1>1, <1>2, <2>1
    <3>2. QED
      BY <1>5, <2>1, <3>1
  <2>2. CASE k > b
    <3> DEFINE c == check_points[k]
               table == Minus(c.frequency_table, oldest.items)
    <3>1. CountsUpTo(c.frequency_table, data_set, c.end_tid)
      BY <1>1, <1>2, <2>2 DEF Counts
    <3>2. oldest.id <= c.end_tid
      BY <1>1, <1>2, <1>3, <1>5, <2>2
    <3>3. c \in CheckPointType /\ c.end_tid \in Nat /\ c.frequency_table \in Tables
      BY <1>5
    <3>4. CountsUpTo(table, data_set', c.end_tid) /\ table \in Tables
      BY <1>6, <3>1, <3>2, <3>3
    <3>5. check_points'[k] = [c EXCEPT !.frequency_table = table]
      BY <1>1, <1>2, <2>2
    <3> HIDE DEF c, table
    <3>6. /\ check_points'[k] \in CheckPointType
          /\ check_points'[k].start_tid = c.start_tid
          /\ check_points'[k].end_tid = c.end_tid
          /\ check_points'[k].frequency_table = table
      BY <3>3, <3>4, <3>5 DEF CheckPointType
    <3>7. QED
      BY <3>4, <3>6 DEF c
  <2>3. QED
    BY <2>1, <2>2
<1>9. /\ check_points' \in Seq(CheckPointType) /\ Len(check_points') = n
      /\ DOMAIN check_points' = 1 .. n
  <2>1. check_points' = [k \in 1 .. n |-> check_points'[k]]
    BY <1>1, <1>2
  <2>2. check_points' \in Seq(CheckPointType) /\ Len(check_points') = n
    BY <1>2, <1>8, <2>1, SeqMade
  <2>3. QED
    BY <2>2, SeqIs
<1>10. /\ Chain(check_points')
       /\ \A k \in 1 .. n : Capacity(check_points'[k]) = Capacity(check_points[k])
  BY <1>2, <1>8, <1>9, SameEndsChain DEF n
<1>11. StateType'
  BY <1>1, <1>4, <1>7, <1>9 DEF StateType, Phases
<1>12. Window'
  <2>1. ASSUME NEW k \in 1 .. (m - 1) PROVE data_set'[k].id = tid - (m - 1) + k - 1
    <3>1. k + 1 \in 1 .. m /\ data_set'[k] = data_set[k + 1]
      BY <1>2, <1>4
    <3>2. data_set[k + 1].id = tid - m + (k + 1) - 1
      BY <1>2, <3>1
    <3>3. QED
      BY <1>2, <3>1, <3>2
  <2>2. QED
    BY <1>1, <1>2, <1>4, <2>1 DEF Window
<1>13. Blocks'
  <2>1. check_points # << >> /\ check_points' # << >> /\ n \in 1 .. n
    BY <1>2, <1>9, SeqIs DEF n
  <2>2. check_points[n].end_tid = tid - 1 - (tid % Interval)
    BY <1>1, <2>1 DEF Blocks, n
  <2>3. check_points'[n].end_tid = tid' - 1 - (tid' % Interval)
    BY <1>1, <1>8, <2>1, <2>2
  <2>4. QED
    BY <1>1, <1>9, <1>10, <2>1, <2>3 DEF Blocks
<1>14. Control'
  <2>1. exp_cap' = 1 /\ 1 \in 1 .. (2 * tid' + 1)
    BY <1>1, <1>2 DEF Control
  <2>2. block_index' \in 1 .. (Len(check_points') - 1)
    BY <1>1, <1>2, <1>9
  <2>3. tid' - Len(data_set') <= check_points'[block_index'].end_tid + 1
    <3>1. b \in 1 .. n /\ check_points[b].end_tid \in Nat
      BY <1>2, <1>5
    <3>2. check_points'[b].end_tid = check_points[b].end_tid
      BY <1>8, <3>1
    <3>3. QED
      BY <1>1, <1>2, <1>3, <1>4, <3>1, <3>2
  <2>4. QED
    BY <1>1, <2>1, <2>2, <2>3 DEF Control
<1>15. Counts'
  BY <1>1, <1>7, <1>8, <1>9 DEF Counts
<1>16. HistogramInv'
  <2>1. SUFFICES ASSUME adaptive, method # "progressive"
                 PROVE  Arranging(check_points', NoThird, 1)
    BY <1>1 DEF HistogramInv
  <2>2. Arranging(check_points, NoThird, 1)
    BY <1>1, <2>1 DEF HistogramInv
  <2>3. QED
    BY <1>2, <1>9, <1>10, <2>2, ArrangingSame DEF n
<1>17. QED
  BY <1>11, <1>12, <1>13, <1>14, <1>15, <1>16 DEF IInv

(* The oldest check point left starts with the oldest transaction left.    *)
LEMMA PurgeEndStep ==
  ASSUME IInv, PurgeEnd
  PROVE  IInv'
<1> DEFINE n == Len(check_points)
           m == Len(data_set)
           b == block_index
<1>1. /\ StateType /\ Window /\ Blocks /\ Control /\ Counts /\ HistogramInv
      /\ pc = "purge" /\ pc' = "add" /\ block_index' = 0
      /\ data_set = << >> \/ Head(data_set).id > check_points[b].end_tid
      /\ check_points' = SubSeq(check_points, b + 1, n)
      /\ UNCHANGED <<setup, tid, data_set, freq, exp_cap>>
      /\ adaptive' = adaptive /\ method' = method
  BY DEF IInv, PurgeEnd, adaptive, method
<1>2. /\ n \in Nat /\ DOMAIN check_points = 1 .. n /\ tid \in Nat
      /\ m \in Nat /\ m <= tid /\ DOMAIN data_set = 1 .. m
      /\ (data_set = << >> <=> m = 0)
      /\ data_set \in Seq(TransactionType)
      /\ check_points \in Seq(CheckPointType) /\ Chain(check_points)
      /\ b \in 1 .. (n - 1)
      /\ tid - m <= check_points[b].end_tid + 1
      /\ \A k \in 1 .. m : data_set[k].id = tid - m + k - 1
      /\ Interval \in Nat /\ Interval > 1
  BY <1>1, StateIs DEF StateType, Window, Blocks, Control
<1>3. /\ check_points' \in Seq(CheckPointType) /\ Len(check_points') = n - b
      /\ DOMAIN check_points' = 1 .. (n - b) /\ check_points' # << >>
      /\ \A k \in 1 .. (n - b) : check_points'[k] = check_points[k + b]
  <2>1. b \in 0 .. (n - 1)
    BY <1>2
  <2>2. /\ check_points' \in Seq(CheckPointType) /\ Len(check_points') = n - b
        /\ \A k \in 1 .. (n - b) : check_points'[k] = check_points[k + b]
    BY <1>1, <1>2, <2>1, Suffix
  <2>3. QED
    BY <1>2, <2>2, SeqIs
<1>4. Chain(check_points')
  <2>1. b \in 0 .. (Len(check_points) - 1)
    BY <1>2
  <2>2. QED
    BY <1>1, <1>2, <2>1, SuffixChain
<1>5. /\ check_points[b].end_tid \in Nat
      /\ check_points[b].end_tid + Interval <= tid - 1
  <2>1. b \in DOMAIN check_points /\ b < n
    BY <1>2
  <2>2. QED
    BY <1>1, <2>1, EndsBefore
<1>6. check_points[b + 1].start_tid = check_points[b].end_tid + 1
  BY <1>2 DEF Chain
<1>7. check_points[n].end_tid = tid - 1 - (tid % Interval)
  <2>1. check_points # << >>
    BY <1>2, SeqIs
  <2>2. QED
    BY <1>1, <2>1 DEF Blocks
<1>8. tid - m = check_points[b].end_tid + 1
  <2>1. m # 0
    BY <1>2, <1>5
  <2>2. Head(data_set).id = tid - m
    <3>1. data_set[1].id = tid - m
      BY <1>2, <2>1
    <3>2. Head(data_set) = data_set[1]
      BY <1>2, <2>1
    <3>3. QED
      BY <3>1, <3>2
  <2> HIDE DEF m
  <2>3. QED
    BY <1>1, <1>2, <1>5, <2>1, <2>2
<1> HIDE DEF n, m
<1>9. StateType'
  BY <1>1, <1>3 DEF StateType, Phases
<1>10. Window'
  BY <1>1 DEF Window
<1>11. Blocks'
  <2>1. check_points'[1].start_tid = tid' - Len(data_set')
    <3>1. 1 \in 1 .. (n - b) /\ 1 + b = b + 1
      BY <1>2
    <3>2. check_points'[1] = check_points[b + 1]
      BY <1>3, <3>1
    <3>3. QED
      BY <1>1, <1>6, <1>8, <3>2 DEF m
  <2>2. check_points'[Len(check_points')].end_tid = tid' - 1 - (tid' % Interval)
    <3>1. n - b \in 1 .. (n - b) /\ (n - b) + b = n
      BY <1>2
    <3>2. check_points'[n - b] = check_points[n]
      BY <1>3, <3>1
    <3>3. QED
      BY <1>1, <1>3, <1>7, <3>2
  <2>3. QED
    BY <1>3, <1>4, <2>1, <2>2 DEF Blocks
<1>12. Control'
  <2>1. exp_cap' = 1 /\ 1 \in 1 .. (2 * tid' + 1)
    BY <1>1, <1>2 DEF Control
  <2>2. QED
    BY <1>1, <2>1 DEF Control
<1>13. Counts'
  <2>1. ASSUME NEW k \in DOMAIN check_points'
        PROVE  CountsUpTo(check_points'[k].frequency_table, data_set',
                          check_points'[k].end_tid)
    <3>1. k + b \in DOMAIN check_points /\ k + b > b
      BY <1>2, <1>3
    <3>2. check_points'[k] = check_points[k + b]
      BY <1>3
    <3>3. QED
      BY <1>1, <3>1, <3>2 DEF Counts
  <2>2. QED
    BY <1>1, <2>1 DEF Counts
<1>14. HistogramInv'
  <2>1. SUFFICES ASSUME adaptive, method # "progressive"
                 PROVE  Arranging(check_points', NoThird, 1)
    BY <1>1 DEF HistogramInv
  <2>2. Arranging(check_points, NoThird, 1)
    BY <1>1, <2>1 DEF HistogramInv
  <2>3. b \in 0 .. (Len(check_points) - 1)
    BY <1>2 DEF n
  <2>4. QED
    BY <1>1, <1>2, <2>2, <2>3, ArrangingSuffix DEF n
<1>15. QED
  BY <1>9, <1>10, <1>11, <1>12, <1>13, <1>14 DEF IInv
-----------------------------------------------------------------------------
(* The inductive invariant.                                                *)

(* Every step keeps it.                                                    *)
LEMMA StepKeeps == IInv /\ [Next]_vars => IInv'
<1> SUFFICES ASSUME IInv, [Next]_vars PROVE IInv'
  OBVIOUS
<1>1. ASSUME NEW items \in setup.lines, Add(items) PROVE IInv'
  BY <1>1, AddWithin, AddCheckPoint
<1>2. CASE EndOfStream
  BY <1>2, EndOfStreamStep
<1>3. CASE Arrange
  BY <1>3, ArrangeStep
<1>4. CASE Unstable
  BY <1>4, UnstableStep
<1>5. CASE Stable
  BY <1>5, StableStep
<1>6. CASE Alike
  BY <1>6, AlikeStep
<1>7. CASE NoDrift
  BY <1>7, NoDriftStep
<1>8. CASE PurgeTransaction
  BY <1>8, PurgeTransactionStep
<1>9. CASE PurgeEnd
  BY <1>9, PurgeEndStep
<1>10. CASE UNCHANGED vars
  BY <1>10 DEF vars, IInv, StateType, Window, Blocks, Control, Counts,
               HistogramInv, adaptive, method
<1>11. QED
  BY <1>1, <1>2, <1>3, <1>4, <1>5, <1>6, <1>7, <1>8, <1>9, <1>10
     DEF Next, Terminated

(* So it is an invariant.                                                  *)
LEMMA Invariance == Spec => []IInv
BY Initially, StepKeeps, PTL DEF Spec
-----------------------------------------------------------------------------
(* What it implies.                                                        *)

(* The types follow.                                                       *)
LEMMA ImpliesTypeOK == IInv => TypeOK
<1> SUFFICES ASSUME IInv PROVE TypeOK
  OBVIOUS
<1> DEFINE n == Len(check_points)
           m == Len(data_set)
           top == setup.length
<1>1. StateType /\ Window /\ Blocks /\ Control
  BY DEF IInv
<1>2. /\ n \in Nat /\ DOMAIN check_points = 1 .. n
      /\ m \in Nat /\ DOMAIN data_set = 1 .. m
      /\ tid \in Nat /\ top \in Nat /\ tid <= top
      /\ data_set \in Seq(TransactionType) /\ check_points \in Seq(CheckPointType)
      /\ method \in AllMethods /\ pc \in Phases
  BY <1>1, StateIs, SetupIs DEF StateType
<1>3. data_set \in Seq([id : 0 .. top, items : Transactions])
  <2>1. data_set = [k \in 1 .. m |-> data_set[k]]
    BY <1>2
  <2>2. ASSUME NEW k \in 1 .. m
        PROVE  data_set[k] \in [id : 0 .. top, items : Transactions]
    <3>1. data_set[k] \in TransactionType
      BY <1>2
    <3>2. data_set[k].id \in Nat /\ data_set[k].id <= tid - 1
      BY <1>1, <1>2, WindowIsBefore
    <3>3. data_set[k].id \in 0 .. top
      BY <1>2, <3>2
    <3>4. QED
      BY <3>1, <3>3 DEF TransactionType
  <2> HIDE DEF m, top
  <2>3. QED
    BY <1>2, <2>1, <2>2, SeqMade
<1>4. check_points \in Seq([start_tid : 0 .. top, end_tid : 0 .. top,
                            frequency_table : Tables])
  <2>1. check_points = [k \in 1 .. n |-> check_points[k]]
    BY <1>2
  <2>2. ASSUME NEW k \in 1 .. n
        PROVE  check_points[k] \in [start_tid : 0 .. top, end_tid : 0 .. top,
                                    frequency_table : Tables]
    <3>1. check_points[k] \in CheckPointType
      BY <1>2
    <3>2. /\ check_points[k].start_tid \in Nat /\ check_points[k].end_tid \in Nat
          /\ check_points[k].end_tid <= tid - 1
          /\ check_points[k].start_tid + Interval <= check_points[k].end_tid + 1
      BY <1>1, <1>2, EndsBefore
    <3>3. Interval \in Nat /\ Interval > 1
      BY IntervalAssumption
    <3>4. check_points[k].start_tid \in 0 .. top /\ check_points[k].end_tid \in 0 .. top
      BY <1>2, <3>2, <3>3
    <3>5. QED
      BY <3>1, <3>4 DEF CheckPointType
  <2> HIDE DEF n, top
  <2>3. QED
    BY <1>2, <2>1, <2>2, SeqMade
<1>5. block_index \in -1 .. (n + 1)
  BY <1>1, <1>2 DEF Control, Phases
<1>6. exp_cap \in 1 .. (2 * top + 1)
  BY <1>1, <1>2 DEF Control
<1>7. QED
  BY <1>1, <1>2, <1>3, <1>4, <1>5, <1>6 DEF TypeOK, StateType

(* The tables are those of the window up to each check point.              *)
LEMMA ImpliesCounts == IInv => TablesAreCumulative
<1> SUFFICES ASSUME IInv PROVE TablesAreCumulative
  OBVIOUS
<1>1. ASSUME NEW last, NEW i PROVE CountUpTo(last, i) = Cardinality(Holding(data_set, last, i))
  BY DEF CountUpTo, Holding
<1>2. Counts
  BY DEF IInv
<1>3. ASSUME NEW k \in Staying, NEW i \in Items
      PROVE  check_points[k].frequency_table[i] = CountUpTo(check_points[k].end_tid, i)
  <2>1. k \in DOMAIN check_points /\ (pc = "purge" => k > block_index)
    BY DEF Staying
  <2>2. QED
    BY <1>1, <1>2, <2>1 DEF Counts, CountsUpTo
<1>4. ASSUME NEW i \in Items PROVE freq[i] = CountUpTo(tid, i)
  BY <1>1, <1>2 DEF Counts, CountsUpTo
<1>5. QED
  BY <1>3, <1>4 DEF TablesAreCumulative

(* While there is a check point the window is not empty.                   *)
LEMMA WindowIsThere ==
  ASSUME StateType, Window, Blocks, Control, check_points # << >>
  PROVE  /\ Len(data_set) > 0
         /\ tid - Len(data_set) <= tid - (tid % Interval) - Interval
         /\ 1 \in DOMAIN data_set
<1> DEFINE n == Len(check_points)
           m == Len(data_set)
           r == tid % Interval
<1>1. /\ n \in Nat \ {0} /\ DOMAIN check_points = 1 .. n
      /\ m \in Nat /\ DOMAIN data_set = 1 .. m
      /\ tid \in Nat /\ r \in Nat /\ Interval \in Nat /\ Interval > 1
  BY StateIs
<1>2. /\ check_points[n].end_tid = tid - 1 - r
      /\ pc # "purge" => check_points[1].start_tid = tid - m
  BY DEF Blocks
<1>3. n \in DOMAIN check_points
  BY <1>1
<1>4. /\ check_points[n].start_tid \in Nat /\ check_points[n].end_tid \in Nat
      /\ check_points[1].start_tid <= check_points[n].start_tid
      /\ check_points[n].start_tid + Interval <= check_points[n].end_tid + 1
  BY <1>3, EndsBefore
<1>5. tid - m <= check_points[n].start_tid
  <2>1. CASE pc # "purge"
    BY <1>2, <1>4, <2>1
  <2>2. CASE pc = "purge"
    <3> DEFINE b == block_index
    <3>1. b \in 1 .. (n - 1) /\ tid - m <= check_points[b].end_tid + 1
      BY <2>2 DEF Control
    <3>2. b \in DOMAIN check_points /\ b < n
      BY <1>1, <3>1
    <3>3. check_points[b].end_tid < check_points[n].start_tid
      BY <1>3, <3>2 DEF Blocks, Chain
    <3>4. check_points[b].end_tid \in Nat
      BY <3>2, EndsBefore
    <3> HIDE DEF n, m, b
    <3>5. QED
      BY <1>1, <1>4, <3>1, <3>3, <3>4
  <2>3. QED
    BY <2>1, <2>2
<1> HIDE DEF n, m, r
<1>6. tid - m <= tid - r - Interval /\ m > 0
  BY <1>1, <1>2, <1>4, <1>5
<1>7. QED
  BY <1>1, <1>6 DEF m, r

(* The check points tile the window.                                       *)
LEMMA ImpliesTiling == IInv => CheckPointsTileWindow
<1> SUFFICES ASSUME IInv PROVE CheckPointsTileWindow
  OBVIOUS
<1> DEFINE m == Len(data_set)
<1>1. StateType /\ Window /\ Blocks /\ Control
  BY DEF IInv
<1>2. /\ m \in Nat /\ DOMAIN data_set = 1 .. m /\ tid \in Nat
      /\ (data_set = << >> <=> m = 0)
      /\ \A k \in 1 .. m : data_set[k].id = tid - m + k - 1
  BY <1>1, StateIs DEF Window
<1> HIDE DEF m
<1>3. ASSUME NEW k \in 1 .. (m - 1) PROVE data_set[k + 1].id = data_set[k].id + 1
  <2>1. k \in 1 .. m /\ k + 1 \in 1 .. m
    BY <1>2
  <2>2. data_set[k].id = tid - m + k - 1 /\ data_set[k + 1].id = tid - m + (k + 1) - 1
    BY <1>2, <2>1
  <2>3. QED
    BY <1>2, <2>1, <2>2
<1>4. data_set # << >> => data_set[m].id = tid - 1
  <2>1. ASSUME data_set # << >> PROVE m \in 1 .. m
    BY <1>2, <2>1
  <2>2. ASSUME data_set # << >> PROVE data_set[m].id = tid - m + m - 1
    BY <1>2, <2>1, <2>2
  <2>3. QED
    BY <1>2, <2>2
<1>5. \A k \in 1 .. (Len(check_points) - 1) :
         check_points[k + 1].start_tid = check_points[k].end_tid + 1
  BY <1>1 DEF Blocks, Chain
<1>6. ASSUME check_points # << >>
      PROVE  /\ check_points[Len(check_points)].end_tid = tid - 1 - (tid % Interval)
             /\ pc # "purge" => check_points[1].start_tid = data_set[1].id
             /\ pc = "purge" => data_set[1].id <= check_points[block_index].end_tid + 1
  <2>1. 1 \in 1 .. m
    BY <1>1, <1>2, <1>6, WindowIsThere
  <2>2. data_set[1].id = tid - m
    BY <1>2, <2>1
  <2>3. QED
    BY <1>1, <1>6, <2>2 DEF Blocks, Control, m
<1>7. QED
  BY <1>3, <1>4, <1>5, <1>6 DEF CheckPointsTileWindow, m

(* The newest block is never purged.                                       *)
LEMMA ImpliesNewest == IInv => NewestBlockStays
<1> SUFFICES ASSUME IInv PROVE NewestBlockStays
  OBVIOUS
<1> DEFINE m == Len(data_set)
           r == tid % Interval
<1>1. StateType /\ Window /\ Blocks /\ Control
  BY DEF IInv
<1>2. /\ m \in Nat /\ DOMAIN data_set = 1 .. m /\ tid \in Nat
      /\ r \in Nat /\ Interval \in Nat /\ Interval > 1
      /\ m <= tid /\ \A k \in 1 .. m : data_set[k].id = tid - m + k - 1
  <2>1. /\ m \in Nat /\ DOMAIN data_set = 1 .. m /\ tid \in Nat
        /\ Interval \in Nat /\ Interval > 1 /\ r \in 0 .. (Interval - 1)
    BY <1>1, StateIs
  <2>2. m <= tid /\ \A k \in 1 .. m : data_set[k].id = tid - m + k - 1
    BY <1>1, <2>1 DEF Window
  <2> HIDE DEF m, r
  <2>3. QED
    BY <2>1, <2>2
<1>3. pc = "purge" => block_index \in 1 .. (Len(check_points) - 1)
  BY <1>1 DEF Control
<1>4. tid >= Interval => check_points # << >>
  <2>1. check_points = << >> => tid < Interval
    BY <1>1 DEF Blocks
  <2> HIDE DEF m, r
  <2>2. QED
    BY <1>2, <2>1
<1>5. ASSUME check_points # << >>
      PROVE  \E k \in DOMAIN data_set : data_set[k].id = tid - r - Interval
  <2>1. tid - m <= tid - r - Interval /\ m > 0
    BY <1>1, <1>5, WindowIsThere
  <2> HIDE DEF m, r
  <2> DEFINE k == m - r - Interval + 1
  <2>2. k \in 1 .. m
    BY <1>2, <2>1
  <2>3. data_set[k].id = tid - m + k - 1
    BY <1>2, <2>2
  <2>4. tid - m + k - 1 = tid - r - Interval
    BY <1>2
  <2> HIDE DEF k
  <2>5. QED
    BY <1>2, <2>2, <2>3, <2>4
<1>6. QED
  BY <1>3, <1>4, <1>5 DEF NewestBlockStays

(* The blocks are an exponential histogram.                                *)
LEMMA ImpliesHistogram == IInv => Histogram
<1> SUFFICES ASSUME IInv, adaptive, method # "progressive",
                    pc \in {"add", "find", "end"}
             PROVE  /\ \A k \in 1 .. (Len(check_points) - 1) :
                         Capacity(check_points[k])
                           \in {Capacity(check_points[k + 1]),
                                2 * Capacity(check_points[k + 1])}
                    /\ \A k \in 1 .. (Len(check_points) - 2) :
                         Capacity(check_points[k]) # Capacity(check_points[k + 2])
                    /\ check_points # << >> =>
                         Capacity(check_points[Len(check_points)]) = 1
  BY DEF Histogram
<1>1. Arranging(check_points, NoThird, 1)
  BY DEF IInv, HistogramInv
<1>2. \A k \in 1 .. (Len(check_points) - 2) : k # NoThird
  BY DEF NoThird
<1>3. QED
  BY <1>1, <1>2 DEF Arranging
-----------------------------------------------------------------------------
(* The theorems.                                                           *)

(* Every variable keeps its type: ids stay below the length of the stream, *)
(* and block_index never leaves the check points by more than the -1 of an *)
(* unsuccessful search.                                                    *)
THEOREM TypeCorrect == Spec => []TypeOK
BY Invariance, ImpliesTypeOK, PTL

(* However the stream runs, whatever was merged and purged, each remaining *)
(* check point's table, and the tree's own, counts the transactions of the *)
(* window up to its end.                                                   *)
THEOREM TablesCount == Spec => []TablesAreCumulative
BY Invariance, ImpliesCounts, PTL

(* The check points cut the window without gap or overlap.                 *)
THEOREM CheckPointsTile == Spec => []CheckPointsTileWindow
BY Invariance, ImpliesTiling, PTL

(* No purge takes the newest block.                                        *)
THEOREM NewestBlockKept == Spec => []NewestBlockStays
BY Invariance, ImpliesNewest, PTL

(* arrangeCheckPoints keeps the adaptive window an exponential histogram.  *)
THEOREM HistogramKept == Spec => []Histogram
BY Invariance, ImpliesHistogram, PTL
=============================================================================
