---------------------------- MODULE DDTreeProofs ----------------------------
(***************************************************************************)
(* Proofs about DDTree for every interval to start from, drift threshold,  *)
(* cp-sort-interval and set of similarities.                               *)
(***************************************************************************)
EXTENDS DDTree, TLAPS

(* The extrapolation functor counts with DDTree, to the same interval; so  *)
(* it sorts its tree in the callback in which DDTree keeps its nodes.      *)
ExtrapInStep ==
  /\ extrap = [count |-> count, windowSize |-> windowSize]
  /\ extrap_vd = [unsorted |-> 0, age |-> count]

(* So does the CP functor, if it starts from the same interval.            *)
CpInStep ==
  cpSortInterval = mBlockSize =>
    cp = [count |-> count, interval |-> windowSize] /\ cp_vd = 0

IInv == TypeOK /\ ExtrapInStep /\ CpInStep /\ VerdictsCompareMeasured
-----------------------------------------------------------------------------
(* Numbers.                                                                *)

(* A modulus above 0 that all intervals are below.                         *)
LEMMA Sizes ==
  /\ mBlockSize \in Nat \ {0} /\ MaxWindow \in Nat \ {0} /\ Wrap \in Nat \ {0}
  /\ mBlockSize <= MaxWindow /\ MaxWindow < Wrap
  /\ 0 \in 0 .. (Wrap - 1)
BY IntervalAssumption

(* A remainder is a number below the modulus, and small numbers are their  *)
(* own remainders.                                                         *)
LEMMA Wrapped ==
  ASSUME NEW n \in Int
  PROVE  /\ n % Wrap \in 0 .. (Wrap - 1)
         /\ n \in 0 .. (Wrap - 1) => n % Wrap = n
BY Sizes

(* One more transaction: the next number, 0 at the interval's end.         *)
LEMMA SortEveryIs ==
  ASSUME NEW n \in 0 .. (Wrap - 1), NEW interval \in 0 .. (Wrap - 1)
  PROVE  /\ SortEvery(interval, n) \in 0 .. (Wrap - 1)
         /\ n < interval =>
              SortEvery(interval, n) = IF n + 1 = interval THEN 0 ELSE n + 1
<1>1. (n + 1) % Wrap \in 0 .. (Wrap - 1)
  BY Wrapped, Sizes
<1>2. n < interval => (n + 1) % Wrap = n + 1
  BY Wrapped, Sizes
<1>3. QED
  BY <1>1, <1>2, Sizes DEF SortEvery

(* A change that is no drift never takes the whole interval away.          *)
LEMMA ChangeLeavesSome ==
  ASSUME NEW d \in -99 .. 99, NEW w \in Nat \ {0}
  PROVE  /\ IntOfHundredths(d * w) \in Int
         /\ w + IntOfHundredths(d * w) >= 1
<1>1. d * w \in Int /\ d * w >= -(99 * w)
  <2>1. (d + 99) * w >= 0
    OBVIOUS
  <2>2. QED
    BY <2>1
<1> DEFINE p == d * w
<1> HIDE DEF p
<1>2. p \in Int /\ p >= -(99 * w)
  BY <1>1 DEF p
<1>3. IntOfHundredths(p) \in Int /\ w + IntOfHundredths(p) >= 1
  <2>1. CASE p >= 0
    BY <1>2, <2>1 DEF IntOfHundredths
  <2>2. CASE p < 0
    <3>1. -p \in Nat /\ -p <= 99 * w
      BY <1>2, <2>2
    <3>2. (-p) \div 100 \in Nat /\ 100 * ((-p) \div 100) <= -p
      BY <3>1
    <3>3. (-p) \div 100 <= w - 1
      BY <3>1, <3>2
    <3>4. QED
      BY <1>2, <2>2, <3>2, <3>3 DEF IntOfHundredths
  <2>3. QED
    BY <1>2, <2>1, <2>2
<1>4. QED
  BY <1>3 DEF p
-----------------------------------------------------------------------------
(* The invariant and the inner functors.                                   *)

(* What the inner functors' callbacks make of counts in step.              *)
LEMMA Callbacks ==
  ASSUME IInv
  PROVE  LET next == IF count + 1 = windowSize THEN 0 ELSE count + 1
         IN /\ ExtrapLoaded = [count |-> next, windowSize |-> windowSize]
            /\ CpLoaded \in [count : 0 .. (Wrap - 1), interval : 0 .. (Wrap - 1)]
            /\ CpLoaded.interval = cp.interval
            /\ cpSortInterval = mBlockSize =>
                 CpLoaded = [count |-> next, interval |-> windowSize]
<1> DEFINE next == IF count + 1 = windowSize THEN 0 ELSE count + 1
<1>1. /\ count \in 0 .. (Wrap - 1) /\ windowSize \in 0 .. (Wrap - 1)
      /\ count < windowSize
  BY Sizes DEF IInv, TypeOK
<1>2. SortEvery(windowSize, count) = next
  BY <1>1, SortEveryIs
<1>3. ExtrapLoaded = [count |-> next, windowSize |-> windowSize]
  BY <1>2 DEF IInv, ExtrapInStep, ExtrapLoaded
<1>4. /\ cp \in [count : 0 .. (Wrap - 1), interval : 0 .. (Wrap - 1)]
      /\ SortEvery(cp.interval, cp.count) \in 0 .. (Wrap - 1)
  BY SortEveryIs DEF IInv, TypeOK
<1>5. /\ CpLoaded \in [count : 0 .. (Wrap - 1), interval : 0 .. (Wrap - 1)]
      /\ CpLoaded.interval = cp.interval
      /\ CpLoaded.count = SortEvery(cp.interval, cp.count)
  BY <1>4 DEF CpLoaded
<1>6. ASSUME cpSortInterval = mBlockSize
      PROVE  CpLoaded = [count |-> next, interval |-> windowSize]
  BY <1>2, <1>6 DEF IInv, CpInStep, CpLoaded
<1>7. QED
  BY <1>3, <1>5, <1>6

(* Initially the counts are in step.                                       *)
LEMMA InitIInv == Init => IInv
<1> SUFFICES ASSUME Init PROVE IInv
  OBVIOUS
<1>1. cpSortInterval \in 1 .. (Wrap - 1)
  BY IntervalAssumption DEF Init
<1>2. TypeOK
  BY <1>1, Sizes DEF Init, TypeOK, Several
<1>3. QED
  BY <1>2 DEF Init, IInv, ExtrapInStep, CpInStep, VerdictsCompareMeasured

(* A transaction within an interval.                                       *)
LEMMA OnLoadKeeps == ASSUME IInv, OnLoad PROVE IInv'
<1>1. count + 1 \in 0 .. (windowSize - 1)
  BY DEF IInv, TypeOK, OnLoad
<1>2. extrap' = [count |-> count + 1, windowSize |-> windowSize]
  BY Callbacks DEF OnLoad
<1>3. extrap_vd' = [unsorted |-> 0, age |-> count + 1]
  BY DEF IInv, ExtrapInStep, OnLoad
<1>4. ExtrapInStep'
  BY <1>2, <1>3 DEF OnLoad, ExtrapInStep
<1>5. CpInStep'
  BY Callbacks DEF OnLoad, CpInStep, IInv
<1>6. TypeOK'
  BY <1>1, <1>2, <1>3, Callbacks, Sizes DEF OnLoad, TypeOK, IInv
<1>7. QED
  BY <1>4, <1>5, <1>6 DEF IInv, OnLoad, VerdictsCompareMeasured

(* What the end of any interval keeps: both trees have just been sorted.   *)
LEMMA EndOfIntervalGives ==
  ASSUME IInv, EndOfInterval
  PROVE  /\ ExtrapLoaded = [count |-> 0, windowSize |-> windowSize]
         /\ extrap_vd' = [unsorted |-> 0, age |-> 0]
         /\ count' = 0 /\ cpSortInterval' = cpSortInterval
         /\ CpLoaded \in [count : 0 .. (Wrap - 1), interval : 0 .. (Wrap - 1)]
         /\ cpSortInterval = mBlockSize =>
              CpLoaded = [count |-> 0, interval |-> windowSize]
BY Callbacks DEF EndOfInterval

(* At the end of the first interval there is nothing to compare with.      *)
LEMMA FirstKeeps == ASSUME IInv, OnLoadFirst PROVE IInv'
<1>1. EndOfInterval
  BY DEF OnLoadFirst
<1>2. ExtrapInStep' /\ CpInStep'
  BY <1>1, EndOfIntervalGives DEF OnLoadFirst, ExtrapInStep, CpInStep, IInv
<1>3. TypeOK'
  BY <1>1, EndOfIntervalGives, Sizes DEF OnLoadFirst, TypeOK, IInv, Several
<1>4. QED
  BY <1>2, <1>3 DEF IInv, OnLoadFirst, VerdictsCompareMeasured

(* At the end of the second the first similarities are measured.           *)
LEMMA SecondKeeps ==
  ASSUME IInv, NEW sm \in Similarities, OnLoadSecond(sm)
  PROVE  IInv'
<1>1. EndOfInterval
  BY DEF OnLoadSecond
<1>2. ExtrapInStep' /\ CpInStep'
  BY <1>1, EndOfIntervalGives
  DEF OnLoadSecond, Measure, ExtrapInStep, CpInStep, IInv
<1>3. measured' \in 1 .. Several
  BY DEF OnLoadSecond, Saturated, Several, IInv, TypeOK
<1>4. TypeOK'
  BY <1>1, <1>3, EndOfIntervalGives, Sizes
  DEF OnLoadSecond, Measure, TypeOK, IInv, Several
<1>5. QED
  BY <1>2, <1>3, <1>4 DEF IInv, VerdictsCompareMeasured, Several

(* No drift: the three copies of the interval change by the same amount,   *)
(* and one transaction at least stays.                                     *)
LEMMA StableKeeps ==
  ASSUME IInv, NEW sm \in Similarities, OnLoadStable(sm)
  PROVE  IInv'
<1> DEFINE diff == IntOfHundredths((sm - pre_sm) * windowSize)
<1>1. EndOfInterval
  BY DEF OnLoadStable
<1>2. sm \in 0 .. 100 /\ pre_sm \in 0 .. 100
  BY SimilarityAssumption DEF IInv, TypeOK
<1>3. sm - pre_sm \in -99 .. 99
  BY <1>2, SimilarityAssumption DEF OnLoadStable, Drifted
<1>4. diff \in Int /\ windowSize + diff >= 1
  <2>1. windowSize \in Nat \ {0}
    BY DEF IInv, TypeOK
  <2> DEFINE d == sm - pre_sm
  <2>2. d \in -99 .. 99
    BY <1>3
  <2> HIDE DEF d
  <2>3. /\ IntOfHundredths(d * windowSize) \in Int
        /\ windowSize + IntOfHundredths(d * windowSize) >= 1
    BY <2>1, <2>2, ChangeLeavesSome
  <2>4. QED
    BY <2>3 DEF d
<1>5. /\ windowSize' = windowSize + diff
      /\ extrap' = [ExtrapLoaded EXCEPT !.windowSize = @ + diff]
      /\ cp' = [CpLoaded EXCEPT !.interval = (@ + diff) % Wrap]
      /\ windowSize' <= MaxWindow
      /\ cp_vd' = CpLoaded.count /\ pre_sm' = sm
      /\ interval_count' = Saturated(interval_count + 1)
      /\ measured' = Saturated(measured + 1)
  BY DEF OnLoadStable, ChangeInterval, Measure
<1> HIDE DEF diff
<1>6. windowSize' \in 1 .. MaxWindow
  BY <1>4, <1>5, Sizes DEF IInv, TypeOK
<1>7. ExtrapInStep'
  BY <1>1, <1>5, EndOfIntervalGives DEF ExtrapInStep
<1>8. /\ (CpLoaded.interval + diff) % Wrap \in 0 .. (Wrap - 1)
      /\ cpSortInterval = mBlockSize =>
           (CpLoaded.interval + diff) % Wrap = windowSize'
  BY <1>1, <1>4, <1>5, <1>6, EndOfIntervalGives, Wrapped, Sizes DEF IInv, TypeOK
<1>9. CpInStep'
  BY <1>1, <1>5, <1>8, EndOfIntervalGives DEF CpInStep
<1>10. measured' \in 1 .. Several /\ interval_count' \in 0 .. Several
  BY <1>5 DEF Saturated, Several, IInv, TypeOK
<1>11. cp' \in [count : 0 .. (Wrap - 1), interval : 0 .. (Wrap - 1)]
  BY <1>1, <1>5, <1>8, EndOfIntervalGives
<1>12. TypeOK'
  <2> DEFINE w == windowSize'
  <2>1. w \in 1 .. MaxWindow
    BY <1>6
  <2>2. /\ extrap' = [count |-> 0, windowSize |-> w]
        /\ extrap_vd' = [unsorted |-> 0, age |-> 0]
        /\ count' = 0
    BY <1>1, <1>7, EndOfIntervalGives DEF ExtrapInStep
  <2> HIDE DEF w
  <2>3. /\ extrap' \in [count : 0 .. (Wrap - 1), windowSize : 1 .. MaxWindow]
        /\ extrap_vd' \in [unsorted : 0 .. (Wrap - 1), age : 0 .. (w - 1)]
        /\ count' \in 0 .. (w - 1)
    BY <2>1, <2>2, Sizes
  <2>4. cp_vd' \in 0 .. (Wrap - 1)
    BY <1>1, <1>5, EndOfIntervalGives
  <2>5. cpSortInterval' \in CpSortIntervals /\ pre_sm' \in Similarities
    BY <1>1, <1>5, EndOfIntervalGives DEF IInv, TypeOK
  <2>6. measured' \in 0 .. Several
    BY <1>10 DEF Several
  <2>7. QED
    BY <1>6, <1>10, <1>11, <2>3, <2>4, <2>5, <2>6 DEF TypeOK, w
<1>13. QED
  BY <1>7, <1>9, <1>10, <1>12 DEF IInv, VerdictsCompareMeasured, Several

(* Drift: the three intervals are blockSize again.                         *)
LEMMA DriftKeeps ==
  ASSUME IInv, NEW sm \in Similarities, OnLoadDrift(sm)
  PROVE  IInv'
<1>1. EndOfInterval
  BY DEF OnLoadDrift
<1>2. /\ windowSize' = mBlockSize
      /\ extrap' = [count |-> 0, windowSize |-> mBlockSize]
      /\ cp' = [CpLoaded EXCEPT !.interval = mBlockSize]
      /\ cp_vd' = CpLoaded.count /\ pre_sm' = sm
      /\ interval_count' = 1 /\ measured' = 0
  BY <1>1, EndOfIntervalGives DEF OnLoadDrift, initInterval, Measure
<1>3. ExtrapInStep' /\ CpInStep'
  BY <1>1, <1>2, EndOfIntervalGives DEF ExtrapInStep, CpInStep
<1>4. cp' \in [count : 0 .. (Wrap - 1), interval : 0 .. (Wrap - 1)]
  BY <1>1, <1>2, EndOfIntervalGives, Sizes
<1>5. TypeOK'
  BY <1>1, <1>2, <1>4, EndOfIntervalGives, Sizes DEF TypeOK, IInv, Several
<1>6. QED
  BY <1>2, <1>3, <1>5 DEF IInv, VerdictsCompareMeasured

(* Every step keeps the invariant.                                         *)
LEMMA NextIInv == IInv /\ [Next]_vars => IInv'
<1> SUFFICES ASSUME IInv, [Next]_vars PROVE IInv'
  OBVIOUS
<1>1. CASE OnLoad
  BY <1>1, OnLoadKeeps
<1>2. CASE OnLoadFirst
  BY <1>2, FirstKeeps
<1>3. ASSUME NEW sm \in Similarities, OnLoadSecond(sm) PROVE IInv'
  BY <1>3, SecondKeeps
<1>4. ASSUME NEW sm \in Similarities, OnLoadStable(sm) PROVE IInv'
  BY <1>4, StableKeeps
<1>5. ASSUME NEW sm \in Similarities, OnLoadDrift(sm) PROVE IInv'
  BY <1>5, DriftKeeps
<1>6. CASE UNCHANGED vars
  BY <1>6 DEF vars, IInv, TypeOK, ExtrapInStep, CpInStep, VerdictsCompareMeasured
<1>7. QED
  BY <1>1, <1>2, <1>3, <1>4, <1>5, <1>6 DEF Next

(* So it is an invariant.                                                  *)
LEMMA IInvHolds == Spec => []IInv
BY InitIInv, NextIInv, PTL DEF Spec
-----------------------------------------------------------------------------
(* The types, and that no interval is ever out of reach: DDTree's count is *)
(* below its interval, which is never 0.                                   *)
THEOREM TypeCorrect == Spec => []TypeOK
<1>1. IInv => TypeOK
  BY DEF IInv
<1>2. QED
  BY <1>1, IInvHolds, PTL

(* The CP-tree is compared with the extrapolation of the interval before,  *)
(* taken from a tree that had just been sorted.                            *)
THEOREM ExtrapolationIsFresh == Spec => []ExtrapolationIsOfLastInterval
<1>1. IInv => ExtrapolationIsOfLastInterval
  BY DEF IInv, ExtrapInStep, ExtrapolationIsOfLastInterval
<1>2. QED
  BY <1>1, IInvHolds, PTL

(* With cp-sort-interval equal to blockSize the CP-tree has just been      *)
(* sorted whenever it is compared, however the interval has changed.       *)
THEOREM CpTreeIsSorted == Spec => []CpTreeIsSortedWhenCompared
<1>1. IInv => CpTreeIsSortedWhenCompared
  BY DEF IInv, CpInStep, CpTreeIsSortedWhenCompared
<1>2. QED
  BY <1>1, IInvHolds, PTL

(* A verdict on drift compares two measured similarities.                  *)
THEOREM VerdictsAreMeasured == Spec => []VerdictsCompareMeasured
<1>1. IInv => VerdictsCompareMeasured
  BY DEF IInv
<1>2. QED
  BY <1>1, IInvHolds, PTL
=============================================================================
