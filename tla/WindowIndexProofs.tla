------------------------- MODULE WindowIndexProofs -------------------------
(***************************************************************************)
(* Proofs about WindowIndex for every set of items, window length and      *)
(* chunk width: the types, the recorded chunks, the rows, and from these   *)
(* the counts a functor sees.                                              *)
(***************************************************************************)
EXTENDS WindowIndex, FiniteSetTheorems, NaturalsInduction,
        WellFoundedInduction, TLAPS

-----------------------------------------------------------------------------
(* Numbers.                                                                *)

(* Quotient and remainder of a natural number.                             *)
LEMMA DivMod ==
  ASSUME NEW a \in Nat, NEW n \in Nat \ {0}
  PROVE  /\ a = n * (a \div n) + (a % n)
         /\ a \div n \in Nat
         /\ a % n \in 0 .. (n - 1)
OBVIOUS

(* The representation as quotient and remainder is unique.                 *)
LEMMA DivModUnique ==
  ASSUME NEW n \in Nat \ {0}, NEW p \in Nat, NEW q \in Nat,
         NEW r \in 0 .. (n - 1), NEW s \in 0 .. (n - 1),
         n * p + r = n * q + s
  PROVE  p = q /\ r = s
<1>1. n * (q - p) = r - s
  OBVIOUS
<1>2. q - p <= -1 => n * (q - p) <= -n
  OBVIOUS
<1>3. q - p >= 1 => n * (q - p) >= n
  OBVIOUS
<1>4. p = q
  BY <1>1, <1>2, <1>3
<1>5. QED
  BY <1>1, <1>4

(* The quotient and the remainder under names of their own.                *)
LEMMA DivModExist ==
  ASSUME NEW a \in Nat, NEW n \in Nat \ {0}
  PROVE  \E q \in Nat, r \in 0 .. (n - 1) :
            a = n * q + r /\ a \div n = q /\ a % n = r
BY DivMod

(* A set of natural numbers that is not empty has a least member.          *)
LEMMA LeastExists ==
  ASSUME NEW T \in SUBSET Nat, T # {}
  PROVE  \E n \in T : \A m \in T : n <= m
<1> DEFINE less == {ss \in Nat \X Nat : ss[1] < ss[2]}
<1>1. IsWellFoundedOn(less, Nat)
  BY NatLessThanWellFounded, Zenon DEF OpToRel
<1> HIDE DEF less
<1>2. PICK n \in T : \A m \in T : <<m, n>> \notin less
  BY <1>1, WFMin
<1>3. ASSUME NEW m \in T PROVE n <= m
  <2>1. ~ (m < n)
    BY <1>2 DEF less
  <2>2. QED
    BY <2>1
<1>4. QED
  BY <1>3

-----------------------------------------------------------------------------
(* Arithmetic of the bit positions.                                        *)

(* A transaction and the one L numbers before it have the same bit.        *)
LEMMA SlotOfFront ==
  ASSUME NEW a \in Nat, a >= L
  PROVE  (a - L) % L = a % L
<1>1. L \in Nat \ {0} /\ a - L \in Nat
  BY LengthAssumption
<1>2. PICK q \in Nat, r \in 0 .. (L - 1) : a = L * q + r /\ a % L = r
  BY <1>1, DivModExist
<1>3. PICK p \in Nat, s \in 0 .. (L - 1) : a - L = L * p + s /\ (a - L) % L = s
  BY <1>1, DivModExist
<1>4. L * q + r = L * (p + 1) + s
  BY <1>1, <1>2, <1>3
<1>5. r = s
  BY <1>1, <1>4, DivModUnique
<1>6. QED
  BY <1>2, <1>3, <1>5

(* Two transactions fewer than L numbers apart have different bits.        *)
LEMMA SlotsDiffer ==
  ASSUME NEW a \in Nat, NEW b \in Nat, a < b, b < a + L
  PROVE  a % L # b % L
<1>1. SUFFICES ASSUME a % L = b % L PROVE FALSE
  OBVIOUS
<1> DEFINE p == a \div L
           q == b \div L
<1>2. a = L * p + (a % L) /\ b = L * q + (b % L)
  BY DivMod, LengthAssumption
<1>3. p \in Nat /\ q \in Nat /\ a % L \in Nat /\ b % L \in Nat
  BY DivMod, LengthAssumption
<1> HIDE DEF p, q
<1>4. b - a = L * (q - p)
  BY <1>1, <1>2, <1>3, LengthAssumption
<1>5. q - p <= 0 => L * (q - p) <= 0
  BY <1>3, LengthAssumption
<1>6. q - p >= 1 => L * (q - p) >= L
  BY <1>3, LengthAssumption
<1>7. QED
  BY <1>3, <1>4, <1>5, <1>6, LengthAssumption

(* The chunk and bit of a transaction number lie inside the row.           *)
LEMMA PositionInRow ==
  ASSUME NEW tid \in Nat
  PROVE  GetChunkIndex(tid) \in Chunks /\ GetChunkBitNum(tid) \in Bits
<1>1. PICK s \in 0 .. (L - 1) : tid % L = s
  BY DivModExist, LengthAssumption
<1>2. PICK q \in Nat, r \in 0 .. (W - 1) : s = W * q + r /\ s \div W = q /\ s % W = r
  BY DivModExist, LengthAssumption
<1>3. PICK p \in Nat, t \in 0 .. (W - 1) : L = W * p + t /\ L \div W = p
  BY DivModExist, LengthAssumption
<1>4. W * (q - p) + (r - t) <= -1
  BY <1>2, <1>3, LengthAssumption
<1>5. q - p >= 1 => W * (q - p) >= W
  BY LengthAssumption
<1>6. q <= p
  BY <1>4, <1>5, LengthAssumption
<1>7. QED
  BY <1>1, <1>2, <1>3, <1>6 DEF GetChunkIndex, GetChunkBitNum, Chunks, Bits

(* Chunk and bit together determine the slot of a transaction.             *)
LEMMA PositionsDiffer ==
  ASSUME NEW a \in Nat, NEW b \in Nat,
         GetChunkIndex(a) = GetChunkIndex(b),
         GetChunkBitNum(a) = GetChunkBitNum(b)
  PROVE  a % L = b % L
<1>1. a % L \in Nat /\ b % L \in Nat
  BY DivMod, LengthAssumption
<1>2. /\ a % L = W * ((a % L) \div W) + ((a % L) % W)
      /\ b % L = W * ((b % L) \div W) + ((b % L) % W)
  BY <1>1, DivMod, LengthAssumption
<1>3. QED
  BY <1>2 DEF GetChunkIndex, GetChunkBitNum

(* A number below TidMod does not wrap.                                    *)
LEMMA NoWrap ==
  ASSUME NEW t \in 0 .. (TidMod - 1)
  PROVE  t % TidMod = t
BY TidAssumption
-----------------------------------------------------------------------------
(* Set changes one chunk of one row, and records it when it must.          *)
LEMMA SetEffect ==
  ASSUME NEW tid \in Nat, NEW item \in Items, NEW value \in BOOLEAN,
         TypeOK, ActiveChunksExact, Set(tid, item, value)
  PROVE  /\ mIndex' \in [Items -> [Chunks -> SUBSET Bits]]
         /\ mActiveChunks' \in [Items -> SUBSET Chunks]
         /\ ActiveChunksExact'
         /\ \A other \in Items, c \in Chunks, b \in Bits :
              b \in mIndex'[other][c] <=>
                IF /\ other = item
                   /\ c = GetChunkIndex(tid)
                   /\ b = GetChunkBitNum(tid)
                THEN value
                ELSE b \in mIndex[other][c]
<1> DEFINE ci == GetChunkIndex(tid)
           bn == GetChunkBitNum(tid)
           before == mIndex[item][ci]
           after == IF value THEN before \cup {bn} ELSE before \ {bn}
<1>1. ci \in Chunks /\ bn \in Bits
  BY PositionInRow
<1>2. mIndex \in [Items -> [Chunks -> SUBSET Bits]]
      /\ mActiveChunks \in [Items -> SUBSET Chunks]
  BY DEF TypeOK
<1>3. mIndex' = [mIndex EXCEPT ![item][ci] = after]
  BY DEF Set
<1>4. IF (before = {} \/ after = {}) /\ before # after
      THEN mActiveChunks' = [mActiveChunks EXCEPT ![item] =
                               IF after # {} THEN @ \cup {ci} ELSE @ \ {ci}]
      ELSE mActiveChunks' = mActiveChunks
  BY DEF Set, MarkChunkUsage
<1>5. mActiveChunks[item] = {c \in Chunks : mIndex[item][c] # {}}
  BY DEF ActiveChunksExact
<1>6. before \in SUBSET Bits /\ after \in SUBSET Bits
  BY <1>1, <1>2
<1> HIDE DEF ci, bn, after
<1>7. mIndex' \in [Items -> [Chunks -> SUBSET Bits]]
  BY <1>1, <1>2, <1>3, <1>6
<1>8. mActiveChunks' \in [Items -> SUBSET Chunks]
  BY <1>1, <1>2, <1>4
<1>9. \A c \in Chunks : mIndex'[item][c] = IF c = ci THEN after ELSE mIndex[item][c]
  BY <1>1, <1>2, <1>3
<1>10. \A other \in Items \ {item} : /\ mIndex'[other] = mIndex[other]
                                     /\ mActiveChunks'[other] = mActiveChunks[other]
  BY <1>2, <1>3, <1>4
<1>11. mActiveChunks'[item] = {c \in Chunks : mIndex'[item][c] # {}}
  <2>1. CASE (before = {} \/ after = {}) /\ before # after
    <3>1. mActiveChunks'[item] = IF after # {} THEN mActiveChunks[item] \cup {ci}
                                               ELSE mActiveChunks[item] \ {ci}
      BY <1>2, <1>4, <2>1
    <3>2. QED
      BY <1>1, <1>5, <1>9, <3>1
  <2>2. CASE ~((before = {} \/ after = {}) /\ before # after)
    <3>1. mActiveChunks'[item] = mActiveChunks[item]
      BY <1>4, <2>2
    <3>2. before = {} <=> after = {}
      BY <2>2
    <3>3. QED
      BY <1>1, <1>5, <1>9, <3>1, <3>2
  <2>3. QED
    BY <2>1, <2>2
<1>12. ActiveChunksExact'
  BY <1>10, <1>11 DEF ActiveChunksExact
<1>13. ASSUME NEW other \in Items, NEW c \in Chunks, NEW b \in Bits
       PROVE  b \in mIndex'[other][c] <=>
                IF other = item /\ c = ci /\ b = bn THEN value
                ELSE b \in mIndex[other][c]
  BY <1>9, <1>10, <1>13 DEF after
<1>14. QED
  BY <1>7, <1>8, <1>12, <1>13 DEF ci, bn
-----------------------------------------------------------------------------
(* A count is a natural number.                                            *)
LEMMA CountIsNat ==
  ASSUME TypeOK, NEW S \in Transactions, Sparsest(S) \in S
  PROVE  Count(S) \in Nat
<1>1. IsFiniteSet(Chunks \X Bits)
  <2>1. 0 \in Int /\ L \div W \in Int /\ W - 1 \in Int
    BY DivMod, LengthAssumption
  <2>2. IsFiniteSet(Chunks) /\ IsFiniteSet(Bits)
    BY <2>1, FS_Interval DEF Chunks, Bits
  <2>3. QED
    BY <2>2, FS_Product
<1>2. Sparsest(S) \in Items
  BY DEF Transactions
<1>3. mActiveChunks[Sparsest(S)] \subseteq Chunks
  BY <1>2 DEF TypeOK
<1>4. {p \in mActiveChunks[Sparsest(S)] \X Bits :
          \A item \in S : p[2] \in mIndex[item][p[1]]} \in SUBSET (Chunks \X Bits)
  BY <1>3
<1>5. QED
  BY <1>1, <1>4, FS_Subset, FS_CardinalityType DEF Count

(* Among the items of an itemset there is one with the fewest recorded     *)
(* chunks, so that Count's search for the sparsest item finds one.         *)
LEMMA SparsestExists ==
  ASSUME TypeOK, NEW S \in Transactions
  PROVE  /\ Sparsest(S) \in S
         /\ \A other \in S : Cardinality(mActiveChunks[Sparsest(S)])
                                <= Cardinality(mActiveChunks[other])
<1> DEFINE size(item) == Cardinality(mActiveChunks[item])
           sizes == {size(item) : item \in S}
<1>1. S \subseteq Items /\ S # {}
  BY DEF Transactions
<1>2. ASSUME NEW item \in S PROVE size(item) \in Nat
  <2>1. mActiveChunks[item] \in SUBSET Chunks
    BY <1>1 DEF TypeOK
  <2>2. IsFiniteSet(Chunks)
    BY FS_Interval, DivMod, LengthAssumption DEF Chunks
  <2>3. QED
    BY <2>1, <2>2, FS_Subset, FS_CardinalityType
<1>3. sizes \in SUBSET Nat /\ sizes # {}
  BY <1>1, <1>2
<1> HIDE DEF sizes
<1>4. PICK n \in sizes : \A m \in sizes : n <= m
  BY <1>3, LeastExists
<1>5. \A m \in sizes : n <= m
  BY <1>4
<1>6. PICK item \in S : size(item) = n
  BY DEF sizes
<1>7. \A other \in S : size(item) <= size(other)
  BY <1>5, <1>6 DEF sizes
<1>8. QED
  BY <1>7 DEF Sparsest
-----------------------------------------------------------------------------
(* Where Load is determines what the queue and the current transaction     *)
(* look like; without this neither the types nor the rows are inductive.   *)
ControlInv ==
  /\ transactionNum <= MaxTxns
  /\ pc \notin {"read", "end"} =>
       transactionNum < MaxTxns /\ transaction \in Transactions
  /\ Len(mWindow) <= IF pc \in {"set", "load"} THEN transactionNum + 1
                                               ELSE transactionNum
  /\ pc \in {"unload", "clear"} => Full
  /\ pc \in {"set", "load"} => mWindow # << >>
  /\ pc = "clear" => pending # {} /\ pending \subseteq mWindow[1]
  /\ pc = "set" => pending # {} /\ pending \subseteq mWindow[Len(mWindow)]

IInv == TypeOK /\ ControlInv /\ ActiveChunksExact /\ IndexIsWindow

(* The stream ends before its transaction numbers wrap.                    *)
EndsBeforeWrap == MaxTxns < TidMod

(* At the start the queue and the rows are empty.                          *)
LEMMA InitTypes == Init => TypeOK /\ ControlInv /\ ActiveChunksExact
<1> SUFFICES ASSUME Init PROVE TypeOK /\ ControlInv /\ ActiveChunksExact
  OBVIOUS
<1>1. TypeOK
  BY TidAssumption, LengthAssumption
  DEF Init, TypeOK, Phases, Abstract!NoAnswer
<1>2. ControlInv
  BY TidAssumption DEF Init, ControlInv
<1>3. ActiveChunksExact
  BY DEF Init, ActiveChunksExact
<1>4. QED
  BY <1>1, <1>2, <1>3

(* Unsigned subtraction does not wrap when a full window is evicted.       *)
LEMMA FrontNumber ==
  ASSUME TypeOK, ControlInv, Full, pc \in {"unload", "clear", "push"}
  PROVE  FrontTxnNum = transactionNum - L /\ FrontTxnNum \in 0 .. (TidMod - 1)
<1>1. transactionNum - L \in 0 .. (TidMod - 1)
  BY LengthAssumption, TidAssumption DEF TypeOK, ControlInv, Full
<1>2. QED
  BY <1>1, NoWrap DEF FrontTxnNum

(* The types, the control facts and the recorded chunks are preserved by   *)
(* every step, one step of the proof for each action.                      *)
LEMMA NextTypes ==
  ASSUME EndsBeforeWrap, TypeOK, ControlInv, ActiveChunksExact, Next
  PROVE  TypeOK' /\ ControlInv' /\ ActiveChunksExact'
<1> USE DEF TypeOK, ControlInv
<1>1. ASSUME NEW txn \in Transactions, GetNext(txn)
      PROVE  TypeOK' /\ ControlInv' /\ ActiveChunksExact'
  BY <1>1 DEF GetNext, Phases, Full, ActiveChunksExact, Transactions
<1>2. ASSUME EndOfStream PROVE TypeOK' /\ ControlInv' /\ ActiveChunksExact'
  BY <1>2 DEF EndOfStream, Phases, ActiveChunksExact
<1>3. ASSUME NEW S \in Transactions, Ask(S)
      PROVE  TypeOK' /\ ControlInv' /\ ActiveChunksExact'
  <2>1. Count(S) \in Nat
    BY SparsestExists, CountIsNat
  <2>2. answer' \in [query : SUBSET Items, count : Nat]
    BY <1>3, <2>1 DEF Ask, Transactions
  <2>3. QED
    BY <1>3, <2>2 DEF Ask, ActiveChunksExact, Full
<1>4. ASSUME OnUnloadReturns PROVE TypeOK' /\ ControlInv' /\ ActiveChunksExact'
  <2>1. mWindow[1] \in Transactions /\ Head(mWindow) = mWindow[1]
    BY <1>4, LengthAssumption DEF OnUnloadReturns, Full
  <2>2. QED
    BY <1>4, <2>1 DEF OnUnloadReturns, Phases, Full, ActiveChunksExact,
                      Transactions
<1>5. ASSUME NEW item \in Items, ClearBit(item)
      PROVE  TypeOK' /\ ControlInv' /\ ActiveChunksExact'
  <2>1. FrontTxnNum \in Nat
    BY <1>5, FrontNumber DEF ClearBit
  <2>2. /\ mIndex' \in [Items -> [Chunks -> SUBSET Bits]]
        /\ mActiveChunks' \in [Items -> SUBSET Chunks]
        /\ ActiveChunksExact'
    BY <1>5, <2>1, SetEffect DEF ClearBit
  <2>3. QED
    BY <1>5, <2>2 DEF ClearBit, Phases, Full
<1>6. ASSUME Push PROVE TypeOK' /\ ControlInv' /\ ActiveChunksExact'
  <2> DEFINE kept == IF Full THEN Tail(mWindow) ELSE mWindow
  <2>1. /\ kept \in Seq(Transactions)
        /\ Len(kept) = IF Full THEN L - 1 ELSE Len(mWindow)
        /\ Len(kept) < L
    BY LengthAssumption DEF Full
  <2>2. transaction \in Transactions
    BY <1>6 DEF Push
  <2>3. /\ mWindow' \in Seq(Transactions)
        /\ Len(mWindow') = Len(kept) + 1
        /\ mWindow'[Len(mWindow')] = transaction
    BY <1>6, <2>1, <2>2 DEF Push
  <2>4. pending' = transaction /\ pending' # {} /\ pending' \in SUBSET Items
    BY <1>6, <2>2 DEF Push, Transactions
  <2>5. Len(mWindow') <= L /\ Len(mWindow') <= transactionNum + 1
    BY <1>6, <2>1, <2>3, LengthAssumption DEF Push, Full
  <2> HIDE DEF kept
  <2>6. mWindow' # << >>
    BY <2>1, <2>3
  <2>7. QED
    BY <1>6, <2>2, <2>3, <2>4, <2>5, <2>6
    DEF Push, Phases, ActiveChunksExact
<1>7. ASSUME NEW item \in Items, SetBit(item)
      PROVE  TypeOK' /\ ControlInv' /\ ActiveChunksExact'
  <2>1. /\ mIndex' \in [Items -> [Chunks -> SUBSET Bits]]
        /\ mActiveChunks' \in [Items -> SUBSET Chunks]
        /\ ActiveChunksExact'
    <3>1. transactionNum \in Nat
      BY TidAssumption
    <3>2. QED
      BY <1>7, <3>1, SetEffect DEF SetBit
  <2>2. QED
    BY <1>7, <2>1 DEF SetBit, Phases, Full
<1>8. ASSUME OnLoadReturns PROVE TypeOK' /\ ControlInv' /\ ActiveChunksExact'
  <2>1. transactionNum + 1 \in 0 .. (TidMod - 1)
    BY <1>8, TidAssumption DEF OnLoadReturns, EndsBeforeWrap
  <2>2. transactionNum' = transactionNum + 1
    BY <1>8, <2>1, NoWrap DEF OnLoadReturns
  <2>3. transactionNum' <= MaxTxns /\ Len(mWindow) <= transactionNum'
    BY <1>8, <2>2, TidAssumption DEF OnLoadReturns
  <2>4. TypeOK'
    BY <1>8, <2>1, <2>2 DEF OnLoadReturns, Phases
  <2>5. ControlInv'
    BY <1>8, <2>3 DEF OnLoadReturns
  <2>6. QED
    BY <1>8, <2>4, <2>5 DEF OnLoadReturns, ActiveChunksExact
<1>9. QED
  BY <1>1, <1>2, <1>3, <1>4, <1>5, <1>6, <1>7, <1>8 DEF Next
-----------------------------------------------------------------------------
(* The rows.                                                               *)

(* Before any wrap, the transactions in the queue have consecutive         *)
(* numbers that end with the last one pushed.                              *)
LastTid == IF pc \in {"set", "load"} THEN transactionNum ELSE transactionNum - 1

(* The transaction numbers in the queue are consecutive.                   *)
LEMMA TidsAreConsecutive ==
  ASSUME EndsBeforeWrap, TypeOK, ControlInv, NEW i \in DOMAIN mWindow
  PROVE  /\ TidAt(i) = LastTid - Len(mWindow) + i
         /\ TidAt(i) \in Nat
<1>1. i \in 1 .. Len(mWindow)
  BY DEF TypeOK
<1>2. LastTid - Len(mWindow) + i \in 0 .. (TidMod - 1)
  BY <1>1, TidAssumption DEF TypeOK, ControlInv, LastTid, EndsBeforeWrap
<1>3. QED
  BY <1>2, NoWrap DEF TidAt, LastTid

(* Two transactions in the queue never share a bit.                        *)
LEMMA PositionsAreDistinct ==
  ASSUME EndsBeforeWrap, TypeOK, ControlInv,
         NEW i \in DOMAIN mWindow, NEW j \in DOMAIN mWindow, i # j
  PROVE  ~ /\ GetChunkIndex(TidAt(i)) = GetChunkIndex(TidAt(j))
           /\ GetChunkBitNum(TidAt(i)) = GetChunkBitNum(TidAt(j))
<1>1. i \in 1 .. L /\ j \in 1 .. L
  BY LengthAssumption DEF TypeOK
<1>2. /\ TidAt(i) \in Nat /\ TidAt(j) \in Nat
      /\ TidAt(i) - TidAt(j) = i - j
  BY <1>1, TidsAreConsecutive, TidAssumption DEF LastTid, TypeOK
<1>3. TidAt(i) % L # TidAt(j) % L
  <2>1. CASE i < j
    BY <1>1, <1>2, <2>1, SlotsDiffer, LengthAssumption
  <2>2. CASE j < i
    BY <1>1, <1>2, <2>2, SlotsDiffer, LengthAssumption
  <2>3. QED
    BY <1>1, <2>1, <2>2
<1>4. QED
  BY <1>2, <1>3, PositionsDiffer

(* The transaction to be evicted is at the head of the queue, and it and   *)
(* the transaction being loaded have the same bit: Load's assertions.      *)
LEMMA FrontIsHead ==
  ASSUME EndsBeforeWrap, TypeOK, ControlInv, Full,
         pc \in {"unload", "clear", "push"}
  PROVE  /\ 1 \in DOMAIN mWindow
         /\ FrontTxnNum = TidAt(1)
         /\ FrontTxnNum \in Nat
         /\ FrontTxnNum % L = transactionNum % L
<1>1. 1 \in DOMAIN mWindow
  BY LengthAssumption DEF Full, TypeOK
<1>2. FrontTxnNum = transactionNum - L /\ FrontTxnNum \in Nat
  BY FrontNumber, TidAssumption
<1>3. TidAt(1) = transactionNum - L
  BY <1>1, TidsAreConsecutive, LengthAssumption, TidAssumption
  DEF LastTid, Full, TypeOK
<1>4. transactionNum \in Nat /\ transactionNum >= L
  BY <1>2, LengthAssumption, TidAssumption DEF TypeOK
<1>5. QED
  BY <1>1, <1>2, <1>3, <1>4, SlotOfFront

(* What IndexIsWindow says of one bit.                                     *)
Described(item, c, b) ==
  b \in mIndex[item][c] <=>
    \E i \in DOMAIN mWindow : /\ GetChunkIndex(TidAt(i)) = c
                              /\ GetChunkBitNum(TidAt(i)) = b
                              /\ Indexed(i, item)

(* IndexIsWindow, bit by bit.                                              *)
LEMMA IndexIsWindowByBits ==
  /\ IndexIsWindow <=> \A item \in Items, c \in Chunks, b \in Bits :
                         Described(item, c, b)
  /\ IndexIsWindow' <=> \A item \in Items, c \in Chunks, b \in Bits :
                         Described(item, c, b)'
BY DEF IndexIsWindow, Described

(* A step that moves neither the rows nor the numbers of the queue, and    *)
(* changes no verdict of Indexed, keeps the rows described.                *)
LEMMA RowsUntouched ==
  ASSUME IndexIsWindow, mIndex' = mIndex, mWindow' = mWindow,
         \A i \in DOMAIN mWindow :
            /\ TidAt(i)' = TidAt(i)
            /\ \A item \in Items : Indexed(i, item)' <=> Indexed(i, item)
  PROVE  IndexIsWindow'
<1> SUFFICES ASSUME NEW item \in Items, NEW c \in Chunks, NEW b \in Bits
             PROVE  Described(item, c, b)'
  BY IndexIsWindowByBits
<1>1. Described(item, c, b)
  BY IndexIsWindowByBits
<1>2. QED
  BY <1>1 DEF Described, GetChunkIndex, GetChunkBitNum

(* A step that clears (sets) the bit of the transaction at position k in   *)
(* item's row, and changes Indexed for that position and item only, keeps  *)
(* the rows described.                                                     *)
LEMMA RowsAfterSet ==
  ASSUME EndsBeforeWrap, TypeOK, ControlInv, ActiveChunksExact, IndexIsWindow,
         NEW k \in DOMAIN mWindow, NEW item \in Items, NEW value \in BOOLEAN,
         Set(TidAt(k), item, value), mWindow' = mWindow,
         \A i \in DOMAIN mWindow :
            /\ TidAt(i)' = TidAt(i)
            /\ \A other \in Items :
                 Indexed(i, other)' <=> IF i = k /\ other = item THEN value
                                        ELSE Indexed(i, other)
  PROVE  IndexIsWindow'
<1> SUFFICES ASSUME NEW other \in Items, NEW c \in Chunks, NEW b \in Bits
             PROVE  Described(other, c, b)'
  BY IndexIsWindowByBits
<1> DEFINE At(i) == GetChunkIndex(TidAt(i)) = c /\ GetChunkBitNum(TidAt(i)) = b
<1>1. Described(other, c, b)
  BY IndexIsWindowByBits
<1>2. TidAt(k) \in Nat
  BY TidsAreConsecutive
<1>3. b \in mIndex'[other][c] <=>
        IF other = item /\ At(k) THEN value ELSE b \in mIndex[other][c]
  BY <1>2, SetEffect
<1>4. \A i \in DOMAIN mWindow : At(k) /\ At(i) => i = k
  BY PositionsAreDistinct
<1>5. Described(other, c, b)' <=>
        (b \in mIndex'[other][c] <=>
           \E i \in DOMAIN mWindow : At(i) /\ Indexed(i, other)')
  BY DEF Described, GetChunkIndex, GetChunkBitNum
<1>6. b \in mIndex[other][c] <=>
        \E i \in DOMAIN mWindow : At(i) /\ Indexed(i, other)
  BY <1>1 DEF Described
<1> HIDE DEF At
<1>7. CASE other = item /\ At(k)
  BY <1>3, <1>4, <1>5, <1>7
<1>8. CASE ~(other = item /\ At(k))
  BY <1>3, <1>5, <1>6, <1>8
<1>9. QED
  BY <1>7, <1>8

(* Pushing shifts the queue by one if it was full.  The rows stay as they  *)
(* are: the front's bits are gone already, the new ones are still pending. *)
LEMMA RowsAfterPush ==
  ASSUME EndsBeforeWrap, TypeOK, ControlInv, IndexIsWindow, Push,
         TypeOK', ControlInv'
  PROVE  IndexIsWindow'
<1> SUFFICES ASSUME NEW item \in Items, NEW c \in Chunks, NEW b \in Bits
             PROVE  Described(item, c, b)'
  BY IndexIsWindowByBits
<1>1. Described(item, c, b)
  BY IndexIsWindowByBits
<1> DEFINE d == IF Full THEN 1 ELSE 0
           n == Len(mWindow)
<1>2. n \in Nat /\ n <= L /\ d \in {0, 1} /\ (d = 1 <=> n = L)
  BY DEF TypeOK, Full
<1>3. /\ Len(mWindow') = n - d + 1
      /\ \A i \in 1 .. (n - d) : mWindow'[i] = mWindow[i + d]
      /\ mWindow'[n - d + 1] = transaction
  <2> DEFINE kept == IF Full THEN Tail(mWindow) ELSE mWindow
  <2>1. /\ kept \in Seq(Transactions) /\ Len(kept) = n - d
        /\ \A i \in 1 .. (n - d) : kept[i] = mWindow[i + d]
    BY LengthAssumption DEF TypeOK, Full
  <2>2. mWindow' = Append(kept, transaction) /\ transaction \in Transactions
    BY DEF Push, ControlInv
  <2> HIDE DEF kept
  <2>3. QED
    BY <1>2, <2>1, <2>2
<1>4. /\ DOMAIN mWindow = 1 .. n
      /\ DOMAIN mWindow' = 1 .. (n - d + 1)
  BY <1>3 DEF TypeOK
<1>5. /\ LastTid = transactionNum - 1 /\ LastTid' = transactionNum
      /\ transactionNum \in Nat
  BY TidAssumption DEF Push, LastTid, TypeOK
<1> HIDE DEF n, d
<1>6. ASSUME NEW i \in 1 .. (n - d)
      PROVE  /\ TidAt(i)' = TidAt(i + d)
             /\ Indexed(i, item)' <=> Indexed(i + d, item)
  <2>1. i + d \in 1 .. n /\ i \in 1 .. (n - d + 1)
    BY <1>2
  <2>2. TidAt(i + d) = LastTid - n + (i + d)
    BY <1>4, <2>1, TidsAreConsecutive DEF n
  <2>3. TidAt(i)' = LastTid' - Len(mWindow') + i
    <3>1. i \in DOMAIN mWindow'
      BY <1>4, <2>1
    <3>2. transactionNum < TidMod /\ n - d + 1 <= transactionNum + 1
      BY <1>2, TidAssumption DEF Push, ControlInv, EndsBeforeWrap, TypeOK, n
    <3>3. transactionNum - (n - d + 1) + i \in 0 .. (TidMod - 1)
      BY <1>2, <1>5, <2>1, <3>2, TidAssumption
    <3>4. TidAt(i)' = (transactionNum - (n - d + 1) + i) % TidMod
      BY <1>3 DEF TidAt, Push
    <3>5. QED
      BY <1>3, <1>5, <3>3, <3>4, NoWrap
  <2>4. TidAt(i)' = TidAt(i + d)
    BY <1>2, <1>3, <1>5, <2>2, <2>3
  <2>5. Indexed(i, item)' <=> item \in mWindow'[i]
    BY <1>2, <1>3 DEF Indexed, Push
  <2>6. Indexed(i + d, item) <=> item \in mWindow[i + d]
    BY <1>2 DEF Indexed, Push, d
  <2>7. QED
    BY <1>3, <2>4, <2>5, <2>6
<1>7. ASSUME NEW k \in Nat, k = n - d + 1
      PROVE  ~ Indexed(k, item)'
  <2>1. pc' = "set" /\ pending' = transaction
    BY DEF Push
  <2>2. Indexed(k, item)' => item \in transaction /\ item \notin pending'
    BY <1>3, <1>7, <2>1 DEF Indexed
  <2>3. QED
    BY <2>1, <2>2
<1>8. d = 1 => ~ Indexed(1, item)
  BY DEF Indexed, Push, d
<1> DEFINE At(t) == GetChunkIndex(t) = c /\ GetChunkBitNum(t) = b
<1>9. (\E i \in 1 .. (n - d + 1) : At(TidAt(i)') /\ Indexed(i, item)')
      <=> \E i \in 1 .. (n - d) : At(TidAt(i + d)) /\ Indexed(i + d, item)
  <2> HIDE DEF At
  <2>1. \A i \in 1 .. (n - d + 1) : i \in 1 .. (n - d) \/ i = n - d + 1
    BY <1>2
  <2>2. \A i \in 1 .. (n - d) : i \in 1 .. (n - d + 1)
    BY <1>2
  <2>3. \A i \in 1 .. (n - d) : At(TidAt(i)') <=> At(TidAt(i + d))
    BY <1>6
  <2>4. \A i \in 1 .. (n - d) : Indexed(i, item)' <=> Indexed(i + d, item)
    BY <1>6
  <2>5. n - d + 1 \in Nat
    BY <1>2
  <2>6. QED
    BY <1>7, <2>1, <2>2, <2>3, <2>4, <2>5
<1>10. (\E i \in 1 .. n : At(TidAt(i)) /\ Indexed(i, item))
       <=> \E i \in 1 .. (n - d) : At(TidAt(i + d)) /\ Indexed(i + d, item)
  <2> HIDE DEF At
  <2>1. \A i \in 1 .. (n - d) : i + d \in 1 .. n
    BY <1>2
  <2>2. \A i \in 1 .. n : (d = 1 /\ i = 1) \/ (i - d \in 1 .. (n - d) /\ (i - d) + d = i)
    BY <1>2
  <2>3. QED
    BY <1>8, <2>1, <2>2
<1>11. mIndex' = mIndex
  BY DEF Push
<1>12. QED
  BY <1>1, <1>4, <1>9, <1>10, <1>11 DEF Described, GetChunkIndex, GetChunkBitNum

(* The rows stay described through every step.                             *)
LEMMA NextRows ==
  ASSUME EndsBeforeWrap, IInv, Next
  PROVE  IndexIsWindow'
<1> USE DEF IInv
<1>1. TypeOK' /\ ControlInv'
  BY NextTypes
<1>2. ASSUME NEW txn \in Transactions, GetNext(txn) PROVE IndexIsWindow'
  BY <1>2, RowsUntouched DEF GetNext, TidAt, Indexed, Full
<1>3. ASSUME EndOfStream PROVE IndexIsWindow'
  BY <1>3, RowsUntouched DEF EndOfStream, TidAt, Indexed
<1>4. ASSUME NEW S \in Transactions, Ask(S) PROVE IndexIsWindow'
  BY <1>4, RowsUntouched DEF Ask, TidAt, Indexed, Full
<1>5. ASSUME OnUnloadReturns PROVE IndexIsWindow'
  <2>1. pending' = mWindow[1] /\ pc = "unload" /\ pc' = "clear"
    BY <1>5, LengthAssumption DEF OnUnloadReturns, ControlInv, TypeOK, Full
  <2>2. QED
    BY <1>5, <2>1, RowsUntouched DEF OnUnloadReturns, TidAt, Indexed
<1>6. ASSUME NEW item \in Items, ClearBit(item) PROVE IndexIsWindow'
  <2>1. pc = "clear" /\ Full /\ Full'
    BY <1>6 DEF ClearBit, ControlInv, Full
  <2>2. 1 \in DOMAIN mWindow /\ FrontTxnNum = TidAt(1)
    BY <2>1, FrontIsHead
  <2>3. Set(TidAt(1), item, FALSE)
    BY <1>6, <2>2 DEF ClearBit
  <2>4. ASSUME NEW i \in DOMAIN mWindow
        PROVE  /\ TidAt(i)' = TidAt(i)
               /\ \A other \in Items :
                    Indexed(i, other)' <=> IF i = 1 /\ other = item THEN FALSE
                                           ELSE Indexed(i, other)
    <3>1. TidAt(i)' = TidAt(i)
      BY <1>6 DEF ClearBit, TidAt
    <3>2. ASSUME NEW other \in Items
          PROVE  Indexed(i, other)' <=> IF i = 1 /\ other = item THEN FALSE
                                        ELSE Indexed(i, other)
      BY <1>6, <2>1 DEF ClearBit, Indexed, TypeOK
    <3>3. QED
      BY <3>1, <3>2
  <2>5. mWindow' = mWindow
    BY <1>6 DEF ClearBit
  <2>6. QED
    BY <2>2, <2>3, <2>4, <2>5, RowsAfterSet
<1>7. ASSUME Push PROVE IndexIsWindow'
  BY <1>1, <1>7, RowsAfterPush
<1>8. ASSUME NEW item \in Items, SetBit(item) PROVE IndexIsWindow'
  <2> DEFINE n == Len(mWindow)
  <2>1. pc = "set" /\ n \in DOMAIN mWindow /\ item \in mWindow[n]
    BY <1>8 DEF SetBit, ControlInv, TypeOK
  <2>2. TidAt(n) = transactionNum
    BY <2>1, TidsAreConsecutive, TidAssumption DEF LastTid, TypeOK
  <2>3. Set(TidAt(n), item, TRUE)
    BY <1>8, <2>2 DEF SetBit
  <2>4. ASSUME NEW i \in DOMAIN mWindow
        PROVE  /\ TidAt(i)' = TidAt(i)
               /\ \A other \in Items :
                    Indexed(i, other)' <=> IF i = n /\ other = item THEN TRUE
                                           ELSE Indexed(i, other)
    <3>1. TidAt(i)' = TidAt(i)
      BY <1>8 DEF SetBit, TidAt
    <3>2. ASSUME NEW other \in Items
          PROVE  Indexed(i, other)' <=> IF i = n /\ other = item THEN TRUE
                                        ELSE Indexed(i, other)
      BY <1>8, <2>1 DEF SetBit, Indexed, TypeOK
    <3>3. QED
      BY <3>1, <3>2
  <2>5. mWindow' = mWindow
    BY <1>8 DEF SetBit
  <2> HIDE DEF n
  <2>6. QED
    BY <2>1, <2>3, <2>4, <2>5, RowsAfterSet
<1>9. ASSUME OnLoadReturns PROVE IndexIsWindow'
  <2>1. transactionNum' = transactionNum + 1 /\ pc = "load" /\ pc' = "read"
    <3>1. transactionNum + 1 \in 0 .. (TidMod - 1)
      BY <1>9, TidAssumption DEF OnLoadReturns, EndsBeforeWrap, TypeOK, ControlInv
    <3>2. QED
      BY <1>9, <3>1, NoWrap DEF OnLoadReturns
  <2>2. \A i \in DOMAIN mWindow : TidAt(i)' = TidAt(i)
    <3>1. transactionNum \in Int
      BY TidAssumption DEF TypeOK
    <3>2. transactionNum' - 1 = transactionNum
      BY <2>1, <3>1
    <3>3. QED
      BY <1>9, <2>1, <3>2 DEF OnLoadReturns, TidAt
  <2>3. QED
    BY <1>9, <2>1, <2>2, RowsUntouched DEF OnLoadReturns, Indexed
<1>10. QED
  BY <1>2, <1>3, <1>4, <1>5, <1>6, <1>7, <1>8, <1>9 DEF Next

(***************************************************************************)
(* The inductive invariant.  Of the properties it conjoins, only the       *)
(* chunks would be inductive alone: the types need the control facts (a    *)
(* full queue must hold back the next push), and the rows need both.       *)
(***************************************************************************)
THEOREM IInvHolds ==
  ASSUME EndsBeforeWrap
  PROVE  Spec => []IInv
<1>1. Init => IInv
  <2>1. Init => IndexIsWindow
    BY DEF Init, IndexIsWindow
  <2>2. QED
    BY <2>1, InitTypes DEF IInv
<1>2. IInv /\ [Next]_vars => IInv'
  <2>1. ASSUME IInv, Next PROVE IInv'
    BY <2>1, NextTypes, NextRows DEF IInv
  <2>2. ASSUME IInv, UNCHANGED vars PROVE IInv'
    BY <2>2 DEF vars, IInv, TypeOK, ControlInv, ActiveChunksExact, Full,
                IndexIsWindow, Indexed, TidAt
  <2>3. QED
    BY <2>1, <2>2
<1>3. QED
  BY <1>1, <1>2, PTL DEF Spec

(***************************************************************************)
(* Load keeps every variable in its type: in particular no bit or chunk    *)
(* number leaves the row that was allocated for an item.                   *)
(***************************************************************************)
THEOREM TypeCorrect ==
  ASSUME EndsBeforeWrap
  PROVE  Spec => []TypeOK
<1>1. IInv => TypeOK
  BY DEF IInv
<1>2. QED
  BY <1>1, IInvHolds, PTL

(***************************************************************************)
(* MarkChunkUsage: after every bit set or cleared, the chunks recorded for *)
(* an item are exactly the chunks of its row that are not zero.            *)
(***************************************************************************)
THEOREM ActiveChunksAreExact ==
  ASSUME EndsBeforeWrap
  PROVE  Spec => []ActiveChunksExact
<1>1. IInv => ActiveChunksExact
  BY DEF IInv
<1>2. QED
  BY <1>1, IInvHolds, PTL

(***************************************************************************)
(* Load: the rows hold exactly the bits of the transactions in the queue,  *)
(* for every window length, at every point of the loop.                    *)
(***************************************************************************)
THEOREM RowsAreTheWindow ==
  ASSUME EndsBeforeWrap
  PROVE  Spec => []IndexIsWindow
<1>1. IInv => IndexIsWindow
  BY DEF IInv
<1>2. QED
  BY <1>1, IInvHolds, PTL

(* The items that own the bit of the transaction at position k of the      *)
(* queue.                                                                  *)
LEMMA OwnersAre ==
  ASSUME EndsBeforeWrap, IInv, NEW k \in DOMAIN mWindow
  PROVE  OwnersOf(TidAt(k)) = {item \in Items : Indexed(k, item)}
<1> USE DEF IInv
<1> DEFINE c == GetChunkIndex(TidAt(k))
           b == GetChunkBitNum(TidAt(k))
<1>1. c \in Chunks /\ b \in Bits
  BY TidsAreConsecutive, PositionInRow
<1>2. ASSUME NEW item \in Items PROVE Get(TidAt(k), item) <=> Indexed(k, item)
  <2>1. b \in mIndex[item][c] <=>
          \E i \in DOMAIN mWindow : /\ GetChunkIndex(TidAt(i)) = c
                                    /\ GetChunkBitNum(TidAt(i)) = b
                                    /\ Indexed(i, item)
    BY <1>1 DEF IndexIsWindow
  <2>2. \A i \in DOMAIN mWindow :
          GetChunkIndex(TidAt(i)) = c /\ GetChunkBitNum(TidAt(i)) = b => i = k
    BY PositionsAreDistinct
  <2>3. QED
    BY <2>1, <2>2 DEF Get
<1>3. QED
  BY <1>2 DEF OwnersOf

(* Before the push no row has the bit of the number to come.               *)
LEMMA SlotIsFree ==
  ASSUME EndsBeforeWrap, IInv, pc = "push"
  PROVE  OwnersOf(transactionNum) = {}
<1> USE DEF IInv
<1>1. transactionNum \in Nat
  BY TidAssumption DEF TypeOK
<1>2. ASSUME NEW item \in Items, Get(transactionNum, item) PROVE FALSE
  <2> DEFINE c == GetChunkIndex(transactionNum)
             b == GetChunkBitNum(transactionNum)
  <2>1. c \in Chunks /\ b \in Bits
    BY <1>1, PositionInRow
  <2>2. PICK i \in DOMAIN mWindow : /\ GetChunkIndex(TidAt(i)) = c
                                    /\ GetChunkBitNum(TidAt(i)) = b
                                    /\ Indexed(i, item)
    BY <1>2, <2>1 DEF IndexIsWindow, Get
  <2>3. TidAt(i) = transactionNum - 1 - Len(mWindow) + i /\ TidAt(i) \in Nat
    BY TidsAreConsecutive DEF LastTid
  <2>4. TidAt(i) % L = transactionNum % L
    BY <1>1, <2>2, <2>3, PositionsDiffer
  <2>5. i \in 1 .. Len(mWindow) /\ Len(mWindow) \in 0 .. L
    BY LengthAssumption DEF TypeOK
  <2>6. Full /\ i = 1
    <3>1. TidAt(i) < transactionNum
      BY <1>1, <2>3, <2>5
    <3>2. ~ (transactionNum < TidAt(i) + L)
      BY <1>1, <2>3, <2>4, <3>1, SlotsDiffer
    <3>3. QED
      BY <1>1, <2>3, <2>5, <3>2, LengthAssumption DEF Full
  <2>7. QED
    BY <2>2, <2>6 DEF Indexed
<1>3. QED
  BY <1>2 DEF OwnersOf

(***************************************************************************)
(* Load re-uses the front transaction's bit for the new one: the bit is    *)
(* set for just the front's items when it leaves, for none when the new    *)
(* transaction is pushed, and then collects just the new items.            *)
(***************************************************************************)
THEOREM SlotHandedOver ==
  ASSUME EndsBeforeWrap
  PROVE  Spec => []SlotChangesHands
<1>1. IInv => SlotChangesHands
  <2> SUFFICES ASSUME IInv PROVE SlotChangesHands
    OBVIOUS
  <2> USE DEF IInv
  <2>1. ASSUME pc \in {"unload", "clear"}
        PROVE  /\ OwnersOf(FrontTxnNum) = {item \in Items : Indexed(1, item)}
               /\ Head(mWindow) = mWindow[1] /\ mWindow[1] \in SUBSET Items
    <3>1. Full
      BY <2>1 DEF ControlInv
    <3>2. 1 \in DOMAIN mWindow /\ FrontTxnNum = TidAt(1)
      BY <2>1, <3>1, FrontIsHead
    <3>3. QED
      BY <3>2, OwnersAre DEF TypeOK, Transactions
  <2>2. ASSUME pc = "unload" PROVE OwnersOf(FrontTxnNum) = Head(mWindow)
    BY <2>1, <2>2 DEF Indexed
  <2>3. ASSUME pc = "clear" PROVE OwnersOf(FrontTxnNum) = pending
    BY <2>1, <2>3 DEF Indexed, ControlInv
  <2>4. ASSUME pc = "set"
        PROVE  OwnersOf(transactionNum) = mWindow[Len(mWindow)] \ pending
    <3> DEFINE n == Len(mWindow)
    <3>1. n \in DOMAIN mWindow /\ mWindow[n] \in SUBSET Items
      BY <2>4 DEF ControlInv, TypeOK, Transactions
    <3>2. TidAt(n) = transactionNum
      BY <2>4, <3>1, TidsAreConsecutive, TidAssumption DEF LastTid, TypeOK
    <3>3. \A item : Indexed(n, item) <=> item \in mWindow[n] /\ item \notin pending
      BY <2>4 DEF Indexed
    <3> HIDE DEF n
    <3>4. OwnersOf(transactionNum) = mWindow[n] \ pending
      BY <3>1, <3>2, <3>3, OwnersAre
    <3>5. QED
      BY <3>4 DEF n
  <2>5. QED
    BY <2>2, <2>3, <2>4, SlotIsFree DEF SlotChangesHands
<1>2. QED
  BY <1>1, IInvHolds, PTL
-----------------------------------------------------------------------------
(* The counts.                                                             *)

(* At a callback, the bits Count finds are one for each transaction in the *)
(* queue that contains the itemset.                                        *)
LEMMA CountIsExact ==
  ASSUME EndsBeforeWrap, IInv, pc \in Callbacks, NEW S \in Transactions
  PROVE  Count(S) = Abstract!CountIn(mWindow, S)
<1> USE DEF IInv
<1> DEFINE D == {i \in DOMAIN mWindow : S \subseteq mWindow[i]}
           T == {p \in mActiveChunks[Sparsest(S)] \X Bits :
                    \A item \in S : p[2] \in mIndex[item][p[1]]}
           pos(i) == <<GetChunkIndex(TidAt(i)), GetChunkBitNum(TidAt(i))>>
           f == [i \in D |-> pos(i)]
<1>1. S \subseteq Items /\ S # {}
  BY DEF Transactions
<1>2. Sparsest(S) \in S
  BY SparsestExists
<1>3. \A item \in Items, i \in DOMAIN mWindow : Indexed(i, item) <=> item \in mWindow[i]
  BY DEF Indexed, Callbacks
<1>4. ASSUME NEW item \in Items, NEW c \in Chunks, NEW b \in Bits
      PROVE  b \in mIndex[item][c] <=>
               \E i \in DOMAIN mWindow : pos(i) = <<c, b>> /\ item \in mWindow[i]
  BY <1>3 DEF IndexIsWindow
<1>5. ASSUME NEW i \in DOMAIN mWindow
      PROVE  GetChunkIndex(TidAt(i)) \in Chunks /\ GetChunkBitNum(TidAt(i)) \in Bits
  BY TidsAreConsecutive, PositionInRow
<1>6. mActiveChunks[Sparsest(S)] = {c \in Chunks : mIndex[Sparsest(S)][c] # {}}
  BY <1>1, <1>2 DEF ActiveChunksExact
<1>7. ASSUME NEW i \in D PROVE pos(i) \in T
  <2>1. \A item \in S : GetChunkBitNum(TidAt(i)) \in mIndex[item][GetChunkIndex(TidAt(i))]
    BY <1>1, <1>4, <1>5
  <2>2. GetChunkIndex(TidAt(i)) \in mActiveChunks[Sparsest(S)]
    BY <1>2, <1>5, <1>6, <2>1
  <2>3. QED
    BY <1>5, <2>1, <2>2
<1>8. ASSUME NEW i \in D, NEW j \in D, pos(i) = pos(j) PROVE i = j
  BY <1>8, PositionsAreDistinct
<1>9. ASSUME NEW p \in T PROVE \E i \in D : pos(i) = p
  <2>1. PICK c \in Chunks, b \in Bits : p = <<c, b>>
    BY <1>6
  <2>2. \A item \in S : \E i \in DOMAIN mWindow : pos(i) = p /\ item \in mWindow[i]
    BY <1>1, <1>4, <2>1
  <2>3. PICK i \in DOMAIN mWindow : pos(i) = p
    BY <1>1, <2>2
  <2>4. \A j \in DOMAIN mWindow : pos(j) = p => j = i
    BY <2>3, PositionsAreDistinct
  <2>5. S \subseteq mWindow[i]
    BY <2>2, <2>4
  <2>6. QED
    BY <2>3, <2>5
<1>10. IsFiniteSet(D)
  <2>1. IsFiniteSet(1 .. Len(mWindow))
    BY FS_Interval DEF TypeOK
  <2>2. D \in SUBSET (1 .. Len(mWindow))
    BY DEF TypeOK
  <2>3. QED
    BY <2>1, <2>2, FS_Subset
<1> HIDE DEF D, T, pos
<1>11. f \in [D -> T]
  BY <1>7
<1>12. f \in Injection(D, T)
  <2>1. \A i \in D : f[i] = pos(i)
    OBVIOUS
  <2>2. \A i, j \in D : f[i] = f[j] => i = j
    BY <1>8, <2>1
  <2>3. QED
    BY <1>11, <2>2 DEF Injection, IsInjective
<1>13. f \in Surjection(D, T)
  BY <1>9, <1>11 DEF Surjection
<1>14. ExistsBijection(D, T)
  BY <1>12, <1>13 DEF ExistsBijection, Bijection
<1>15. Cardinality(T) = Cardinality(D)
  BY <1>10, <1>14, FS_Bijection
<1>16. Count(S) = Cardinality(T)
  BY DEF Count, T
<1>17. Abstract!CountIn(mWindow, S) = Cardinality(D)
  BY DEF Abstract!CountIn, Abstract!Cardinality, Cardinality, D
<1>18. QED
  BY <1>15, <1>16, <1>17

(***************************************************************************)
(* No functor ever sees a half-updated index: whatever it asks in a        *)
(* callback, Count returns the number of transactions in the queue that    *)
(* contain the itemset.                                                    *)
(***************************************************************************)
THEOREM CallbackCountsAreExact ==
  ASSUME EndsBeforeWrap
  PROVE  Spec => []CallbacksSeeTheWindow
<1>1. IInv => CallbacksSeeTheWindow
  BY CountIsExact DEF CallbacksSeeTheWindow
<1>2. QED
  BY <1>1, IInvHolds, PTL

(***************************************************************************)
(* WindowIndex implements SlidingWindow: Push is Slide, Ask is Ask, and    *)
(* every other step of Load is invisible to a functor.                     *)
(***************************************************************************)
THEOREM Refinement ==
  ASSUME EndsBeforeWrap
  PROVE  Spec => ImplementsSlidingWindow
<1>1. Init => Abstract!Init
  BY DEF Init, Abstract!Init
<1>2. IInv /\ [Next]_vars => [Abstract!Next]_<<mWindow, answer>>
  <2> SUFFICES ASSUME IInv, [Next]_vars
               PROVE  [Abstract!Next]_<<mWindow, answer>>
    OBVIOUS
  <2>1. ASSUME Push PROVE Abstract!Next
    <3>1. transaction \in Abstract!Transactions
      BY <2>1 DEF Push, IInv, ControlInv, Transactions, Abstract!Transactions
    <3>2. Abstract!Slide(transaction)
      BY <2>1 DEF Push, Full, Abstract!Slide
    <3>3. QED
      BY <3>1, <3>2 DEF Abstract!Next
  <2>2. ASSUME NEW S \in Transactions, Ask(S) PROVE Abstract!Next
    <3>1. S \in Abstract!Transactions
      BY DEF Transactions, Abstract!Transactions
    <3>2. Count(S) = Abstract!CountIn(mWindow, S)
      BY <2>2, CountIsExact DEF Ask
    <3>3. Abstract!Ask(S)
      BY <2>2, <3>2 DEF Ask, Abstract!Ask
    <3>4. QED
      BY <3>1, <3>3 DEF Abstract!Next
  <2>3. CASE UNCHANGED vars
    BY <2>3 DEF vars
  <2>4. ASSUME Next, ~ Push, ~ \E S \in Transactions : Ask(S)
        PROVE  UNCHANGED <<mWindow, answer>>
    BY <2>4 DEF Next, GetNext, EndOfStream, OnUnloadReturns, ClearBit, SetBit,
                OnLoadReturns
  <2>5. QED
    BY <2>1, <2>2, <2>3, <2>4
<1>3. QED
  BY <1>1, <1>2, IInvHolds, PTL DEF Spec, ImplementsSlidingWindow, Abstract!Spec
=============================================================================
