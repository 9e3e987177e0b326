--------------------------- MODULE VariableWindow ---------------------------
(***************************************************************************)
(* The data set of the drift detector (src/VariableWindowDataSet.cpp): a   *)
(* queue of transactions, and for every item a tid list, cut in chunks of  *)
(* ChunkSize bits (128 in the code).  A list reaches only as far as the    *)
(* last transaction that has its item.  Popped transactions leave their    *)
(* bits one by one; with the last one of the first chunk this chunk leaves *)
(* all lists at once, and all bits move down.                              *)
(***************************************************************************)
EXTENDS Integers, Sequences, FiniteSets

CONSTANTS
  NumItems,   (* Bound: the number of different items.                     *)
  ChunkSize,  (* chunk_size.                                               *)
  TidMod,     (* TransactionId is unsigned: it wraps at TidMod.            *)
  MaxLen      (* Bound: the transactions in the window.                    *)

ASSUME ItemsAssumption == NumItems \in Nat \ {0}
ASSUME ChunkAssumption == ChunkSize \in Nat \ {0} /\ MaxLen \in Nat \ {0}
(* The window is much shorter than 2^32 transactions.                      *)
ASSUME TidAssumption == TidMod \in Nat /\ MaxLen + ChunkSize <= TidMod

VARIABLES
  nextTid,                  (* The number of the stream's next transaction. *)
  transactions,             (* The queue, the oldest first.                 *)
  index,                    (* Item -> its tid list: a sequence of chunks,  *)
                            (* each the set of its bits.                    *)
  first_chunk_start_tid,    (* The number of bit 0 of the first chunks.     *)
  first_chunk_start_offset, (* The first bit still in use in these.         *)
  answer                    (* What the last Count returned, and for what.  *)

vars == <<nextTid, transactions, index, first_chunk_start_tid,
          first_chunk_start_offset, answer>>

Ids == 1 .. NumItems
Bits == 0 .. (ChunkSize - 1)
Tids == 0 .. (TidMod - 1)

Contents == [n \in DOMAIN transactions |-> transactions[n].items]

Abstract == INSTANCE TransactionWindow WITH window <- Contents

Itemsets == (SUBSET Ids) \ {{}}

(* vec, made long enough to have position size, counted from 0.            *)
EnsureCapacity(vec, size, fill) ==
  [k \in 1 .. (IF Len(vec) < size + 1 THEN size + 1 ELSE Len(vec)) |->
     IF k <= Len(vec) THEN vec[k] ELSE fill]

(* The item of the transaction that was numbered last.                     *)
Latest(items) == CHOOSE i \in items : \A j \in items : j <= i

(* Mutant: the bit is where the number itself says, not its distance from  *)
(* the first chunk's start.                                                *)
OffsetFromZero(tid) == tid

(* The position of a transaction in the lists, in unsigned arithmetic.     *)
Offset(tid) == (tid - first_chunk_start_tid) % TidMod

(* Mutant: the longest list of S is taken.                                 *)
ShortestIsLongest(S) ==
  CHOOSE i \in S : \A j \in S : Len(index[i]) >= Len(index[j])

(* The item of S whose tid list is the shortest.                           *)
Shortest(S) ==
  CHOOSE i \in S : \A j \in S : Len(index[i]) <= Len(index[j])

(* The shortest list, with all others ANDed in as far as they go.  An item *)
(* the index has no list for does not occur.                               *)
Count(S) ==
  IF \E i \in S : i > Len(index) THEN 0
  ELSE Cardinality({p \in (DOMAIN index[Shortest(S)]) \X Bits :
                      \A i \in S : p[1] \in DOMAIN index[i] => p[2] \in index[i][p[1]]})

(* Item::Init numbers the items in the order of their first appearance.    *)
Interned(items) == \A i \in items : \A j \in 1 .. i : j \in items \/ j <= Len(index)
-----------------------------------------------------------------------------
Init ==
  /\ nextTid = 0
  /\ transactions = << >>
  /\ index = << >>
  /\ first_chunk_start_tid = 0
  /\ first_chunk_start_offset = 0
  /\ answer = [query |-> {}, count |-> 0]

(* StructuralStreamDriftDetector::Add appends a transaction.               *)
AppendTransaction(items) ==
  /\ Len(transactions) < MaxLen
  /\ Interned(items)
  /\ LET chunk_idx == Offset(nextTid) \div ChunkSize
         bit_num   == Offset(nextTid) % ChunkSize
         rows      == EnsureCapacity(index, Latest(items) - 1, << >>)
         list(i)   == EnsureCapacity(rows[i], chunk_idx, {})
     IN index' = [i \in DOMAIN rows |->
                    IF i \in items
                    THEN [list(i) EXCEPT ![chunk_idx + 1] = @ \cup {bit_num}]
                    ELSE rows[i]]
  /\ transactions' = Append(transactions, [id |-> nextTid, items |-> items])
  /\ nextTid' = (nextTid + 1) % TidMod
  /\ UNCHANGED <<first_chunk_start_tid, first_chunk_start_offset, answer>>

Front == transactions[1]

(* Mutant: the transaction's bits stay behind.                             *)
PopBitKeepsBits ==
  /\ transactions # << >>
  /\ first_chunk_start_offset + 1 < ChunkSize
  /\ first_chunk_start_offset' = first_chunk_start_offset + 1
  /\ transactions' = Tail(transactions)
  /\ UNCHANGED <<nextTid, index, first_chunk_start_tid, answer>>

(* Pop inside the first chunk: the transaction's bits are cleared.         *)
PopBit ==
  /\ transactions # << >>
  /\ first_chunk_start_offset + 1 < ChunkSize
  /\ LET bit_num == Offset(Front.id) % ChunkSize
     IN index' = [i \in DOMAIN index |->
                    IF i \in Front.items THEN [index[i] EXCEPT ![1] = @ \ {bit_num}]
                    ELSE index[i]]
  /\ first_chunk_start_offset' = first_chunk_start_offset + 1
  /\ transactions' = Tail(transactions)
  /\ UNCHANGED <<nextTid, first_chunk_start_tid, answer>>

(* Mutant: only the lists of the transaction's items lose the chunk.       *)
PopChunkOfItsItems ==
  /\ transactions # << >>
  /\ ~(first_chunk_start_offset + 1 < ChunkSize)
  /\ index' = [i \in DOMAIN index |->
                 IF i \in Front.items THEN Tail(index[i]) ELSE index[i]]
  /\ first_chunk_start_offset' = 0
  /\ first_chunk_start_tid' = (first_chunk_start_tid + ChunkSize) % TidMod
  /\ transactions' = Tail(transactions)
  /\ UNCHANGED <<nextTid, answer>>

(* Pop of the last transaction in the first chunk: every list that is not  *)
(* empty loses this chunk.                                                 *)
PopChunk ==
  /\ transactions # << >>
  /\ ~(first_chunk_start_offset + 1 < ChunkSize)
  /\ index' = [i \in DOMAIN index |->
                 IF Len(index[i]) > 0 THEN Tail(index[i]) ELSE index[i]]
  /\ first_chunk_start_offset' = 0
  /\ first_chunk_start_tid' = (first_chunk_start_tid + ChunkSize) % TidMod
  /\ transactions' = Tail(transactions)
  /\ UNCHANGED <<nextTid, answer>>

(* Mining counts an itemset.                                               *)
Ask(S) ==
  /\ answer' = [query |-> S, count |-> Count(S)]
  /\ UNCHANGED <<nextTid, transactions, index, first_chunk_start_tid,
                 first_chunk_start_offset>>

Next ==
  \/ \E items \in Itemsets : AppendTransaction(items)
  \/ PopBit
  \/ PopChunk
  \/ \E S \in Itemsets : Ask(S)

Spec == Init /\ [][Next]_vars
-----------------------------------------------------------------------------
(* Every variable has its type, and a list never goes beyond the chunk of  *)
(* the newest transaction, however many were popped.                       *)
TypeOK ==
  /\ nextTid \in Tids /\ first_chunk_start_tid \in Tids
  /\ first_chunk_start_offset \in Bits
  /\ transactions \in Seq([id : Tids, items : Itemsets])
  /\ Len(transactions) <= MaxLen
  /\ index \in Seq(Seq(SUBSET Bits)) /\ Len(index) <= NumItems
  /\ \A i \in DOMAIN index :
       ChunkSize * (Len(index[i]) - 1) < first_chunk_start_offset + Len(transactions)
  /\ answer \in [query : SUBSET Ids, count : 0 .. MaxLen]

(* The bits that are set are those of the transactions in the queue and no *)
(* others, although no list knows how far it reaches and all are shifted   *)
(* by Pop: the bit of transaction n is n - 1 bits after the first in use.  *)
IndexIsWindow ==
  /\ \A n \in DOMAIN transactions : transactions[n].items \subseteq DOMAIN index
  /\ \A i \in DOMAIN index : \A k \in DOMAIN index[i] : \A b \in Bits :
       b \in index[i][k] <=>
         \E n \in DOMAIN transactions :
           /\ first_chunk_start_offset + n - 1 = ChunkSize * (k - 1) + b
           /\ i \in transactions[n].items
  /\ \A i \in DOMAIN index : \A n \in DOMAIN transactions :
       i \in transactions[n].items =>
         first_chunk_start_offset + n <= ChunkSize * Len(index[i])

(* What Pop asserts of the transaction it is about to remove, and relies   *)
(* on where it does not assert it: its number is that of the first bit in  *)
(* use, also after the numbers have wrapped, and this bit is set.          *)
FrontHasFirstBit ==
  transactions # << >> =>
    /\ Offset(Front.id) = first_chunk_start_offset
    /\ \A i \in Front.items : first_chunk_start_offset \in index[i][1]

(* The chunked lists are a window of variable length: Append and Pop are   *)
(* its two ends, and every Count is the count over the queue.              *)
ImplementsTransactionWindow == Abstract!Spec
=============================================================================
