---------------------------- MODULE WindowIndex ----------------------------
(***************************************************************************)
(* The inverted bitmap index over the sliding window (src/WindowIndex.cpp) *)
(* and its Load loop, with the functor callbacks that run inside it.       *)
(*                                                                         *)
(* Every item has a row of L bits, cut in chunks of W bits (32 in the      *)
(* code); transaction number t owns bit t % L of every row.  Beside the    *)
(* rows the index keeps, per item, the set of the chunks that are not      *)
(* zero, and Count visits only those.  Load re-uses the bit of the oldest  *)
(* transaction for the newest one, so for a while during each iteration    *)
(* the rows describe neither the old window nor the new one; a functor     *)
(* that queries the index must never see that.                             *)
(***************************************************************************)
EXTENDS Integers, Sequences, FiniteSets

CONSTANTS
  Items,    (* The items of the stream.                                    *)
  L,        (* mMaxLength, the length of the window in transactions.       *)
  W,        (* Bits in a chunk: 8 * sizeof(unsigned).                      *)
  TidMod,   (* Transaction numbers are unsigned: they wrap at TidMod.      *)
  MaxTxns   (* Bound: the stream may not go on from transaction MaxTxns.   *)
            (* With MaxTxns = TidMod the stream is endless.                *)

ASSUME LengthAssumption == L \in Nat \ {0} /\ W \in Nat \ {0}
ASSUME TidAssumption == TidMod \in Nat /\ TidMod > L /\ MaxTxns \in 1 .. TidMod

VARIABLES
  pc,             (* Where Load is: see Phases.                            *)
  transaction,    (* The transaction the reader returned last.             *)
  transactionNum, (* Its number.                                           *)
  mWindow,        (* The queue of the transactions in the window.          *)
  pending,        (* Items the current bit loop has not reached yet.       *)
  mIndex,         (* The rows: item, chunk -> the bits that are set.       *)
  mActiveChunks,  (* Item -> the chunks recorded as not zero.              *)
  answer          (* What the last Count returned, and for which itemset.  *)

vars == <<pc, transaction, transactionNum, mWindow, pending, mIndex,
          mActiveChunks, answer>>

Abstract == INSTANCE SlidingWindow WITH window <- mWindow

Transactions == (SUBSET Items) \ {{}}

(***************************************************************************)
(* Load's control points: about to read; inside OnUnload; clearing the     *)
(* front transaction's bits; about to push; setting the new transaction's  *)
(* bits; inside OnLoad; after the last transaction.                        *)
(***************************************************************************)
Phases == {"read", "unload", "clear", "push", "set", "load", "end"}

(* The points at which a functor runs and may query the index.             *)
Callbacks == {"unload", "load", "end"}

Chunks == 0 .. (L \div W)
Bits == 0 .. (W - 1)

GetChunkIndex(tid) == (tid % L) \div W
GetChunkBitNum(tid) == (tid % L) % W

Get(tid, item) == GetChunkBitNum(tid) \in mIndex[item][GetChunkIndex(tid)]

(* Mutant: a chunk that becomes zero stays recorded.                       *)
MarkChunkUsageInsertOnly(item, chunkIndex, used) ==
  mActiveChunks' = [mActiveChunks EXCEPT ![item] = @ \cup {chunkIndex}]

MarkChunkUsage(item, chunkIndex, used) ==
  mActiveChunks' = [mActiveChunks EXCEPT ![item] =
                      IF used THEN @ \cup {chunkIndex} ELSE @ \ {chunkIndex}]

(* Mutant: clearing a bit clears the whole chunk.                          *)
SetClearsChunk(tid, item, value) ==
  LET chunkIndex == GetChunkIndex(tid)
      chunk      == IF value
                    THEN mIndex[item][chunkIndex] \cup {GetChunkBitNum(tid)}
                    ELSE {}
  IN /\ mIndex' = [mIndex EXCEPT ![item][chunkIndex] = chunk]
     /\ MarkChunkUsage(item, chunkIndex, chunk # {})

Set(tid, item, value) ==
  LET chunkIndex  == GetChunkIndex(tid)
      chunkBefore == mIndex[item][chunkIndex]
      chunk       == IF value THEN chunkBefore \cup {GetChunkBitNum(tid)}
                              ELSE chunkBefore \ {GetChunkBitNum(tid)}
  IN /\ mIndex' = [mIndex EXCEPT ![item][chunkIndex] = chunk]
     /\ IF (chunkBefore = {} \/ chunk = {}) /\ chunkBefore # chunk
        THEN MarkChunkUsage(item, chunkIndex, chunk # {})
        ELSE UNCHANGED mActiveChunks

(* An item of S with the fewest recorded chunks.                           *)
Sparsest(S) ==
  CHOOSE item \in S : \A other \in S :
     Cardinality(mActiveChunks[item]) <= Cardinality(mActiveChunks[other])

(* Mutant: the chunk that is cut short is not visited.                     *)
CountFullChunksOnly(S) ==
  Cardinality({p \in (mActiveChunks[Sparsest(S)] \ {L \div W}) \X Bits :
                 \A item \in S : p[2] \in mIndex[item][p[1]]})

(* AND together the rows of S, in the chunks recorded for the sparsest     *)
(* item only, and count the bits that remain.                              *)
Count(S) ==
  Cardinality({p \in mActiveChunks[Sparsest(S)] \X Bits :
                 \A item \in S : p[2] \in mIndex[item][p[1]]})

(* transactionNum - mMaxLength, in unsigned arithmetic.                    *)
FrontTxnNum == (transactionNum - L) % TidMod

Full == Len(mWindow) = L
-----------------------------------------------------------------------------
Init ==
  /\ pc = "read"
  /\ transaction = {}
  /\ transactionNum = 0
  /\ mWindow = << >>
  /\ pending = {}
  /\ mIndex = [item \in Items |-> [c \in Chunks |-> {}]]
  /\ mActiveChunks = [item \in Items |-> {}]
  /\ answer = Abstract!NoAnswer

(* Mutant: a full window is not cleaned up before the push.                *)
GetNextWithoutUnload(txn) ==
  /\ pc = "read"
  /\ transactionNum < MaxTxns
  /\ transaction' = txn
  /\ pc' = "push"
  /\ UNCHANGED <<transactionNum, mWindow, pending, mIndex, mActiveChunks, answer>>

(* GetNext returns a transaction; with a full window OnUnload is next.     *)
GetNext(txn) ==
  /\ pc = "read"
  /\ transactionNum < MaxTxns
  /\ transaction' = txn
  /\ pc' = IF Full THEN "unload" ELSE "push"
  /\ UNCHANGED <<transactionNum, mWindow, pending, mIndex, mActiveChunks, answer>>

(* GetNext returns false: the stream is loaded and OnEndLoad runs.         *)
EndOfStream ==
  /\ pc = "read"
  /\ pc' = "end"
  /\ UNCHANGED <<transaction, transactionNum, mWindow, pending, mIndex,
                 mActiveChunks, answer>>

(* A functor, called back, has the index count an itemset.                 *)
Ask(S) ==
  /\ pc \in Callbacks
  /\ answer' = [query |-> S, count |-> Count(S)]
  /\ UNCHANGED <<pc, transaction, transactionNum, mWindow, pending, mIndex,
                 mActiveChunks>>

(* Mutant: the loop runs over the transaction that enters.                 *)
OnUnloadReturnsWithNew ==
  /\ pc = "unload"
  /\ pc' = "clear"
  /\ pending' = transaction
  /\ UNCHANGED <<transaction, transactionNum, mWindow, mIndex, mActiveChunks,
                 answer>>

(* OnUnload(mWindow.front()) returns: its items' bits are cleared next.    *)
OnUnloadReturns ==
  /\ pc = "unload"
  /\ pc' = "clear"
  /\ pending' = Head(mWindow)
  /\ UNCHANGED <<transaction, transactionNum, mWindow, mIndex, mActiveChunks,
                 answer>>

(* One turn of the loop over the front transaction.                        *)
ClearBit(item) ==
  /\ pc = "clear"
  /\ item \in pending
  /\ Set(FrontTxnNum, item, FALSE)
  /\ pending' = pending \ {item}
  /\ pc' = IF pending' = {} THEN "push" ELSE "clear"
  /\ UNCHANGED <<transaction, transactionNum, mWindow, answer>>

(* Mutant: the pop of the front transaction is missing.                    *)
PushWithoutPop ==
  /\ pc = "push"
  /\ mWindow' = Append(mWindow, transaction)
  /\ pending' = transaction
  /\ pc' = "set"
  /\ UNCHANGED <<transaction, transactionNum, mIndex, mActiveChunks, answer>>

(* The front transaction leaves a full queue and the new one enters.       *)
Push ==
  /\ pc = "push"
  /\ mWindow' = Append(IF Full THEN Tail(mWindow) ELSE mWindow, transaction)
  /\ pending' = transaction
  /\ pc' = "set"
  /\ UNCHANGED <<transaction, transactionNum, mIndex, mActiveChunks, answer>>

(* One turn of the loop over the new transaction.                          *)
SetBit(item) ==
  /\ pc = "set"
  /\ item \in pending
  /\ Set(transactionNum, item, TRUE)
  /\ pending' = pending \ {item}
  /\ pc' = IF pending' = {} THEN "load" ELSE "set"
  /\ UNCHANGED <<transaction, transactionNum, mWindow, answer>>

(* OnLoad(transaction) returns.                                            *)
OnLoadReturns ==
  /\ pc = "load"
  /\ pc' = "read"
  /\ transactionNum' = (transactionNum + 1) % TidMod
  /\ UNCHANGED <<transaction, mWindow, pending, mIndex, mActiveChunks, answer>>

Next ==
  \/ \E txn \in Transactions : GetNext(txn)
  \/ EndOfStream
  \/ \E S \in Transactions : Ask(S)
  \/ OnUnloadReturns
  \/ \E item \in Items : ClearBit(item)
  \/ Push
  \/ \E item \in Items : SetBit(item)
  \/ OnLoadReturns

Spec == Init /\ [][Next]_vars
-----------------------------------------------------------------------------
(* Every variable has its type; a bit or chunk number outside the          *)
(* allocated row (GetChunkIndex, GetChunkBitNum) would break it.           *)
TypeOK ==
  /\ pc \in Phases
  /\ transaction \in SUBSET Items
  /\ transactionNum \in 0 .. (TidMod - 1)
  /\ mWindow \in Seq(Transactions) /\ Len(mWindow) <= L
  /\ pending \in SUBSET Items
  /\ mIndex \in [Items -> [Chunks -> SUBSET Bits]]
  /\ mActiveChunks \in [Items -> SUBSET Chunks]
  /\ answer \in [query : SUBSET Items, count : Nat]

(* MarkChunkUsage keeps the recorded chunks of an item exactly the chunks  *)
(* of its row that are not zero, after every single bit that is set or     *)
(* cleared: a chunk too few loses transactions in Count, a chunk too many  *)
(* trips the assertion that active chunks are not zero.                    *)
ActiveChunksExact ==
  \A item \in Items :
     mActiveChunks[item] = {c \in Chunks : mIndex[item][c] # {}}

(* The number of the transaction at position i of the queue.  The number   *)
(* counts on only after OnLoad, when the new transaction is already in.    *)
TidAt(i) ==
  LET last == IF pc \in {"set", "load"} THEN transactionNum
                                        ELSE transactionNum - 1
  IN (last - Len(mWindow) + i) % TidMod

(* Whether position i of the queue should have its bit set in item's row,  *)
(* given how far Load has come with the oldest and the newest transaction. *)
Indexed(i, item) ==
  /\ item \in mWindow[i]
  /\ pc = "clear" /\ i = 1 => item \in pending
  /\ pc = "push" /\ Full => i # 1
  /\ pc = "set" /\ i = Len(mWindow) => item \notin pending

(* The rows hold a bit for exactly the items of the transactions in the    *)
(* queue, each at its own transaction's bit: re-using the front bit (Load) *)
(* never leaves a stale bit behind and never wipes out a live one.         *)
IndexIsWindow ==
  \A item \in Items : \A c \in Chunks, b \in Bits :
     b \in mIndex[item][c] <=>
       \E i \in DOMAIN mWindow :
          /\ GetChunkIndex(TidAt(i)) = c
          /\ GetChunkBitNum(TidAt(i)) = b
          /\ Indexed(i, item)

(* Whenever a functor runs, every count it can ask for is the count over   *)
(* the queue: OnUnload still sees the window with the front transaction,   *)
(* OnLoad sees the one with the new transaction and without the front one. *)
CallbacksSeeTheWindow ==
  pc \in Callbacks => \A S \in Transactions : Count(S) = Abstract!CountIn(mWindow, S)

(* The items whose rows have transaction number tid's bit set.             *)
OwnersOf(tid) == {item \in Items : Get(tid, item)}

(* The bit Load is about to re-use changes hands completely: when the      *)
(* front transaction leaves it is set for all its items and for no others, *)
(* it loses them one by one, no row has it set when the new transaction    *)
(* enters, and then it collects just that transaction's items.  What was   *)
(* set a whole window ago, under another number, is what is cleared now.   *)
SlotChangesHands ==
  /\ pc = "unload" => OwnersOf(FrontTxnNum) = Head(mWindow)
  /\ pc = "clear"  => OwnersOf(FrontTxnNum) = pending
  /\ pc = "push"   => OwnersOf(transactionNum) = {}
  /\ pc = "set"    => OwnersOf(transactionNum) = mWindow[Len(mWindow)] \ pending

(* Through all its intermediate steps the index is a sliding window: Load  *)
(* slides it by one transaction at a time and Count answers from it.       *)
ImplementsSlidingWindow == Abstract!Spec
-----------------------------------------------------------------------------
(* What Load asserts when a transaction leaves: it has the same bit as the *)
(* one that enters.                                                        *)
FrontSlotIsReused ==
  Full /\ pc \in {"unload", "clear", "push"} =>
     FrontTxnNum % L = transactionNum % L
=============================================================================
