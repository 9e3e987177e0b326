----------------------------- MODULE StreamTree -----------------------------
(***************************************************************************)
(* The prefix tree kept over a stream, or built from a file, by the load   *)
(* functors CpTreeFunctor, CanTreeFunctor, SpoTreeFunctor,                 *)
(* ExtrapTreeFunctor and DiscTreeFunctor.  The index calls them back:      *)
(* OnUnload takes the oldest transaction's path out of the tree, OnLoad    *)
(* puts the newest one in and at times sorts the tree, which rebuilds it   *)
(* path by path while an iterator runs over the very leaf list that the    *)
(* rebuilding changes.                                                     *)
(*                                                                         *)
(* The functors differ in when they sort and by which table:               *)
(*   cp      every interval transactions (0: never, a CanTree), by         *)
(*           frequency                                                     *)
(*   spo     when the ranking's entropy is above a threshold, and at the   *)
(*           end of a file, by frequency                                   *)
(*   extrap  every window, by the counts extrapolated from it              *)
(*   disc    every interval transactions, by the discriminativeness of the *)
(*           items in the window; other items keep the score they had      *)
(* A transaction is found again, when it leaves, only if it sorts to the   *)
(* path it went in by; in between the tree may have been sorted, several   *)
(* times and by changing tables.                                           *)
(***************************************************************************)
EXTENDS FPTree, SpoRanks, CoocurrenceGraph

CONSTANTS
  Setups,    (* The functors to consider: records                          *)
             (*   functor    "cp", "spo", "extrap" or "disc"               *)
             (*   streaming  FALSE: a file is loaded, nothing is unloaded  *)
             (*   length     the window's length, blockSize; for a file    *)
             (*              the bound on its transactions                 *)
             (*   interval   the sort interval                             *)
             (*   threshold  of the entropy, a fraction                    *)
             (*   items      Bound: the number of different items          *)
  Scores     (* Bound: the values extrapolated counts and                  *)
             (* discriminativeness are ranked by.                          *)

ASSUME StreamAssumption ==
  /\ \A s \in Setups : s.length \in Nat \ {0} /\ s.items \in Nat \ {0}
                       /\ s.interval \in Nat
  /\ Scores \subseteq Int /\ Scores # {}

VARIABLES
  pc,              (* See Phases.                                          *)
  setup,           (* The functor: never changes.                          *)
  transaction,     (* The transaction being loaded.                        *)
  window,          (* The index's queue.                                   *)
  tree,            (* mTree.                                               *)
  path,            (* The leaf's path that Sort is about to look at.       *)
  order,           (* The table transactions are sorted by, NoTable before *)
                   (* the first sort: mFreqAtLastSort, mList or            *)
                   (* discriminativeness.                                  *)
  count,           (* Transactions since the last sort; spo counts none.   *)
  ranks,           (* spo: its ranking.                                    *)
  tally,           (* disc: co-occurrences, mItemFreq and mItems.          *)
  mTxnNum          (* Transactions loaded, modulo blockSize.               *)

vars == <<pc, setup, transaction, window, tree, path, order, count, ranks,
          tally, mTxnNum>>

Ids == 1 .. setup.items
Seen == DOMAIN tree.freq
Transactions == (SUBSET Ids) \ {{}}

(***************************************************************************)
(* Where the callbacks are: none runs; OnUnload is due; OnLoad is due; in  *)
(* Sort, at the head of its loop and with a path in hand; Sort returned;   *)
(* FPTreeFunctor::OnLoad is due.  At the end of a file: all is loaded.     *)
(***************************************************************************)
Phases == {"read", "unload", "load", "sort", "replace", "sorted", "mine", "end"}

SortTransaction(txn) == SortItems(txn, order)

Init ==
  /\ pc = "read"
  /\ setup \in Setups
  /\ transaction = {}
  /\ window = << >>
  /\ tree = Empty
  /\ path = << >>
  /\ order = NoTable
  /\ count = 0
  /\ ranks = NoRanks
  /\ tally = NoTally
  /\ mTxnNum = 0

(* The reader returns a transaction; items it has not met yet get the next *)
(* free ids.                                                               *)
GetNext(txn) ==
  /\ pc = "read"
  /\ setup.streaming \/ Len(window) < setup.length
  /\ txn \ Seen = (Cardinality(Seen) + 1) .. (Cardinality(Seen) + Cardinality(txn \ Seen))
  /\ transaction' = txn
  /\ pc' = IF Len(window) = setup.length THEN "unload" ELSE "load"
  /\ UNCHANGED <<setup, window, tree, path, order, count, ranks, tally, mTxnNum>>

OnUnload ==
  /\ pc = "unload"
  /\ tree' = Remove(tree, SortTransaction(Head(window)))
  /\ tally' = IF setup.functor = "disc" THEN TallyUnload(tally, Head(window))
                                        ELSE tally
  /\ window' = Tail(window)
  /\ pc' = "load"
  /\ UNCHANGED <<setup, transaction, path, order, count, ranks, mTxnNum>>

(***************************************************************************)
(* OnLoad up to the loop of Sort, or to the call of FPTreeFunctor::OnLoad. *)
(***************************************************************************)
Loaded == Insert(tree, SortTransaction(transaction))

Enter ==
  /\ pc = "load"
  /\ window' = Append(window, transaction)
  /\ UNCHANGED <<setup, transaction, path, mTxnNum>>

SortBy(table) ==
  /\ order' = table
  /\ tree' = StartSort(Loaded)
  /\ pc' = "sort"

LeaveUnsorted ==
  /\ tree' = Loaded
  /\ pc' = "mine"
  /\ UNCHANGED order

CpOnLoad ==
  /\ setup.functor = "cp"
  /\ Enter
  /\ IF count + 1 = setup.interval THEN SortBy(Loaded.freq) ELSE LeaveUnsorted
  /\ count' = IF setup.interval = 0 THEN count ELSE count + 1
  /\ UNCHANGED <<ranks, tally>>

SpoOnLoad ==
  /\ setup.functor = "spo"
  /\ Enter
  /\ ranks' = Adjust(ranks, Loaded.freq, SortTransaction(transaction))
  /\ IF RankEntropyAbove(ranks', setup.threshold)
     THEN SortBy(Loaded.freq) ELSE LeaveUnsorted
  /\ UNCHANGED <<count, tally>>

(* Every item met so far is given an extrapolated count.                   *)
ExtrapOnLoad ==
  /\ setup.functor = "extrap"
  /\ Enter
  /\ IF count + 1 = setup.length
     THEN \E mList \in [DOMAIN Loaded.freq -> Scores] : SortBy(mList)
     ELSE LeaveUnsorted
  /\ count' = count + 1
  /\ UNCHANGED <<ranks, tally>>

(* The items of the window, and only they, are given new scores.           *)
DiscOnLoad ==
  /\ setup.functor = "disc"
  /\ Enter
  /\ tally' = TallyLoad(tally, transaction)
  /\ IF count + 1 = setup.interval
     THEN \E score \in [tally'.mItems -> Scores] :
            SortBy([x \in DOMAIN order \cup tally'.mItems |->
                      IF x \in tally'.mItems THEN score[x] ELSE order[x]])
     ELSE LeaveUnsorted
  /\ count' = count + 1
  /\ UNCHANGED ranks

(* Mutant: whatever the functor, the tree is sorted by frequency.          *)
ComparatorIsFrequency == tree.freq

(***************************************************************************)
(* Sort.  By frequency it compares by the live frequency table, otherwise  *)
(* by the functor's table.                                                 *)
(***************************************************************************)
Comparator == IF setup.functor \in {"cp", "spo"} THEN tree.freq ELSE order

(* The iterator returns a leaf's path, or there is none left.              *)
SortNext ==
  /\ pc = "sort"
  /\ IF HasNext(tree)
     THEN /\ path' = NextLeaf(tree)
          /\ tree' = Advance(tree)
          /\ pc' = "replace"
     ELSE /\ tree' = EndSort(tree)
          /\ pc' = "sorted"
          /\ UNCHANGED path
  /\ UNCHANGED <<setup, transaction, window, order, count, ranks, tally, mTxnNum>>

(* The rest of a turn of the loop: the path is moved if it has to be.      *)
SortReplace ==
  /\ pc = "replace"
  /\ tree' = SortPath(tree, path, Comparator)
  /\ path' = << >>
  /\ pc' = "sort"
  /\ UNCHANGED <<setup, transaction, window, order, count, ranks, tally, mTxnNum>>

(* Mutant: the count is not started again.                                 *)
SortReturnsCountingOn ==
  /\ pc = "sorted" /\ transaction # {}
  /\ ranks' = IF setup.functor = "spo" THEN ResetEntropy(ranks) ELSE ranks
  /\ pc' = "mine"
  /\ UNCHANGED <<setup, transaction, window, tree, path, order, count, tally,
                 mTxnNum>>

SortReturns ==
  /\ pc = "sorted" /\ transaction # {}
  /\ count' = 0
  /\ ranks' = IF setup.functor = "spo" THEN ResetEntropy(ranks) ELSE ranks
  /\ pc' = "mine"
  /\ UNCHANGED <<setup, transaction, window, tree, path, order, tally, mTxnNum>>

(* Mutant: the transaction is counted by the derived class as well.        *)
MineCountsTwice ==
  /\ pc = "mine"
  /\ mTxnNum' = (mTxnNum + 2) % setup.length
  /\ transaction' = {}
  /\ pc' = "read"
  /\ UNCHANGED <<setup, window, tree, path, order, count, ranks, tally>>

(* FPTreeFunctor::OnLoad: count the transaction, and mine the tree if the  *)
(* count is a multiple of blockSize (mining reads the tree only).          *)
Mine ==
  /\ pc = "mine"
  /\ mTxnNum' = (mTxnNum + 1) % setup.length
  /\ transaction' = {}
  /\ pc' = "read"
  /\ UNCHANGED <<setup, window, tree, path, order, count, ranks, tally>>

(* The file has no more transactions; OnEndLoad sorts an SPO-tree.         *)
OnEndLoad ==
  /\ pc = "read" /\ ~setup.streaming
  /\ IF setup.functor = "spo"
     THEN /\ order' = tree.freq
          /\ tree' = StartSort(tree)
          /\ pc' = "sort"
     ELSE /\ pc' = "end"
          /\ UNCHANGED <<order, tree>>
  /\ UNCHANGED <<setup, transaction, window, path, count, ranks, tally, mTxnNum>>

EndLoadReturns ==
  /\ pc = "sorted" /\ transaction = {}
  /\ pc' = "end"
  /\ UNCHANGED <<setup, transaction, window, tree, path, order, count, ranks,
                 tally, mTxnNum>>

Terminated == pc = "end" /\ UNCHANGED vars

Next ==
  \/ \E txn \in Transactions : GetNext(txn)
  \/ OnUnload
  \/ CpOnLoad
  \/ SpoOnLoad
  \/ ExtrapOnLoad
  \/ DiscOnLoad
  \/ SortNext
  \/ SortReplace
  \/ SortReturns
  \/ Mine
  \/ OnEndLoad
  \/ EndLoadReturns
  \/ Terminated

InSort == pc \in {"sort", "replace"}

(* Sort is a plain loop of the one thread there is: while it runs, nothing *)
(* keeps it from its next step.  Nothing obliges the stream to go on.      *)
Spec == Init /\ [][Next]_vars /\ WF_pc(InSort /\ pc' \in Phases)
-----------------------------------------------------------------------------
Counts == 0 .. setup.length
Paths == {Upto(s, k) : s \in [Ids -> Ids], k \in Ids}

(* The count a sort falls due at.  A disc tree with an interval of 0 only  *)
(* counts: below 2^32 transactions it is never sorted.                     *)
Due == IF setup.functor = "extrap" THEN setup.length ELSE setup.interval
NeverDue == setup.functor = "disc" /\ setup.interval = 0

(* Every variable has its type; the counts of the tree stay positive and   *)
(* within the window, the frequencies within it and never below zero, and  *)
(* a count that starts a sort is met before it is passed.                  *)
TypeOK ==
  /\ pc \in Phases
  /\ setup \in Setups
  /\ transaction \in SUBSET Ids
  /\ window \in Seq(Transactions) /\ Len(window) <= setup.length
  /\ Nodes(tree) \subseteq Paths
  /\ \A p \in Nodes(tree) : tree.count[p] \in Counts \ {0}
  /\ Seen \subseteq Ids /\ \A i \in Seen : tree.freq[i] \in Counts
  /\ tree.next \in 0 .. (Len(tree.leaves) + 1)
  /\ path \in Paths \cup {<< >>}
  /\ DOMAIN order \subseteq Seen
  /\ \A i \in DOMAIN order : order[i] \in Counts \cup Scores
  /\ count \in Nat /\ (~NeverDue => count <= Due)
  /\ tally.mItems \subseteq DOMAIN tally.mItemFreq
  /\ mTxnNum \in 0 .. (setup.length - 1)

(* The tree stands for exactly the transactions in the window, each as     *)
(* often as it occurs, and the frequency table for their items: after      *)
(* every load and unload, whatever order the paths were sorted in, and     *)
(* also between any two turns of Sort's loop, which moves them about.      *)
TreeHoldsWindow ==
  /\ \A S \in Transactions :
        Holds(tree, S) = Cardinality({i \in DOMAIN window : window[i] = S})
  /\ \A i \in Seen :
        tree.freq[i] = Cardinality({k \in DOMAIN window : i \in window[k]})

(* The leaf list holds the childless nodes, each once, though Insert,      *)
(* Remove and the destructor put nodes on it and take them off at          *)
(* different moments (the assertion in IsLeaf).                            *)
LeavesExact ==
  /\ {tree.leaves[j] : j \in DOMAIN tree.leaves}
       = {p \in Nodes(tree) : Children(Nodes(tree), p) = {}}
  /\ Len(tree.leaves) = Cardinality({tree.leaves[j] : j \in DOMAIN tree.leaves})

(* Between sorts every path runs in the order SortTransaction will give    *)
(* the transaction when it is unloaded, even after items appeared and      *)
(* frequencies crossed, and with scores that were not renewed at the last  *)
(* sort: so Remove finds its path (assertion in Remove).                   *)
PathsFollowLastSort ==
  ~InSort => \A p \in Nodes(tree) : Ordered(p, order)

(* When Sort's loop ends every path is in the order sorted by: the         *)
(* iterator has reached every path that needed moving, including nodes     *)
(* that became leaves behind its back.  For a sort by frequency that is    *)
(* the assertion at its end; the same assertion is made, and fails, after  *)
(* a sort by another table.                                                *)
SortedAfterSort ==
  pc = "sorted" =>
    /\ \A p \in Nodes(tree) : Ordered(p, Comparator)
    /\ setup.functor \in {"cp", "spo"} => IsSorted(tree)

(* A tree that is mined is the tree of a full window of blockSize          *)
(* transactions: mining falls due by a count of its own (mTxnNum), not by  *)
(* the window's length.                                                    *)
MinedWindowIsFull ==
  pc = "mine" /\ (mTxnNum + 1) % setup.length = 0 => Len(window) = setup.length

(* SortTransaction's own check after sorting by the table of the last      *)
(* sort: there an item missing from the table counts as 0, while the       *)
(* comparator puts it last.  The two agree because ids are handed out in   *)
(* the order of appearance.                                                *)
VerifySortedByFreqAppearance(v) ==
  \A j \in 2 .. Len(v) :
    LET Get(i) == IF i \in DOMAIN order THEN order[i] ELSE 0
    IN /\ Get(v[j - 1]) >= Get(v[j])
       /\ Get(v[j - 1]) = Get(v[j]) => v[j - 1] < v[j]

SortTransactionVerifies ==
  setup.functor \in {"cp", "spo"} =>
    /\ pc = "load" => VerifySortedByFreqAppearance(SortTransaction(transaction))
    /\ pc = "unload" => VerifySortedByFreqAppearance(SortTransaction(Head(window)))

(* How far the item at rank k is from its stored rank.                     *)
Distance(r, k) ==
  LET stored == r.storedRank[r.ranking[k + 1]]
  IN IF k > stored THEN k - stored ELSE stored - k

(* SPO: the ranking and its inverse hold each item met once, and diffSum,  *)
(* unsigned in the code and adjusted by two items' distances per swap, is  *)
(* the sum of the distances over the whole ranking, across sorts and new   *)
(* items (VerifyDiffSumValid): the entropy is the ranking's.               *)
DiffSumValid ==
  setup.functor = "spo" =>
    LET r == ranks
        n == Len(r.ranking)
    IN /\ n = Cardinality(Seen)
       /\ DOMAIN r.lookup = {r.ranking[k] : k \in DOMAIN r.ranking}
       /\ \A k \in 0 .. (n - 1) : r.lookup[r.ranking[k + 1]] = k
       /\ r.diffSum = MapThenSumSet(LAMBDA k : Distance(r, k), 0 .. (n - 1))

(* Disc: the counts of pairs and items, kept by a load and an unload that  *)
(* have only the transaction to go by, are those of the window, with no    *)
(* entry for a pair that no longer occurs: so at a sort every neighbour    *)
(* whose support is divided by, or taken the logarithm of, has one.        *)
CoocurrencesExact ==
  setup.functor = "disc" =>
    LET Together(S) == Cardinality({k \in DOMAIN window : S \subseteq window[k]})
    IN /\ DOMAIN tally.coocurrences
            = {p \in Ids \X Ids : p[1] # p[2] /\ Together({p[1], p[2]}) > 0}
       /\ \A p \in DOMAIN tally.coocurrences :
             tally.coocurrences[p] = Together({p[1], p[2]})
       /\ tally.mItems = {x \in Ids : Together({x}) > 0}
       /\ \A x \in DOMAIN tally.mItemFreq : tally.mItemFreq[x] = Together({x})

(* Sort ends: although it puts leaves back on the list it runs over, it    *)
(* does not chase its own tail.                                            *)
SortTerminates == InSort ~> pc = "sorted"
-----------------------------------------------------------------------------
(* "So ensure that the ranks for each item in the transaction are still    *)
(* correct" (the comment on Adjust): after it, a loaded item's rank is the *)
(* number of items that are more frequent, or as frequent and older.       *)
AdjustedRanksAreCorrect ==
  setup.functor = "spo" /\ pc = "mine" =>
    \A i \in transaction :
      ranks.lookup[i] = Cardinality({j \in Seen : ItemMapCmp(tree.freq, j, i)})
=============================================================================
