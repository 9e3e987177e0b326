--------------------------- MODULE DriftDetector ---------------------------
(***************************************************************************)
(* The variable window of StructuralStreamDriftDetector: a prefix tree and *)
(* a data set over all transactions since the last detected drift, cut by  *)
(* check points.  A check point remembers the tree's frequency table at    *)
(* the moment it was made, so the tables are cumulative: each counts the   *)
(* window up to its own end.  Looking for drift merges check points, in    *)
(* three different ways, and finding it purges the oldest part of the      *)
(* window; both have to keep every remaining table right.                  *)
(*                                                                         *)
(* Whether a cut is unstable, or two check points are alike, comes from    *)
(* real-valued measures of the tree (TreeInstability, TableInstability,    *)
(* Variance); here every verdict is possible at every cut.  The tree is    *)
(* represented by its frequency table, which StreamTree shows to follow    *)
(* the window.  Check points are numbered from 1; 0 stands for the code's  *)
(* index -1.                                                               *)
(***************************************************************************)
EXTENDS Integers, Sequences, FiniteSets, FiniteSetsExt

CONSTANTS
  Items,      (* The items of the streams.                                 *)
  Interval,   (* check_interval, or aw_check_interval if adaptive.         *)
  Setups      (* The settings looked at: how drift is looked for (method), *)
              (* adaptive_window (adaptive); the transactions the stream   *)
              (* draws from (lines) and, a bound, its length (length).     *)

Transactions == (SUBSET Items) \ {{}}
AllMethods == {"progressive", "partition", "distribution"}

(* With an interval of 1 transaction 0 would get no check point.           *)
ASSUME IntervalAssumption == Interval \in Nat /\ Interval > 1
ASSUME SetupAssumption ==
  Setups \subseteq [method : AllMethods, adaptive : BOOLEAN,
                   lines : SUBSET Transactions, length : Nat]

VARIABLES
  setup,         (* The settings and the stream: never changes.            *)
  pc,            (* See Phases.                                            *)
  tid,           (* MineDataStream's counter: the next transaction's id.   *)
  data_set,      (* The transactions of the window, the oldest first.      *)
  freq,          (* tree->FrequencyTable(); items not in it count 0.       *)
  check_points,  (* The check points, the oldest first.                    *)
  block_index,   (* Loop variable of arrangeCheckPoints and the searches;  *)
                 (* in "purge", the check point found unstable.            *)
  exp_cap        (* arrangeCheckPoints: the capacity looked for.           *)

vars == <<setup, pc, tid, data_set, freq, check_points,
          block_index, exp_cap>>

method == setup.method
adaptive == setup.adaptive

(* Waiting for a transaction; in the loop of arrangeCheckPoints, of a      *)
(* FindUnstable... method, of PurgeBlocksUpTo; after the last transaction. *)
Phases == {"add", "arrange", "find", "purge", "end"}

Tables == [Items -> Int]
CheckPoint(start, end, table) ==
  [start_tid |-> start, end_tid |-> end, frequency_table |-> table]

(* Mutant: off by one in the start of a block.                             *)
NewCheckPointOneEarly(table) == CheckPoint(tid - Interval, tid, table)

(* The check point of the Interval transactions up to the current one.     *)
NewCheckPoint(table) == CheckPoint(tid + 1 - Interval, tid, table)

Size(c) == c.end_tid - c.start_tid
Capacity(c) == IF c.end_tid = 0 THEN 0 ELSE (c.end_tid - c.start_tid + 1) \div Interval

Plus(table, items) == [i \in Items |-> table[i] + (IF i \in items THEN 1 ELSE 0)]
Minus(table, items) == [i \in Items |-> table[i] - (IF i \in items THEN 1 ELSE 0)]

(* Check points k and k + 1 become one, with the later one's table.        *)
MergeCheckPointWithNext(cps, k) ==
  [j \in 1 .. (Len(cps) - 1) |->
     IF j < k THEN cps[j]
     ELSE IF j = k THEN CheckPoint(cps[k].start_tid, cps[k + 1].end_tid,
                                   cps[k + 1].frequency_table)
     ELSE cps[j + 1]]

(* Where a search starts; nothing to do is a loop that ends at once.       *)
FirstIndex(cps) == IF method = "partition" THEN 1 ELSE Len(cps) - 1

(* Mutant: the partition search goes on to the newest check point.         *)
SearchingToTheLast ==
  CASE method = "progressive"  -> block_index >= 1
    [] method = "partition"    -> block_index <= Len(check_points)
    [] method = "distribution" -> block_index >= 2

(* The searches' loop conditions.                                          *)
Searching ==
  CASE method = "progressive"  -> block_index >= 1
    [] method = "partition"    -> block_index < Len(check_points)
    [] method = "distribution" -> block_index >= 2
-----------------------------------------------------------------------------
Init ==
  /\ setup \in Setups
  /\ pc = "add"
  /\ tid = 0
  /\ data_set = << >>
  /\ freq = [i \in Items |-> 0]
  /\ check_points = << >>
  /\ block_index = 0
  /\ exp_cap = 1

(* Add, up to the search; every Interval transactions a check point is     *)
(* due.                                                                    *)
Add(items) ==
  /\ pc = "add"
  /\ tid < setup.length
  /\ data_set' = Append(data_set, [id |-> tid, items |-> items])
  /\ freq' = Plus(freq, items)
  /\ tid' = tid + 1
  /\ IF tid # 0 /\ (tid + 1) % Interval = 0
     THEN /\ check_points' = Append(check_points, NewCheckPoint(freq'))
          /\ pc' = IF adaptive THEN "arrange" ELSE "find"
          /\ block_index' = IF adaptive THEN Len(check_points') - 2
                                        ELSE FirstIndex(check_points')
     ELSE UNCHANGED <<pc, check_points, block_index>>
  /\ UNCHANGED <<setup, exp_cap>>

(* The reader has no more transactions.                                    *)
EndOfStream ==
  /\ pc = "add"
  /\ pc' = "end"
  /\ UNCHANGED <<setup, tid, data_set, freq, check_points,
                 block_index, exp_cap>>

ThirdOfItsKind ==
  block_index >= 1 /\ Capacity(check_points[block_index]) = exp_cap

(* Mutant: the loop leaves out the larger capacities.                      *)
ArrangeOnce ==
  /\ pc = "arrange"
  /\ IF ThirdOfItsKind
     THEN check_points' = MergeCheckPointWithNext(check_points, block_index)
     ELSE UNCHANGED check_points
  /\ pc' = "find"
  /\ block_index' = FirstIndex(check_points')
  /\ exp_cap' = 1
  /\ UNCHANGED <<setup, tid, data_set, freq>>

(* arrangeCheckPoints(2): the third newest check point of a capacity is    *)
(* merged with the second, which may make a third one of twice the size.   *)
Arrange ==
  /\ pc = "arrange"
  /\ IF ThirdOfItsKind
     THEN /\ check_points' = MergeCheckPointWithNext(check_points, block_index)
          /\ block_index' = block_index - 2
          /\ exp_cap' = exp_cap * 2
          /\ UNCHANGED pc
     ELSE /\ pc' = "find"
          /\ block_index' = FirstIndex(check_points)
          /\ exp_cap' = 1
          /\ UNCHANGED check_points
  /\ UNCHANGED <<setup, tid, data_set, freq>>

(* The verdict on the cut after block_index: the window has drifted.  The  *)
(* tree is mined, whole, before the purge begins.                          *)
Unstable ==
  /\ pc = "find" /\ Searching
  /\ pc' = "purge"
  /\ UNCHANGED <<setup, tid, data_set, freq, check_points,
                 block_index, exp_cap>>

(* The verdict is stable, and the two blocks are not alike either.         *)
Stable ==
  /\ pc = "find" /\ Searching
  /\ block_index' = IF method = "partition" THEN block_index + 1 ELSE block_index - 1
  /\ UNCHANGED <<setup, pc, tid, data_set, freq, check_points, exp_cap>>

(* Stable, and block_index and the next are alike enough to be merged.     *)
(* The progressive method compares with the instability of the block seen  *)
(* before, which is infinite at the first one, the last but one; and it    *)
(* goes on to an older block, where the partition method stays.            *)
Alike ==
  /\ pc = "find" /\ Searching
  /\ \/ /\ method = "progressive"
        /\ block_index < Len(check_points) - 1
        /\ block_index' = block_index - 1
     \/ /\ method = "partition" /\ ~adaptive
        /\ UNCHANGED block_index
  /\ check_points' = MergeCheckPointWithNext(check_points, block_index)
  /\ UNCHANGED <<setup, pc, tid, data_set, freq, exp_cap>>

(* Mutant: after a search that found nothing, search again.                *)
NoDriftSearchesAgain ==
  /\ pc = "find" /\ ~Searching
  /\ block_index' = FirstIndex(check_points)
  /\ UNCHANGED <<setup, pc, tid, data_set, freq, check_points, exp_cap>>

(* The search returns -1.                                                  *)
NoDrift ==
  /\ pc = "find" /\ ~Searching
  /\ pc' = "add"
  /\ block_index' = 0
  /\ UNCHANGED <<setup, tid, data_set, freq, check_points, exp_cap>>

(* Mutant: the transaction stays counted in the tables left behind.        *)
PurgeTransactionOnly ==
  /\ pc = "purge"
  /\ data_set # << >> /\ Head(data_set).id <= check_points[block_index].end_tid
  /\ data_set' = Tail(data_set)
  /\ freq' = Minus(freq, Head(data_set).items)
  /\ UNCHANGED <<setup, pc, tid, check_points, block_index, exp_cap>>

(* One turn of PurgeBlocksUpTo's loop: the oldest transaction leaves tree, *)
(* data set, and the tables of the check points that stay.                 *)
PurgeTransaction ==
  /\ pc = "purge"
  /\ data_set # << >> /\ Head(data_set).id <= check_points[block_index].end_tid
  /\ data_set' = Tail(data_set)
  /\ freq' = Minus(freq, Head(data_set).items)
  /\ check_points' =
       [k \in DOMAIN check_points |->
          IF k > block_index
          THEN [check_points[k] EXCEPT !.frequency_table =
                  Minus(@, Head(data_set).items)]
          ELSE check_points[k]]
  /\ UNCHANGED <<setup, pc, tid, block_index, exp_cap>>

(* Mutant: the check point found unstable stays.                           *)
PurgeEndKeepsUnstable ==
  /\ pc = "purge"
  /\ data_set = << >> \/ Head(data_set).id > check_points[block_index].end_tid
  /\ check_points' = SubSeq(check_points, block_index, Len(check_points))
  /\ pc' = "add"
  /\ block_index' = 0
  /\ UNCHANGED <<setup, tid, data_set, freq, exp_cap>>

(* The loop ends, and the purged check points are erased.                  *)
PurgeEnd ==
  /\ pc = "purge"
  /\ data_set = << >> \/ Head(data_set).id > check_points[block_index].end_tid
  /\ check_points' = SubSeq(check_points, block_index + 1, Len(check_points))
  /\ pc' = "add"
  /\ block_index' = 0
  /\ UNCHANGED <<setup, tid, data_set, freq, exp_cap>>

Terminated == pc = "end" /\ UNCHANGED vars

Next ==
  \/ \E items \in setup.lines : Add(items)
  \/ EndOfStream
  \/ Arrange
  \/ Unstable
  \/ Stable
  \/ Alike
  \/ NoDrift
  \/ PurgeTransaction
  \/ PurgeEnd
  \/ Terminated

(* Between two transactions: the calls Add makes before it returns.        *)
InAdd == pc \in {"arrange", "find", "purge"}

(* Add runs in the only thread there is, so its loops keep turning; the    *)
(* stream need not go on.                                                  *)
Spec == Init /\ [][Next]_vars /\ WF_vars(InAdd /\ Next)
-----------------------------------------------------------------------------
(* Every variable has its type.                                            *)
TypeOK ==
  /\ setup \in Setups
  /\ pc \in Phases
  /\ tid \in 0 .. setup.length
  /\ data_set \in Seq([id : 0 .. setup.length, items : Transactions])
  /\ freq \in Tables
  /\ check_points \in Seq([start_tid : 0 .. setup.length, end_tid : 0 .. setup.length,
                           frequency_table : Tables])
  /\ block_index \in -1 .. (Len(check_points) + 1)
  /\ exp_cap \in 1 .. (2 * setup.length + 1)

(* How often item i occurs in the window up to transaction last.           *)
CountUpTo(last, i) ==
  Cardinality({k \in DOMAIN data_set : data_set[k].id <= last /\ i \in data_set[k].items})

(* The check points the current purge, if there is one, leaves behind.     *)
Staying ==
  {k \in DOMAIN check_points : pc = "purge" => k > block_index}

(* Each check point's table counts exactly the transactions of the window  *)
(* up to its end, whatever was merged and purged before; the comment at    *)
(* the head of PurgeBlocksUpTo demands it, and that none becomes negative. *)
TablesAreCumulative ==
  /\ \A k \in Staying : \A i \in Items :
        check_points[k].frequency_table[i] = CountUpTo(check_points[k].end_tid, i)
  /\ \A i \in Items : freq[i] = CountUpTo(tid, i)

(* The check points cut the window without gap or overlap, from the oldest *)
(* transaction in it (while purging: from the first one that stays) to the *)
(* end of the last complete block.                                         *)
CheckPointsTileWindow ==
  /\ \A k \in 1 .. (Len(data_set) - 1) : data_set[k + 1].id = data_set[k].id + 1
  /\ data_set # << >> => data_set[Len(data_set)].id = tid - 1
  /\ \A k \in 1 .. (Len(check_points) - 1) :
        check_points[k + 1].start_tid = check_points[k].end_tid + 1
  /\ check_points # << >> =>
        /\ check_points[Len(check_points)].end_tid = tid - 1 - (tid % Interval)
        /\ pc # "purge" => check_points[1].start_tid = data_set[1].id
        /\ pc = "purge" => data_set[1].id <= check_points[block_index].end_tid + 1

(* A purge never takes the newest block: the loops that walk and merge the *)
(* check points never deem the last one unstable, and what Add has just    *)
(* completed is there to compare with next time.                           *)
NewestBlockStays ==
  /\ pc = "purge" => block_index \in 1 .. (Len(check_points) - 1)
  /\ tid >= Interval =>
       /\ check_points # << >>
       /\ \E k \in DOMAIN data_set : data_set[k].id = tid - (tid % Interval) - Interval

(* The adaptive window is an exponential histogram: capacities are powers  *)
(* of two, do not grow towards the present, and there are at most two of a *)
(* kind; so the number of check points, and of the cuts that are tested,   *)
(* is logarithmic in the window.                                           *)
Histogram ==
  adaptive /\ method # "progressive" /\ pc \in {"add", "find", "end"} =>
    LET cap(k) == Capacity(check_points[k])
    IN /\ \A k \in 1 .. (Len(check_points) - 1) : cap(k) \in {cap(k + 1), 2 * cap(k + 1)}
       /\ \A k \in 1 .. (Len(check_points) - 2) : cap(k) # cap(k + 2)
       /\ check_points # << >> => cap(Len(check_points)) = 1

(* Add returns: neither merging while searching, nor purging while the     *)
(* tables are corrected, keeps a loop going for ever.                      *)
AddReturns == InAdd ~> pc = "add"
-----------------------------------------------------------------------------
(***************************************************************************)
(* What FindUnstableCheckPointByDistributionChange compares at a cut: how  *)
(* often an item occurs on either side, and in how many transactions.      *)
(***************************************************************************)
u_lhs(i) == MapThenSumSet(LAMBDA k : check_points[k].frequency_table[i],
                          1 .. block_index)
u_rhs(i) == MapThenSumSet(LAMBDA k : check_points[k].frequency_table[i],
                          (block_index + 1) .. Len(check_points))
n_lhs == MapThenSumSet(LAMBDA k : Size(check_points[k]), 1 .. (block_index - 1))
n_rhs == MapThenSumSet(LAMBDA k : Size(check_points[k]),
                       block_index .. Len(check_points))

(* Variance takes count out of N transactions for the number of those that *)
(* hold the item: "X is 1 count times, and 0 (N-count) times".             *)
CountsAreOfTheirSample ==
  pc = "find" /\ method = "distribution" /\ Searching =>
    \A i \in Items : u_lhs(i) <= n_lhs /\ u_rhs(i) <= n_rhs
=============================================================================
