# HARM: a verification project

HARM is a single-process association rule miner (C++14, `src/src`). It reads
transactions (sets of items) from a file, keeps them in an index and a prefix
tree, and mines frequent itemsets and rules, once at the end of the file or again
and again while a window slides over it. This directory models the parts that
keep state, checks them with TLC and proves theorems about them with TLAPS.

## 1. The system

| Component | State | Operations | Called by |
|---|---|---|---|
| Reader, item interning (`DataSetReader.h`, `Item.cpp`) | file position; name to id map | `GetNext`, `Rewind`, `Item(name)` | every data set, the stream miner |
| `WindowIndex` | queue of the last L transactions; one bit row per item; the non-zero chunks per item | `Load` (the driving loop), `Set`, `Count`, `Count(item)` | `FPTreeMiner`; calls the functors back |
| `InvertedDataSetIndex`, `TidList` | one growing tid list per item | `Load`, `Count` | Apriori, non-streaming tree modes |
| `VariableWindowDataSet` | deque of transactions; tid lists in chunks of 128; start of the first chunk | `Append`, `Pop`, `Front`, `Count` | the drift detector |
| `FPNode`/`FPTree`, `List` | nodes with counts; header table; leaf list with live iterators; frequency table now and at the last sort | `Insert`, `Remove`, `Replace`, `Sort`, `SortTransaction`, `IsSorted` | functors, mining, the drift detector |
| Functors (Can, CP, SPO, Extrap, Disc, DD) | a tree and the trigger for its next sort | `OnStartLoad`, `OnLoad`, `OnUnload`, `OnEndLoad` | the data set's load loop |
| `FPTreeFunctor` | transactions loaded | `OnLoad`: mine every `blockSize` transactions | its subclasses |
| `MineFPTree`/`FPGrowth` | recursion over conditional trees | emits patterns, then rules | `FPTreeFunctor`, `MiningContext` |
| `StructuralStreamDriftDetector` (SSDD, DBDD) | tree, variable window, check points with cumulative frequency tables | `Add`, `arrangeCheckPoints`, three `FindUnstable...`, `MergeCheckPointWithNext`, `PurgeBlocksUpTo` | `MineDataStream` |
| `Apriori` | current level's candidates | levels, worker tasks, join | `main` |
| Rules, pattern streams, options | files, option record | `GenerateRules`, `Read`/`Write`, `ParseArgs` | the above |

One mode runs at a time (`Harm.cpp`). Except for Apriori's worker tasks
everything runs in one thread, so the difficulty is not in preemption but in
*re-entrancy and staleness*: a data set calls a functor in the middle of a slide,
and the functor counts with that data set; an iterator runs over a list its own
loop body edits; a transaction must be found again in a tree that was re-sorted
since; tables are corrected, long after they were taken, by what has left the
window.

What makes each component correct:

- *WindowIndex*: every count a functor can ask for is the count over the queue.
- *Tree*: it stands for exactly the transactions in the window; whatever was
  inserted can be found and removed; `Sort` ends, sorted, without changing what
  the tree stands for.
- *Functors*: a block is mined with a full window; the order in which
  transactions leave is the order the tree has.
- *Drift detector*: check points cut the window without gap, each with the counts
  of the window up to its end, whatever was merged and purged.
- *Variable window*: `Count` is the count over the deque, across chunk drops.
- *FP-growth, Apriori*: exactly the frequent itemsets, each once.
- *SPO ranking*: `diffSum` is the distance of the ranking from the stored one (that
  the ranking is the order of the frequencies is what the code intends, see 5).
- *Disc tree*: the co-occurrence counts are those of the window; an item's path is
  found again although scores change only for items that are in the window.
- *DD-tree*: its counter and those of its inner trees stay in step while the interval
  changes, so that freshly sorted trees are compared.

`PROJECT.json` lists the components with their status, and under `hazards` the
places in the code where these properties are at risk.

## 2. The modules

| Module | What it is |
|---|---|
| `SlidingWindow` | Abstract: the last L transactions, and the count of an itemset in them. |
| `WindowIndex` | `WindowIndex::Load` in steps (one per callback and per bit), `Set`, `MarkChunkUsage`, `Count`. |
| `WindowIndexProofs` | Theorems about `WindowIndex`. |
| `FPTree` | The tree as a value and its operations as operators. No state. |
| `SpoRanks` | The ranking of an SPO-tree as a value. No state. |
| `CoocurrenceGraph` | What a disc tree counts of its window, as a value. No state. |
| `StreamTree` | The tree over a stream or a file under `CpTreeFunctor`, `CanTreeFunctor`, `SpoTreeFunctor`, `ExtrapTreeFunctor` and `DiscTreeFunctor`, with `FPTreeFunctor::OnLoad`; `Sort` turn by turn. Uses the three above. |
| `FPTreeProofs` | Lemmas about the tree's operators: which paths a tree stands for. |
| `StreamTreeProofs` | Theorems about `StreamTree`. |
| `DDTree` | `DDTreeFunctor`: the interval, the three counters that wait for it, the kept tree and the verdicts. |
| `DDTreeProofs` | Theorems about `DDTree`. |
| `DriftDetector` | `StructuralStreamDriftDetector` over its tree and data set. |
| `DriftDetectorProofs` | Theorems about `DriftDetector`. |
| `TransactionWindow` | Abstract: transactions appended and not yet popped, and the count of an itemset in them. |
| `VariableWindow` | `VariableWindowDataSet`: `Append`, both branches of `Pop`, `Count`. |
| `VariableWindowProofs` | Theorems about `VariableWindow`. |
| `FPGrowth` | `FPTreeMiner` on a file or window: load functor, `FPGrowth` as a stack of activations, conditional trees, item filter and prune depth. Uses `FPTree`. |
| `FPGrowthProofs` | Theorems about `FPGrowth`. Uses `FPTreeProofs`. |
| `LevelwiseSearch` | Abstract: itemsets in levels, each the accepted ones whose subsets are all in the level before. No threads, no index. |
| `Apriori` | `Apriori` with its worker tasks, the inverted index it counts with, and `GenerateRules`. |
| `AprioriProofs` | Theorems about `Apriori`. |
| `MC...` | The instances TLC checks. |

How they compose. `WindowIndex` treats a functor as anything that may query
whenever it is called back. `StreamTree` is such a functor, and takes from the
window only what `WindowIndex` is shown to provide (the queue, one transaction out
and one in). `DriftDetector` represents its tree by the frequency table, which
`StreamTree` (`TreeHoldsWindow`) shows to follow the window through `Insert`,
`Remove` and `Sort`, and its data set by the interval of transaction numbers it
holds: `VariableWindow` shows that the lists behind it are that window, whatever
`PurgeBlocksUpTo` pops. `FPGrowth` takes the index by what it promises (the count
of an itemset over the file or window) and the tree by the operators of `FPTree`.
`DDTree` owns an extrapolation tree and a CP-tree; `StreamTree` shows what each is for
a fixed interval (`SortedAfterSort`), so `DDTree` only keeps how many transactions a
tree has taken since it was sorted. A sort takes effect within the callback; nothing
else runs meanwhile.

### Correspondence

*WindowIndex.* `pc` is the place in `Load`'s loop; `transaction`,
`transactionNum` are its locals, `mWindow`, `mIndex`, `mActiveChunks` the members.
A chunk is the set of its bits; a row is a function on all chunks, where the code
allocates `L / 32 + 1` of them. `pending` is what the bit loop has left; the code
runs through the vector in order, the model in any order. `frontTxnNum` is
computed modulo `TidMod`, the code's 2^32.

*FPTree.* A node is named by the items on its path, so that two nodes cannot be
confused and re-created nodes are the same node. `count`, `leaves` and `freq` are
the node counts, `mTree->Leaves()` and the frequency table; `next` is the one live
iterator of the leaf list with the two notifications `List` sends it. `RemovePath`
is `FPNode::Remove` including the destructor, which takes the deleted subtree off
the leaf list and out of the frequency table. The node links of the header table
are determined by the set of nodes and are not modelled.

*StreamTree.* `setup` names the functor. There is one action per callback, `OnLoad`
being one action per functor up to the call of `Sort` and one after it; `Sort` is an
action per call of the iterator's `GetNext` and one per loop body. `order` is the table
by which `SortTransaction` sorts (`mFreqAtLastSort`, `mList`, `discriminativeness`),
`Comparator` what `Sort` sorts by: for a sort by frequency the live table, which the
code reads while the sort changes it. A `cp` setup of interval 0 is a CanTree.
Extrapolated counts and discriminativeness are any values: they come from floating
point, and no property may depend on what they are. Which items get one, and when, is
exact: every item met for `extrap`, the items of the window for `disc`, where an item
that left keeps the score it had. The entropy of an SPO-tree is compared with its
threshold as integers. Items are the numbers in which `Item::Init` interns them: a new
item takes the next number.

*SpoRanks.* `Climb` is the inner loop of `Adjust` and `MoveUp` a turn of it, with the swap
and the correction of `diffSum`; a turn that changes nothing is the loop's end, and the
turns are as many as there are ranks. Both loops are recursive functions, so that they can
be reasoned about. `ranking`, `lookup`, `storedRank`, `diffSum` are the members.

*DDTree.* `OnLoad` is an action per outcome: within an interval, at the end of the
first, the second, a stable and a drifted one. `extrap` and `cp` are what DDTree reads
and writes of its inner functors, counters modulo 2^32 where they are unsigned.
`extrap_vd` and `cp_vd` stand for the node vectors by the age of the tree they were
taken from. The similarity is any of a few percentages.

*DriftDetector.* One action per loop turn of `arrangeCheckPoints`, of the searches
and of `PurgeBlocksUpTo`. `Unstable`, `Stable` and `Alike` are the outcomes of the
comparisons at a cut. They rest on floating-point measures, so each is possible at
each cut, within what the code structure allows (`Alike` never at the progressive
method's first cut, whose previous instability is infinite; never with an adaptive
window under the partition method).

*VariableWindow.* One action per operation; `Pop` is an action per branch. A tid
list is a sequence of chunks, a chunk the set of its bits; lists and the index
itself are only as long as `EnsureCapacity` made them, which `Count` depends on.
Item ids start at 1 (`Item::Init`), so an item is its position in the index, and a
new item takes the next id. `Offset` is the unsigned difference of two transaction
numbers, modulo `TidMod`.

*FPGrowth.* `frames` is the call stack of the recursive `FPGrowth`: tree, pattern, and
the items of the header table still to come, in the order of their ids. An action is one
turn of that loop, the short cut for a single path, or the return. `setup` (mode, prune
depth, scores, minimum score), `file`, `minCount` and `order`, the table a CP-tree or
disc tree was last sorted by, are chosen at the start and never change: for a CP-tree it
is the table after any multiple of any sort interval, for a disc tree any of the listed
scores. `SortByFreq` sorts the places of a path that are kept, by the frequency of their
items. The comparator breaks no ties and `std::sort` promises nothing about them. Up to
`setup.stable` places equal ones stay as they were: in libstdc++ a sequence of at most 16
is sorted by insertion, which does that. A longer one comes as the constant `StdSort` has
it, of which `SortAssumption` says only what the C++ standard does: all places, by falling
frequency. In the modes with a tie-break a line is given in one order only, as it is
sorted before use.

The recursion needs one order of equally frequent items in all paths of a tree;
`OneOrder` says when a file gives it. `TiesAgree` (fptree mode only): no two lines have
equally frequent items in opposite orders. `ShortLines`: no line, in fptree mode, and in
any mode no line's frequent items above another one, are too many to stay as they were.
Where it fails a pattern's count may be split between two paths and the pattern be
lost or written from only a part of its lines; what holds all the same is stated without
it: no count is too high, and nothing is written that is infrequent or filtered out.

*Apriori.* `pc` is the place of the main thread: loading, starting tasks, waiting for
their futures in order. A task has the position of its iterator and what it found; it
takes a candidate per step, in any interleaving with the others and with main. The
candidates are copied for each task and main replaces its own only after the last
future, so one variable stands for all copies. A tid list is the set of its numbers
(`TidList::GetChunk` reads chunks the list has not grown to as zero). Confidence and
lift are compared without rounding. The minabssup filter is left out: `Options.cpp`
(275-284) refuses `-minsup` in this mode and then requires it, so the mode cannot be
started; `-minconf` and `-minlift` are parsed, but the thresholds are the constants in
`Apriori.cpp:163`.

## 3. The runs

| Run | Expect | Shows |
|---|---|---|
| `window_index` | pass | The recorded chunks, the rows, the hand-over of a re-used bit from the oldest transaction's items to the newest's, every count a callback can ask for; the refinement to `SlidingWindow`. |
| `window_index_wrap` | violation of `FrontSlotIsReused` | After the transaction number wraps, the front transaction's bit is not the newest one's unless the window length divides 2^32. |
| `stream_tree` | pass | Under each of five functors the tree holds the window at every step, also inside `Sort`; the leaf list is exact; paths stay findable; `Sort` sorts, by frequency or by another table, and ends; blocks are mined full; the SPO ranking's distance sum and the disc tree's co-occurrence counts are exact. |
| `spo_ranks` | violation of `AdjustedRanksAreCorrect` | An item of a loaded transaction that is held back by another of them keeps a wrong rank. |
| `drift_detector` | pass | Tables, tiling and the safety of the newest block under every verdict of every method; the exponential histogram; `Add` returns. |
| `dd_tree` | pass | Whatever the similarities, no counter DDTree depends on is passed by the interval it waits for, the compared trees are freshly sorted (the CP-tree if its interval is DDTree's), and every verdict compares measured similarities. |
| `variable_window` | pass | The bits are those of the queue, across chunk drops; the front transaction's bit is where `Pop` looks; the refinement to `TransactionWindow`. |
| `fpgrowth` | pass | No activation's tree counts an itemset more often than the file does with its pattern, and nothing infrequent or filtered out is written unless the whole tree is one path. Where equally frequent items have one order, the tree is the projection of the file on the pattern, and each frequent itemset whose items the filter keeps is written, once, down to the prune depth. |
| `apriori` | pass | In any interleaving of one to four tasks each level is that of the search without threads; the result is the frequent itemsets; rules rest on itemsets that were found; Apriori ends. |
| `fpgrowth_ties` | violation of `AllFrequentAreMined` | In fptree mode a frequent itemset is missed when two lines have equally frequent items in opposite orders. |
| `fpgrowth_single_path` | violation of `OnlyFrequentAreMined` | A CanTree that is a single path yields itemsets below the minimum. |
| `drift_samples` | violation of `CountsAreOfTheirSample` | The distribution method's counts exceed the size of the halves they are taken from. |

Bounds. `window_index`: two items are enough for an AND of two rows; L = 4 with
chunks of W = 3 bits gives a full chunk and a cut one; transaction numbers wrap at
a multiple of L and the stream is endless, so every alignment of queue and row is
met. `window_index_wrap`: the same with a modulus that L does not divide, as 2^32
is for every window length that is not a power of two. `stream_tree`: three items
have six orders and let a sort move an inner node; three transactions let a path be
shared, end within another and outlive it; CP-tree intervals inside the window and as
long as it, over an endless stream, and files of three lines; SPO-trees over a window
of two and files of four, with a threshold that two swapped neighbours do not reach
and other changes do; extrapolation and disc trees over a window of two, the disc tree
sorted every three transactions, when an item has had time to leave, and two values of
the scores, for equal and different ones. The rankings of an SPO-tree and the counts
multiply the states, so windows are shorter there. `spo_ranks`: a file of five lines,
enough for two items to be loaded together that were held apart before. `drift_detector`: of
two different transactions, blocks of two, four blocks, so that a merged block can be
merged again and then purged or kept; and of equal transactions (only sizes matter)
nine blocks, where `arrangeCheckPoints` merges three times in a call. `dd_tree`: from
an interval of 8, five similarities make it anything from 1 to 14, with changes that
truncate to nothing, and drift both ways; the stream is endless, and CP-trees are
configured with the same interval and with a shorter one, where their count runs
through the wrap of the unsigned numbers, here at 16. `variable_window`: chunks of two
bits and five transactions lie in up to three chunks, so that lists of different
lengths meet and drop chunks they do or do not have; numbers wrap at seven, which
no chunk size divides, and the stream is endless. `fpgrowth`: every file of up to
three lines over three items, every minimum, CP-trees last sorted after any line that
a sort interval can fall on, disc trees with scores against the order of the ids, with
ties, and without a score for an item, and a prune depth of two: three items are
three levels of conditional trees, where the second may be ordered against the first,
and three lines let it branch. Sequences that `std::sort` does not leave in order begin
at three items, in fptree mode, and at two, in a CanTree: there `MCStdSort` turns equal
items round, and without `ShortLines` all three properties that have `OneOrder` as a
hypothesis fail. The two violations need two lines and two items. `apriori`: four items give six pairs, which
two, three and four threads share evenly or not, and levels with fewer candidates than
threads; two lines are enough for an itemset to be frequent, infrequent or absent.

Each property has a mutant, defined beside the code it changes and marked
`Mutant:`, that breaks it.

Fairness. `Sort` and `Add` are loops in the only thread: once entered they take
their next step. `StreamTree` and `DriftDetector` assume weak fairness of exactly
these steps. `Apriori` assumes it of the main thread and of every task: they are
started with `std::launch::async`, each on a thread of its own, share no lock, and the
system schedules them all. Nothing is assumed of the input: a stream may stop anywhere, so no
property says that a transaction arrives.

Deadlock. `WindowIndex` ends in a state where the functors may go on asking, and
`DriftDetector`, `FPGrowth`, `Apriori` and, for a file, `StreamTree` in one that only
stutters; `DDTree`, `VariableWindow` and a stream's `StreamTree` never end. All runs check deadlock.

## 4. The proofs

`WindowIndexProofs` proves, for every set of items, every window length and every
chunk width, that the properties of `window_index` hold: `TypeCorrect`,
`ActiveChunksAreExact`, `RowsAreTheWindow`, `SlotHandedOver`,
`CallbackCountsAreExact`, and `Refinement` (the abstract window). They assume the
module's assumptions on the constants and `EndsBeforeWrap`: the stream ends before
the transaction number wraps. Run `window_index_wrap` shows that this assumption is
needed.

The inductive invariant `IInv` is `TypeOK`, `ControlInv` (what each place in the
loop implies: a front transaction exists when bits are cleared, the queue is full
exactly when an eviction is under way, how the number of transactions and the queue
length are related), `ActiveChunksExact` and `IndexIsWindow`. Types alone are not
inductive: that a push keeps the queue within L follows from control. The rows need
control too, to know which transaction the bit loop is working on. The core of the
argument is arithmetic: transaction numbers in the queue are L consecutive ones at
most, so their slots `n % L` differ (`DivModUnique` and what follows from it), and
the evicted number and the new one have the same slot (`SlotOfFront`). From the rows
and this follows who owns the slot at each place of the loop (`SlotIsFree`). The counts
follow by a bijection between the bits `Count` finds and the positions in the queue.

`VariableWindowProofs` proves, for every number of items, chunk size and window
length, the properties of `variable_window`: `TypeCorrect`, `ListsAreTheWindow`,
`FrontBitFound` and `WindowRefinement`. The only assumption beyond positive sizes is
that a full window and a chunk are shorter than the range of the transaction
numbers. There is no assumption on the length of the stream: unlike `WindowIndex`,
this class only uses distances between numbers, and these survive the wrap. The
inductive invariant is the types, `IndexIsWindow`, and `Numbers`: the queue's numbers
are consecutive, each at the distance from the first chunk's start at which its bit
lies. Types need `Numbers` (a list ends in the chunk of the newest transaction that
has its item, never later), `Pop` needs it to clear the right bit, and the branch of
`Pop` that drops a chunk needs it to know that no other transaction has bits there.
`CountIsExact` is the core of the refinement: on the shortest list the AND with the
others, as far as these go, loses and invents nothing, by a bijection between the
positions left and the transactions that contain the itemset.

`DriftDetectorProofs` proves, for every interval above 1, every set of items, method
and length of the stream, all five safety properties of `drift_detector`:
`TypeCorrect`, `TablesCount`, `CheckPointsTile`, `NewestBlockKept` and
`HistogramKept`. The assumptions are `IntervalAssumption` and `SetupAssumption`: the
settings are ones the program accepts. (With an interval of 1 the first transaction
has no check point, see the hazards.) The inductive invariant has six parts. `Window`:
the ids in the data set are consecutive. `Blocks`: check points are whole numbers of
intervals, each starts where the one before ends, and the last ends at the last
multiple of the interval; from it follow the tiling and that a purge up to a check
point that is not the last leaves the newest block. `Control`: where `block_index` is
in each phase of a call; without it neither the merges nor the purge are known to stay
among the check points. `Counts`: the frequency tables, which during a purge are
right only for the check points after the one purged to; the properties, which speak
of all phases, are stated accordingly. `HistogramInv`: while `arrangeCheckPoints` runs
there may be a third block of one capacity, but only at `block_index`; when the loop
ends there is none. That `Tail` and `Append` change a count by one is proved by
bijections between sets of positions (`HoldingAppend`, `HoldingTail`).

`DDTreeProofs` proves the four properties of `dd_tree` for every first interval, drift
threshold, `-cp-sort-interval` and set of similarities. The invariant ties the three
counters together: the extrapolation functor counts with DDTree to the same interval
(`ExtrapInStep`), and so does the CP functor if it starts from the same one
(`CpInStep`). `IntervalAssumption` bounds intervals below the range of the unsigned
counters. The arithmetic it needs is that a change that is no drift never takes
the whole interval away (`ChangeLeavesSome`).

`AprioriProofs` proves, for every number of items, lines and threads, the properties
of `apriori` but its termination: `TypeCorrect`, `LevelsExact`, `RulesAreSound`, and
`Refinement`: the threads implement `LevelwiseSearch`. In the invariant the tid lists
hold the lines loaded so far (`Index`); candidates and result are the frequent itemsets
of the level and up to it (`Levels`); a task has found what the candidates of its share
before its iterator give (`Tasks`); main has the results of the tasks it waited for, and
these have ended (`Joined`). The argument is in three lemmas. `Places`: the order of
itemsets gives the candidates the places 0, 1, 2, ..., so an iterator that has
advanced `pos` times is at exactly one of them. `SharesCover`: every place is in the
stride of one task, so together the tasks join every candidate, whatever the number of
threads is to that of candidates. `LevelIsJoins`: the frequent itemsets of a size are
the unions of two of one item less that share all but one item; that a level without
itemsets is the last (`NoLarger`) is shown by a smallest counterexample, as induction
is not available.

`StreamTreeProofs` proves, for every functor, window length, interval, threshold, number
of items and set of scores, all safety properties of `stream_tree`:
`TypeCorrect`, `TreeIsTheWindow`, `LeavesAreExact`, `PathsAreInOrder`, `SortSorts`,
`MinedWhenFull`, `SortTransactionChecks`, `CoocurrencesCount` and `DistancesSummed`. The only assumption is
`StreamAssumption`: lengths and numbers of items are positive, intervals natural
numbers, scores integers. Its base is `FPTreeProofs`, which says of each operator of
`FPTree` what it does to the paths a tree stands for. `Stands(t, P)`, for a sequence P of
paths: the nodes are the prefixes of the paths in P, a node's count is the number of
paths through it, an item's frequency the number of paths with it. `Leafed(t)`: the
leaf list holds the childless nodes, each once. `InsertTree` and `RemoveTree` show that
`Insert` and `Remove` add and take off one path; `ReplaceStands` that `Replace` reroutes
all paths that end in a leaf; `SortPathStands` what a turn of `Sort` does to the paths
and to the leaves behind the iterator.
`SortItemsIs` says that the comparators order any set of items (`CmpTotal`), so that two
sorts by one table give one path. `HoldsIs` goes back from counts to paths: what is
counted at a node and at none of its children ends there.

The invariant is `Keeps(tree, window)` (some such P spells the window, transaction by
transaction), `Orders`, `Flow`, `Interned`, `SortCount`, `MineCount`, `TallyCount` and the
types. `Keeps` does not say in which order a path has its transaction's items: during
`Sort` some are moved and some are not. `Orders` does: outside of `Sort` all paths follow
`order`; within it every leaf is in order that the iterator has neither ahead nor in
hand (`SortedBehind`). That is inductive because what a turn puts at the front of the
list, behind the iterator, is in order, and a parent that becomes a leaf goes to its
end, ahead of the iterator, also if that had run off it; when the iterator is at the
end, all leaves are in order, and with them all paths (`SortedAtEnd`). `Interned` (ids in
the order of appearance) is what makes the check with default 0 agree with the
comparator, and carries `DOMAIN order = 1 .. m` through frequency sorts. `MineCount`: the
two counts of transactions, one modulo `blockSize` and one the queue's length, agree
until the window is first full. `Tallies` says that the co-occurrence graph counts the
window; it is kept by a load and an unload because a pair's or an item's count moves by
exactly one if the transaction has it (`OccurringMoves`).

The ranking of an SPO-tree has an invariant of its own, `RanksKept`, inductive next to
the others: ranking and inverse agree, hold the items met, and `diffSum` is the sum of the
distances (`RankInv`). A swap changes two terms of the sum, which is what the code corrects
it by (`TwoTerms`, `SwapKeeps`); a new item's distance is 0 (`PushBackKeeps`), and so are
all after a reset (`ResetKeeps`). What the two loops compute is not unfolded: that the
functions of their turns exist and that every turn keeps `RankInv` is shown by smallest
counterexamples (`TurnsExist`, `ClimbKeeps`, `LoadsExist`, `AdjustKeeps`). That the items
enter in `SortTransaction`'s order does not matter to it, only that they are all there.
Sums over sets are those of the community modules, by a function on subsets: `SumExists`,
`SumPart` (any term can be taken first), `SumAgree`, `SumFibers`.

`TypeOK` says of a disc tree with interval 0 only that its count is a number: such a tree
counts every transaction and is never sorted, the counter wrapping after 2^32 of them,
which is not modelled.

`FPGrowthProofs` proves, for every number of items and lines, every setting, sort
interval, set of scores and minimum count, all properties of `fpgrowth`: `TypeOK`
(`TypeHolds`, with the depth of the recursion), `FramesAreProjections`
(`FramesProject`), `EmittedAreWanted` (`WrittenAreWanted`), `EmittedOnce`
(`WrittenOnce`) and `MinedComplete` (`MinedAllFrequent`). The assumptions are
`MiningAssumption`, positive bounds and settings of their types, and `SortAssumption`:
they hold for every `std::sort` and every length up to which it leaves equal items in
order. `TypeOK`, `EmittedAreWanted` and the first half of `FramesAreProjections` (no
count is too high) are proved for every file. The second half (counts are exact),
`EmittedOnce` and `MinedComplete` have `OneOrder` as a hypothesis, and need it:
`fpgrowth_ties` shows that for `TiesAgree`, the setups of `fpgrowth` with a short
`stable` for `ShortLines`. With libstdc++ `ShortLines` holds if no line has more than 17
frequent items and, in fptree mode, more than 16 items; for other files
these three say nothing.

The argument has three layers. The first says what a conditional tree stands for, in the
terms of `FPTreeProofs`. `FoldStands`: the tree into which a path is inserted for each
of a set of nodes, as often as the node counts, stands for these paths, whatever the
order of the nodes (a smallest counterexample again takes the place of induction).
`ConditionalIs` (`Projects`): if the tree stands for the paths Q of some lines D, its
projection on an item stands for lines E of D that hold the item, all of them unless
nodes are pruned; the path of each is what was above the item and is frequent among E,
sorted by that frequency, and equal items as in Q if the path is short.
`SortByFreqIs`, which this rests on, has the two sorts' common contract from `ShortSort`
and `LongSort` (different places, as many as there are, are all of them). `CountInTreeIs`: what `CountInTree` adds up over nodes is the
number of lines whose path has the itemset.

The second is the inductive invariant `IInv`: types, `Flow`, that `tree` stands for the
loaded lines, `Wrote`, and `FramesInv`, which says that every frame stands for lines of
the file. `Sound` holds in every mode: a line's path has only items of the line outside
the pattern, the line has the pattern, the items of a frame below the outermost are
frequent there and kept by the filter, and *above a kept item there is only what is
kept*. This last part is what "anything above |item| in the tree also will be signalled
to be kept" comes to: it holds in the whole tree since it is sorted by the scores, and a
projection keeps it though it sorts anew. `Exact` needs `OneOrder`: no two paths of a
tree have two items in opposite orders, no path lacks an item of the tree that its line
has, no line with the pattern is missing, and no line has too many frequent items. The
last makes every path of a projection short: its items are frequent in the file and are
not the item it is taken on (`ProjectionShort`). The property `FramesAreProjections` is not
inductive without it: that counts are exact in one tree follows from them being exact
above and *from the common order*, which a projection has again because equal
frequencies leave the order of the tree above (`ProjectionHolds`). `SinglePath`: on a
single path some item of any choice has the others above it, so its count is that of the
choice.

The third is `Tracks`, inductive next to `IInv`. A pattern is *pending* (`Pends`) at an
item that a frame still has to come, if all else of the pattern is above the item in
that frame's tree. No pattern is pending in two places, and none that is pending is
written (`Once`); every frequent pattern of kept items is written or pending (`Full`). A
turn of the loop takes the patterns that are pending at its item, writes the one that
ends there and hands the frequent others to the new frame (`FrameDescends`: each is
pending below exactly one of its items there); the short cut writes just what is pending
in its frame. That a pattern has one place is the common order once more: two items of a
path cannot each be above the other.

Only model-checked: termination of `Sort`, of `Add` and of `Apriori` (liveness is out of
the prover's reach), and the wrapped case of `WindowIndex`. That FP-growth ends is not
stated: each call works on fewer items than its caller, and its depth is bounded
(`TypeOK`).

## 5. Disagreements found

- `src/src/WindowIndex.cpp:169`: the assertion that the front transaction has the
  newest one's slot fails after the counter wraps (`window_index_wrap`). It takes
  2^32 transactions.
- `src/src/StructuralStreamDriftDetector.cpp:549-579`: the distribution method adds
  cumulative tables as if they were per block and measures the halves short
  (`drift_samples`), against the reading of `count` and `N` in `Variance`'s comment.
- `src/src/SpoTreeFunctor.h:35`: `Adjust` moves the items of a transaction up one after
  the other and looks at none twice, so a rank may stay wrong (`spo_ranks`), against the
  comment at `src/src/SpoTreeFunctor.h:30-32`. A wrong rank changes the entropy, that
  is when the tree is sorted, never what it holds.
- `src/src/FPTree.cpp:530`: in fptree mode a line is sorted by frequency only, so
  equally frequent items keep the order of the line, and a pattern is counted in
  parts on two paths (`fpgrowth_ties`). `src/test.sh:29-33` expects the itemsets of
  fptree mode to be Apriori's; the comment at `src/src/FPTree.cpp:50-52` speaks of a
  tie-break that the comparison does not make.
- `src/src/FPTree.cpp:250`: the short cut for a single path compares no count with
  the minimum, and the tree of a CanTree or CP-tree holds infrequent items
  (`fpgrowth_single_path`), against the comment at `src/src/FPTree.cpp:271-273` and
  `src/test.sh:39-43`.

Met on the way, where the code or its documentation is at odds with itself but
no run is needed to see it:

- In every mode a conditional tree is sorted by `FreqCmp` (`src/src/FPTree.cpp:173`) with
  `std::sort`, which does not keep equal items in order. Beyond 16 equally frequent items
  on two paths their order may differ, and a pattern be lost as in `fpgrowth_ties`
  (`ShortLines`).
- `Sort` asserts at its end (`src/src/FPNode.cpp:474`) that the tree is sorted by
  frequency, also after a sort by extrapolated counts or discriminativeness, where it is
  not. `SortedAfterSort` states the order that was asked for.
- A DD-tree changes its CP-tree's interval by differences. If `-cp-sort-interval` is not
  `-blockSize`, the CP-tree is compared unsorted, and a shrinking interval can fall
  below the count, which then has to wrap; `CpTreeIsSortedWhenCompared` is stated for
  equal values. A drift threshold above 100 would allow an interval of 0.
- The linear extrapolation takes differences of unsigned counts
  (`src/src/ExtrapTreeFunctor.h:95-96`), and its sample between the halves of a window
  at the middle of the configured interval (line 255), also when a DD-tree has changed
  the window.
- `-min-disc` "items with d-values less than this are pruned"
  (`src/src/Options.cpp:501`): equal ones and, if the minimum is not negative, unscored
  ones are too (`src/src/DiscTreeFunctor.h:134-138`).
- `-minconf` and `-minlift` are parsed but the constants 0.9 and 1.0 are used
  (`src/src/FPTree.cpp:236`, `src/src/Apriori.cpp:163`).

## 6. Plan

In order; each module with its runs, properties and mutants.

1. `WindowIndex`, `SlidingWindow`, proofs. *Done.*
2. `FPTree`, `StreamTree` with five functors, `SpoRanks`, `CoocurrenceGraph`. *Done.*
3. `DriftDetector`, proofs. *Done.*
4. `VariableWindow`, `TransactionWindow`, proofs. *Done.*
5. `FPGrowth` with the two disagreements, item filter and prune depth. *Done.*
6. `Apriori`, `LevelwiseSearch`, proofs. *Done.*
7. `DDTree`, proofs. *Done.*
8. Proofs about `FPTree` and `StreamTree`: that it holds the window, its leaf list, its
   order, and the counts of the disc tree. *Done.*
9. The ranking of an SPO-tree (`DiffSumValid`). *Done.*
10. Proofs about `FPGrowth`: its conditional trees, the frames, and what is written. *Done.*

### Not modelled

- Option parsing and the choice of the mode, logging, dumps, statistics: no state after
  start-up.
- Floating-point measures: tree and table instability, Hoeffding bounds, variance, the
  entropy of discriminativeness, linear extrapolation and kernel regression. Where control
  depends on them they are nondeterministic verdicts or values.
- The connection table: only the almost-exact option of SSDD reads it, for one such
  measure.
- The similarity of two node vectors in a DD-tree, a pure function of them, and the
  edit distance beside it, which nothing calls.
- Pattern files and the rules generated from them after FP-growth: `GenerateRules` is
  modelled after Apriori; here it reads back what FP-growth wrote, and `EmittedOnce` and
  `MinedComplete` say what that is.
- The minabssup filter: its mode cannot be started.
- Vendored code. HARM's own sources are the some 8,400 lines of C++ directly in
  `src/src`; `src/src/dlib` and googletest, which make up nearly all lines of the
  repository, are third-party. HARM calls one class of dlib, for the kernel regression.
