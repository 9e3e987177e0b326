------------------------------- MODULE DDTree -------------------------------
(***************************************************************************)
(* DDTreeFunctor: drift detection by comparing two trees over one stream.  *)
(* At the end of every interval the CP-tree, sorted by the frequencies of  *)
(* now, is compared with what the extrapolation tree said one interval     *)
(* ago.  The similarities of consecutive intervals are compared in turn: a *)
(* large change is drift, and the interval starts again from blockSize; a  *)
(* small one makes the interval longer or shorter in proportion.           *)
(*                                                                         *)
(* Three counters run side by side, DDTree's own and those by which the    *)
(* two inner functors sort their trees, each with its own copy of the      *)
(* interval, which DDTree changes from outside.  They all wait for         *)
(* count == interval.  The trees themselves are in StreamTree; here a tree *)
(* is how many transactions it has taken since it was sorted.  OnUnload    *)
(* and OnEndLoad touch none of the variables.                              *)
(***************************************************************************)
EXTENDS Integers

CONSTANTS
  mBlockSize,        (* The interval to start from.                        *)
  CpSortIntervals,   (* cp-sort-interval: the values to consider.          *)
  driftThreshold,    (* The least change of similarity that is drift.      *)
  Similarities,      (* Bound: what getSimilarity may return; percentages. *)
  Wrap,              (* The modulus of unsigned numbers: 2^32.             *)
  MaxWindow          (* Bound on the growth of the interval.               *)

(* The command line admits thresholds above 100; a fall of similarity from *)
(* 100 to 0 would then make the interval 0, which no counter ever meets.   *)
ASSUME IntervalAssumption ==
  /\ mBlockSize \in Nat \ {0}
  /\ MaxWindow \in Nat /\ mBlockSize <= MaxWindow
  /\ Wrap \in Nat /\ MaxWindow < Wrap
  /\ CpSortIntervals \subseteq 1 .. (Wrap - 1)
ASSUME SimilarityAssumption ==
  /\ Similarities \subseteq 0 .. 100 /\ Similarities # {}
  /\ driftThreshold \in 1 .. 100

VARIABLES
  cpSortInterval,   (* As configured: never changes.                       *)
  count,            (* Transactions of the interval so far.                *)
  windowSize,       (* The interval.                                       *)
  interval_count,   (* Intervals since the start or the last drift; the    *)
                    (* code tells no more than Several of them apart.      *)
  pre_sm,           (* The last similarity, 0 before the first; between    *)
                    (* transactions cur_sm is the same.                    *)
  extrap,           (* ExtrapFunctor: its count and its windowSize.        *)
  cp,               (* CpFunctor: its count and its interval.              *)
  extrap_vd,        (* The nodes of the extrapolation tree, kept from the  *)
                    (* end of the last interval: how many transactions the *)
                    (* tree had taken since it was sorted (unsorted), and  *)
                    (* how many have come since it was kept (age).         *)
  cp_vd,            (* The nodes of the CP-tree that were compared: how    *)
                    (* many transactions it had taken since it was sorted. *)
  measured          (* History: similarities measured since the start or   *)
                    (* the last drift, up to Several.                      *)

vars == <<cpSortInterval, count, windowSize, interval_count, pre_sm,
          extrap, cp, extrap_vd, cp_vd, measured>>

Several == 3
Saturated(n) == IF n > Several THEN Several ELSE n

(* An inner functor's OnLoad: its count after one more transaction, 0 when *)
(* that makes it sort its tree.                                            *)
SortEvery(interval, n) ==
  IF (n + 1) % Wrap = interval THEN 0 ELSE (n + 1) % Wrap

ExtrapLoaded == [extrap EXCEPT !.count = SortEvery(extrap.windowSize, @)]
CpLoaded == [cp EXCEPT !.count = SortEvery(cp.interval, @)]

(* Conversion of n / 100 to int.                                           *)
IntOfHundredths(n) == IF n >= 0 THEN n \div 100 ELSE -((-n) \div 100)

(* Mutant: the extrapolation functor is left out.                          *)
ChangeIntervalOfCp(sm_diff) ==
  LET diff == IntOfHundredths(sm_diff * windowSize)
  IN /\ windowSize' = windowSize + diff
     /\ extrap' = ExtrapLoaded
     /\ cp' = [CpLoaded EXCEPT !.interval = (@ + diff) % Wrap]

ChangeInterval(sm_diff) ==
  LET diff == IntOfHundredths(sm_diff * windowSize)
  IN /\ windowSize' = windowSize + diff
     /\ extrap' = [ExtrapLoaded EXCEPT !.windowSize = @ + diff]
     /\ cp' = [CpLoaded EXCEPT !.interval = (@ + diff) % Wrap]

(* Mutant: the CP functor keeps the interval it has.                       *)
InitIntervalOfExtrap(val) ==
  /\ windowSize' = val
  /\ extrap' = [ExtrapLoaded EXCEPT !.windowSize = val]
  /\ cp' = CpLoaded

initInterval(val) ==
  /\ windowSize' = val
  /\ extrap' = [ExtrapLoaded EXCEPT !.windowSize = val]
  /\ cp' = [CpLoaded EXCEPT !.interval = val]
-----------------------------------------------------------------------------
Init ==
  /\ cpSortInterval \in CpSortIntervals
  /\ count = 0
  /\ windowSize = mBlockSize
  /\ interval_count = 0
  /\ pre_sm = 0
  /\ extrap = [count |-> 0, windowSize |-> mBlockSize]
  /\ cp = [count |-> 0, interval |-> cpSortInterval]
  /\ extrap_vd = [unsorted |-> 0, age |-> 0]
  /\ cp_vd = 0
  /\ measured = 0

(***************************************************************************)
(* OnLoad, by how far it gets.                                             *)
(***************************************************************************)

(* Within an interval only the inner functors work.                        *)
OnLoad ==
  /\ count + 1 # windowSize
  /\ extrap' = ExtrapLoaded
  /\ cp' = CpLoaded
  /\ count' = count + 1
  /\ extrap_vd' = [extrap_vd EXCEPT !.age = @ + 1]
  /\ UNCHANGED <<cpSortInterval, windowSize, interval_count, pre_sm,
                 cp_vd, measured>>

(* Mutant: the count is not started again.                                 *)
EndOfIntervalCountingOn ==
  /\ count + 1 = windowSize
  /\ count' = count + 1
  /\ extrap_vd' = [unsorted |-> ExtrapLoaded.count, age |-> 0]
  /\ UNCHANGED cpSortInterval

(* What the end of any interval has in common.                             *)
EndOfInterval ==
  /\ count + 1 = windowSize
  /\ count' = 0
  /\ extrap_vd' = [unsorted |-> ExtrapLoaded.count, age |-> 0]
  /\ UNCHANGED cpSortInterval

(* The first interval: nothing has been extrapolated yet.                  *)
OnLoadFirst ==
  /\ EndOfInterval
  /\ interval_count = 0
  /\ interval_count' = 1
  /\ extrap' = ExtrapLoaded
  /\ cp' = CpLoaded
  /\ UNCHANGED <<windowSize, pre_sm, cp_vd, measured>>

(* The CP-tree is compared with the nodes kept of the extrapolation tree.  *)
Measure(sm) ==
  /\ interval_count > 0
  /\ cp_vd' = CpLoaded.count
  /\ pre_sm' = sm

(* The second one, of the stream or after a drift: there is no similarity  *)
(* to compare with.                                                        *)
OnLoadSecond(sm) ==
  /\ EndOfInterval
  /\ interval_count = 1
  /\ Measure(sm)
  /\ interval_count' = 2
  /\ measured' = Saturated(measured + 1)
  /\ extrap' = ExtrapLoaded
  /\ cp' = CpLoaded
  /\ UNCHANGED windowSize

Drifted(sm) == sm - pre_sm >= driftThreshold \/ pre_sm - sm >= driftThreshold

OnLoadStable(sm) ==
  /\ EndOfInterval
  /\ interval_count >= 2
  /\ Measure(sm)
  /\ ~Drifted(sm)
  /\ interval_count' = Saturated(interval_count + 1)
  /\ measured' = Saturated(measured + 1)
  /\ ChangeInterval(sm - pre_sm)
  /\ windowSize' <= MaxWindow

(* Mutant: the next verdict compares with the similarity before the drift. *)
OnLoadDriftStillCounting(sm) ==
  /\ EndOfInterval
  /\ interval_count >= 2
  /\ Measure(sm)
  /\ Drifted(sm)
  /\ interval_count' = Saturated(interval_count + 1)
  /\ measured' = 0
  /\ initInterval(mBlockSize)

OnLoadDrift(sm) ==
  /\ EndOfInterval
  /\ interval_count >= 2
  /\ Measure(sm)
  /\ Drifted(sm)
  /\ interval_count' = 1
  /\ measured' = 0
  /\ initInterval(mBlockSize)

Next ==
  \/ OnLoad
  \/ OnLoadFirst
  \/ \E sm \in Similarities :
       \/ OnLoadSecond(sm)
       \/ OnLoadStable(sm)
       \/ OnLoadDrift(sm)

Spec == Init /\ [][Next]_vars
-----------------------------------------------------------------------------
(* Every variable has its type, and the end of the interval is ahead: the  *)
(* window is at least one transaction, and its count below it, however the *)
(* similarities rose and fell.  Otherwise no interval would ever end again.*)
TypeOK ==
  /\ cpSortInterval \in CpSortIntervals
  /\ windowSize \in 1 .. MaxWindow
  /\ count \in 0 .. (windowSize - 1)
  /\ interval_count \in 0 .. Several
  /\ pre_sm \in Similarities \cup {0}
  /\ extrap \in [count : 0 .. (Wrap - 1), windowSize : 1 .. MaxWindow]
  /\ cp \in [count : 0 .. (Wrap - 1), interval : 0 .. (Wrap - 1)]
  /\ extrap_vd \in [unsorted : 0 .. (Wrap - 1), age : 0 .. (windowSize - 1)]
  /\ cp_vd \in 0 .. (Wrap - 1)
  /\ measured \in 0 .. Several

(* What the CP-tree is compared with is what the extrapolation tree said   *)
(* at the end of the interval before, no earlier, and just after it was    *)
(* sorted by the extrapolated counts: the functor's count and copy of the  *)
(* interval never leave DDTree's, though both are changed in mid-stream.   *)
ExtrapolationIsOfLastInterval ==
  interval_count > 0 => extrap_vd = [unsorted |-> 0, age |-> count]

(* The CP-tree is compared just after it was sorted by frequency, if it is *)
(* configured with the interval DDTree starts from: its count has not      *)
(* passed its interval when that shrinks, nor is it ahead when it grows.   *)
(* With another cp-sort-interval neither holds, see the README.            *)
CpTreeIsSortedWhenCompared ==
  cpSortInterval = mBlockSize => cp_vd = 0

(* A verdict compares two measured similarities, both from intervals since *)
(* the last drift: never the 0 they are initialised with, nor the one that *)
(* was found to be drift.                                                  *)
VerdictsCompareMeasured == interval_count >= 2 => measured >= 1
=============================================================================
