-------------------------- MODULE CoocurrenceGraph --------------------------
(***************************************************************************)
(* Which items of the window occur together how often, as a disc tree      *)
(* counts it (CoocurrenceGraph.cpp, and mItemFreq and mItems of            *)
(* DiscTreeFunctor.h).  The graph maps a pair <<a, b>> to the count in a's *)
(* neighbourhood; an entry that would be 0 is erased, and a neighbourhood  *)
(* without entries is freed, so a neighbourhood is the pairs that begin    *)
(* with its item.  A tally is a record:                                    *)
(*    coocurrences  the graph                                              *)
(*    mItemFreq     item -> how often it occurs                            *)
(*    mItems        the items that do occur                                *)
(***************************************************************************)
EXTENDS Integers, FiniteSets

NoTally == [coocurrences |-> << >>, mItemFreq |-> << >>, mItems |-> {}]

(* Each item of a transaction with each other one, both ways round.        *)
PairsOf(txn) == {p \in txn \X txn : p[1] # p[2]}

(* The map f with 1 more for the keys in S, and 1 less.                    *)
CountUp(f, S) ==
  [k \in DOMAIN f \cup S |->
     (IF k \in DOMAIN f THEN f[k] ELSE 0) + (IF k \in S THEN 1 ELSE 0)]
CountDown(f, S) ==
  [k \in DOMAIN f |-> f[k] - (IF k \in S THEN 1 ELSE 0)]

Increment(graph, txn) == CountUp(graph, PairsOf(txn))

(* Mutant: only the entries of the smaller item are decremented.           *)
DecrementOneWay(graph, txn) ==
  LET less == CountDown(graph, {p \in PairsOf(txn) : p[1] < p[2]})
  IN [p \in {q \in DOMAIN less : less[q] > 0} |-> less[p]]

Decrement(graph, txn) ==
  LET less == CountDown(graph, PairsOf(txn))
  IN [p \in {q \in DOMAIN less : less[q] > 0} |-> less[p]]

(* What OnLoad and OnUnload of the disc tree count.                        *)
TallyLoad(tally, txn) ==
  [coocurrences |-> Increment(tally.coocurrences, txn),
   mItemFreq    |-> CountUp(tally.mItemFreq, txn),
   mItems       |-> tally.mItems \cup
                      {x \in txn : x \in DOMAIN tally.mItemFreq => tally.mItemFreq[x] = 0}]

TallyUnload(tally, txn) ==
  [coocurrences |-> Decrement(tally.coocurrences, txn),
   mItemFreq    |-> CountDown(tally.mItemFreq, txn),
   mItems       |-> tally.mItems \ {x \in txn : tally.mItemFreq[x] = 1}]
=============================================================================
