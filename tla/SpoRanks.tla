------------------------------ MODULE SpoRanks ------------------------------
(***************************************************************************)
(* The ranking an SPO-tree keeps of the items it has met (class SpoRanks,  *)
(* SpoTreeFunctor.h), by which it decides when to sort.  A ranking is a    *)
(* record:                                                                 *)
(*    ranking     the items, from the most frequent down                   *)
(*    lookup      item -> its rank, its place in ranking counted from 0    *)
(*    storedRank  item -> its rank at the last sort                        *)
(*    diffSum     the sum of the distances between the two                 *)
(***************************************************************************)
EXTENDS Integers, Sequences

NoRanks ==
  [ranking |-> << >>, lookup |-> << >>, storedRank |-> << >>, diffSum |-> 0]

(* The map f with item mapped to value.                                    *)
SetKey(f, item, value) ==
  [i \in DOMAIN f \cup {item} |-> IF i = item THEN value ELSE f[i]]

(* How far an item is from its stored rank.                                *)
delta(r, item) ==
  LET diff == r.lookup[item] - r.storedRank[item]
  IN IF diff > 0 THEN diff ELSE -diff

(* Mutant: a new item's stored rank is 0.                                  *)
PushBackStoredFirst(r, item) ==
  IF item \in DOMAIN r.lookup THEN r
  ELSE [ranking    |-> Append(r.ranking, item),
        lookup     |-> SetKey(r.lookup, item, Len(r.ranking)),
        storedRank |-> SetKey(r.storedRank, item, 0),
        diffSum    |-> r.diffSum]

(* An item that is new to the ranking enters it at the end.                *)
PushBack(r, item) ==
  IF item \in DOMAIN r.lookup THEN r
  ELSE [ranking    |-> Append(r.ranking, item),
        lookup     |-> SetKey(r.lookup, item, Len(r.ranking)),
        storedRank |-> SetKey(r.storedRank, item, Len(r.ranking)),
        diffSum    |-> r.diffSum]

(* The item changes places with the one before it.                         *)
SwapWithPrevious(r, item) ==
  LET rank    == r.lookup[item]
      prev    == r.ranking[rank]
      swapped == [ranking    |-> [r.ranking EXCEPT ![rank] = item, ![rank + 1] = prev],
                  lookup     |-> [r.lookup EXCEPT ![prev] = rank, ![item] = rank - 1],
                  storedRank |-> r.storedRank,
                  diffSum    |-> r.diffSum]
  IN [swapped EXCEPT !.diffSum = @ - delta(r, item) - delta(r, prev)
                                   + delta(swapped, item) + delta(swapped, prev)]

(* A turn of Adjust's inner loop, which has ended if it changes nothing.   *)
MoveUp(r, freq, item) ==
  LET rank == r.lookup[item]
      prev == r.ranking[rank]
  IN IF /\ rank > 0
        /\ \/ freq[prev] < freq[item]
           \/ freq[prev] = freq[item] /\ item < prev
     THEN SwapWithPrevious(r, item)
     ELSE r

(* Adjust's inner loop: the item moves up as long as the one before it is  *)
(* less frequent.                                                          *)
Climb(r, freq, item) ==
  LET after[turn \in 0 .. Len(r.ranking)] ==
        IF turn = 0 THEN r ELSE MoveUp(after[turn - 1], freq, item)
  IN after[Len(r.ranking)]

(* Adjust: the items of a transaction, each in its turn.                   *)
Adjust(ranks, freq, txn) ==
  LET after[k \in 0 .. Len(txn)] ==
        IF k = 0 THEN ranks ELSE Climb(PushBack(after[k - 1], txn[k]), freq, txn[k])
  IN after[Len(txn)]

(* The current ranks are the stored ones.                                  *)
ResetEntropy(r) ==
  [r EXCEPT !.storedRank = [item \in DOMAIN @ |->
                              CHOOSE k \in 0 .. (Len(r.ranking) - 1) :
                                r.ranking[k + 1] = item],
            !.diffSum = 0]

(* The entropy is above a threshold, given as a fraction <<p, q>>.  For a  *)
(* single item the entropy is 0 / 0, which is above none.                  *)
RankEntropyAbove(r, threshold) ==
  LET n == Len(r.ranking)
  IN r.diffSum * threshold[2] > threshold[1] * (n * (n - 1) + (n * n) \div 4)
=============================================================================
