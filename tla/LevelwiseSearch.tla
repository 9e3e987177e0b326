--------------------------- MODULE LevelwiseSearch ---------------------------
(***************************************************************************)
(* What Apriori promises: itemsets in levels, one more item in each.  An   *)
(* itemset belongs to a level if the filter accepts it and all its subsets *)
(* of one item less belong to the level before.  There are no threads, no  *)
(* joins and no index here; Apriori is shown to implement this.            *)
(***************************************************************************)
EXTENDS Naturals, FiniteSets

CONSTANT Ids  (* The items.                                                *)

VARIABLES
  accepted, (* The itemsets the filter accepts.  Does not change.          *)
  level,    (* The size of the itemsets of the level; 0 before the first.  *)
  family    (* The itemsets of the level.                                  *)

Patterns == (SUBSET Ids) \ {{}}

Level(n, below) ==
  {S \in Patterns :
     /\ Cardinality(S) = n
     /\ S \in accepted
     /\ n > 1 => \A i \in S : S \ {i} \in below}

Init == accepted \in SUBSET Patterns /\ level = 0 /\ family = {}

Next ==
  /\ level = 0 \/ family # {}
  /\ level' = level + 1
  /\ family' = Level(level + 1, family)
  /\ UNCHANGED accepted

Spec == Init /\ [][Next]_<<accepted, level, family>>
=============================================================================
