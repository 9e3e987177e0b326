------------------------- MODULE TransactionWindow -------------------------
(***************************************************************************)
(* What a data set of variable length promises the drift detector: the     *)
(* transactions appended and not yet popped, and for any itemset the       *)
(* number of those that contain it.  VariableWindow is shown to implement  *)
(* this.                                                                   *)
(***************************************************************************)
EXTENDS Integers, Sequences, FiniteSets

CONSTANT Ids  (* The items, by the number Item::Init gives them.           *)

VARIABLES
  window, (* The transactions, the oldest first.                           *)
  answer  (* The last itemset asked about and the count that was returned. *)

(* DataSetReader drops repeated items and refuses an empty line.           *)
Itemsets == (SUBSET Ids) \ {{}}

CountIn(w, S) == Cardinality({n \in DOMAIN w : S \subseteq w[n]})

NoAnswer == [query |-> {}, count |-> 0]

Init == window = << >> /\ answer = NoAnswer

Enter(items) == window' = Append(window, items) /\ UNCHANGED answer

Leave == window # << >> /\ window' = Tail(window) /\ UNCHANGED answer

Ask(S) ==
  /\ answer' = [query |-> S, count |-> CountIn(window, S)]
  /\ UNCHANGED window

Next ==
  \/ \E items \in Itemsets : Enter(items)
  \/ Leave
  \/ \E S \in Itemsets : Ask(S)

Spec == Init /\ [][Next]_<<window, answer>>
=============================================================================
