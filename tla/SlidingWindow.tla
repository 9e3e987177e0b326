--------------------------- MODULE SlidingWindow ---------------------------
(***************************************************************************)
(* What a stream index promises to the mining code that queries it: the    *)
(* last L transactions of the stream, and for any itemset the number of    *)
(* those transactions that contain it.  There is no index here, no bit and *)
(* no transaction number; WindowIndex is shown to implement this.          *)
(***************************************************************************)
EXTENDS Integers, Sequences, FiniteSets

CONSTANTS
  Items,  (* The items a transaction is made of.                           *)
  L       (* The length of the window (the blockSize argument).            *)

VARIABLES
  window, (* The last L transactions, the oldest first.                    *)
  answer  (* The last itemset asked about and the count that was returned. *)

(* DataSetReader drops repeated items and refuses an empty line, so a      *)
(* transaction is a non-empty set.                                         *)
Transactions == (SUBSET Items) \ {{}}

(* The support count: in how many transactions of w all of S occurs.       *)
CountIn(w, S) == Cardinality({i \in DOMAIN w : S \subseteq w[i]})

NoAnswer == [query |-> {}, count |-> 0]

Init ==
  /\ window = << >>
  /\ answer = NoAnswer

(* A transaction enters; it pushes the oldest one out of a full window.    *)
Slide(txn) ==
  /\ window' = Append(IF Len(window) = L THEN Tail(window) ELSE window, txn)
  /\ UNCHANGED answer

(* A query is answered from exactly the transactions in the window.        *)
Ask(S) ==
  /\ answer' = [query |-> S, count |-> CountIn(window, S)]
  /\ UNCHANGED window

Next ==
  \/ \E txn \in Transactions : Slide(txn)
  \/ \E S \in Transactions : Ask(S)

Spec == Init /\ [][Next]_<<window, answer>>
=============================================================================
