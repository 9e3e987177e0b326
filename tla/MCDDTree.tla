------------------------------ MODULE MCDDTree ------------------------------
(***************************************************************************)
(* DDTree on a small instance: intervals from 1 to 14 transactions, from   *)
(* falls and rises of the similarity that truncate to nothing, to one and  *)
(* to several transactions, and falls and rises that are drift.  The       *)
(* CP-tree is configured with the interval DDTree starts from and with     *)
(* another one; in the latter case its count passes its interval and runs  *)
(* through the wrap of unsigned numbers.                                   *)
(***************************************************************************)
EXTENDS DDTree
=============================================================================
