----------------------------- MODULE MCApriori -----------------------------
(***************************************************************************)
(* Apriori on a small instance: four items give up to six pairs, which one *)
(* to four threads share evenly or not; at the first and the last levels   *)
(* there are fewer candidates than threads.                                *)
(***************************************************************************)
EXTENDS Apriori
=============================================================================
