--------------------------- MODULE MCWindowIndex ---------------------------
(***************************************************************************)
(* WindowIndex on small instances.  Two items are an AND of two rows; with *)
(* L = 4 and W = 3 a row is a full chunk and one that is cut short, as it  *)
(* is in the code for every window length that 32 does not divide.         *)
(*                                                                         *)
(* MCWindowIndex.cfg wraps the transaction numbers at a multiple of L and  *)
(* never ends the stream; MCWindowIndexWrap.cfg wraps them where 2^32 does *)
(* for most window lengths, at a number L does not divide.                 *)
(***************************************************************************)
EXTENDS WindowIndex
=============================================================================
