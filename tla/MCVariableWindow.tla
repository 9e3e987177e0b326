-------------------------- MODULE MCVariableWindow --------------------------
(***************************************************************************)
(* VariableWindow on a small instance: chunks of two bits and up to five   *)
(* transactions, which lie in up to three chunks; numbers wrap at seven    *)
(* and the stream does not end.                                            *)
(***************************************************************************)
EXTENDS VariableWindow
=============================================================================
