---------------------------- MODULE MCStreamTree ----------------------------
(***************************************************************************)
(* StreamTree on small instances.  Three items have six orders, enough for *)
(* a sort to move an inner node; three transactions let a path be shared,  *)
(* end inside another and outlive it.                                      *)
(*                                                                         *)
(* A CanTree (0), and CP-trees that sort when part of the window (2) or    *)
(* all of it (3) is new since the last sort.  SPO-trees over a stream and  *)
(* over a file, that sort when two of three items, or one and the middle   *)
(* one, have changed places, but not for neighbours.  An extrapolation     *)
(* tree, and a disc tree that is sorted when an item has had time to leave *)
(* the window since the sort before; two scores make equal and different   *)
(* ones.                                                                   *)
(***************************************************************************)
EXTENDS StreamTree

Setup(functor, streaming, length, interval, threshold) ==
  [functor |-> functor, streaming |-> streaming, length |-> length,
   interval |-> interval, threshold |-> threshold, items |-> 3]

AboveAll == <<1, 1>>

MCSetups ==
  {Setup("cp", TRUE, 3, interval, AboveAll) : interval \in {0, 2, 3}}
  \cup {Setup("cp", FALSE, 3, 2, AboveAll),
        Setup("spo", TRUE, 2, 0, <<1, 3>>),
        Setup("spo", FALSE, 4, 0, <<1, 3>>),
        Setup("extrap", TRUE, 2, 0, AboveAll),
        Setup("disc", TRUE, 2, 3, AboveAll)}

(* A file of five lines into an SPO-tree.                                  *)
MCSpoFile == {Setup("spo", FALSE, 5, 0, <<2, 5>>)}
=============================================================================
