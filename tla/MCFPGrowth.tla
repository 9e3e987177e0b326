----------------------------- MODULE MCFPGrowth -----------------------------
(***************************************************************************)
(* FPGrowth on small instances.  Three items are three levels of           *)
(* conditional trees, of which the second may have another order than the  *)
(* first; three lines let it branch.  The disc tree's scores rank the      *)
(* items the other way round than the header table, which runs through 1,  *)
(* 2, 3; with ties; and without knowing an item that a minimum then        *)
(* filters out.                                                            *)
(*                                                                         *)
(* With stable = 16, as in libstdc++, no sequence is long.  With 2 or 1    *)
(* some are: then a std::sort that turns equal items round disagrees with  *)
(* what it does to the short ones.                                         *)
(***************************************************************************)
EXTENDS FPGrowth, TLC

SequencesExt == INSTANCE SequencesExt

MCStdSort(freq) ==
  SequencesExt!SetToSortSeq(DOMAIN freq,
    LAMBDA j, k : freq[j] > freq[k] \/ (freq[j] = freq[k] /\ j > k))

MCSetup(m, depth, table, d, n) ==
  [mode |-> m, pruneDepth |-> depth, scores |-> table, min_disc |-> d, stable |-> n]

MCSetups ==
  {MCSetup(m, depth, NoTable, -1, 16) :
     m \in {"fptree", "cantree", "cptree"}, depth \in {2, Unpruned}}
  \cup {MCSetup("disctree", Unpruned, table, 1, 16) :
          table \in {NoTable, <<1, 2, 3>>, <<2, 1, 2>>, 2 :> 1 @@ 3 :> 2}}
  \cup {MCSetup("disctree", Unpruned, <<1, 2, 3>>, -1, 16)}
  \cup {MCSetup("fptree", Unpruned, NoTable, -1, 2),
        MCSetup("cantree", Unpruned, NoTable, -1, 1)}

MCFptree == {MCSetup("fptree", Unpruned, NoTable, -1, 16)}
MCCantree == {MCSetup("cantree", Unpruned, NoTable, -1, 16)}
=============================================================================
