-------------------------- MODULE MCDriftDetector --------------------------
(***************************************************************************)
(* DriftDetector on small instances.                                       *)
(*                                                                         *)
(* MCDriftDetector.cfg: a stream of two different transactions, so that    *)
(* the tables tell them apart, with up to four check points of two; and    *)
(* one of equal transactions, as only the sizes of the check points matter *)
(* to it, but with nine check points, enough for arrangeCheckPoints to     *)
(* merge three times in one call and for the searches to merge and purge   *)
(* what it has arranged.  Both with all three methods, and with and        *)
(* without the adaptive window.                                            *)
(* MCDriftDetectorSamples.cfg: the counts of the distribution method.      *)
(***************************************************************************)
EXTENDS DriftDetector

CONSTANTS a, b

MCItems == {a, b}

MCStreams == {[lines |-> {{a}, {a, b}}, length |-> 9],
              [lines |-> {{a}}, length |-> 18]}
MCSetups ==
  {[method |-> m, adaptive |-> d, lines |-> s.lines, length |-> s.length] :
     m \in AllMethods, d \in BOOLEAN, s \in MCStreams}

MCSampleSetups ==
  {[method |-> "distribution", adaptive |-> FALSE, lines |-> {{a}}, length |-> 8]}
=============================================================================
