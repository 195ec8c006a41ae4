-------------------------- MODULE MCHybridRetrieval --------------------------
(* HybridRetrieval for TLC: scores below zero, of no shared word, at the     *)
(* margin and beyond its cap.                                                *)
EXTENDS HybridRetrieval

MCScores == {-1, 0, 1, 2, 201}
==============================================================================
