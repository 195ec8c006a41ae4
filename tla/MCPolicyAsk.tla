---------------------------- MODULE MCPolicyAsk ----------------------------
(* PolicyAsk on a small pool of requests, interchangeable in safety runs.  *)
EXTENDS PolicyAsk, TLC

Symmetry == Permutations(Requests)
=============================================================================
