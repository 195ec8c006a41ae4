--------------------------- MODULE MCBreakerTable ---------------------------
(* BreakerTable for TLC: the three providers, one of them in two spellings, *)
(* and a provider that does not exist.  Requests are interchangeable.       *)
EXTENDS BreakerTable, TLC

MCNames == Known \cup {"Ollama", "gpt"}
MCLower == [n \in MCNames |-> IF n = "Ollama" THEN "ollama" ELSE n]

MCSymmetry == Permutations(Requests)
==============================================================================
