--------------------------- MODULE HybridRetrieval ---------------------------
(***************************************************************************)
(* rag/qa.py retrieve_hits(), and the gates of gateway/grounding.py that   *)
(* judge its first hit by the two rankings.                                *)
(*                                                                         *)
(* The chunks are ranked by cosine similarity and by BM25 score, and each  *)
(* ranking gives a chunk 1/(RRF_K + rank + 1) down to a depth of 3 top_k.  *)
(* The embedding model may rank the chunks in any order; a BM25 score is a *)
(* number of a small set, 0 where no word is shared and below 0 where the  *)
(* shared words are in most chunks, and equal scores are ranked by         *)
(* position in the index.  Sums of reciprocals are exact fractions: two    *)
(* that differ are far more than a rounding error apart, and two that are  *)
(* equal are sums of the same floating-point numbers.                      *)
(***************************************************************************)
EXTENDS Integers, Sequences, FiniteSets

CONSTANTS
    Sizes,      \* how many chunks an index may have
    TopKs,      \* how many hits a caller may ask for
    Scores,     \* BM25 scores
    RRF_K,
    MARGIN_MIN  \* how often the runner-up's score the margin gate asks for

ASSUME RetrievalAssumption ==
    /\ Sizes \subseteq Nat \ {0}
    /\ TopKs \subseteq Nat \ {0}
    /\ Scores \subseteq Int
    /\ RRF_K \in Nat
    /\ MARGIN_MIN \in 2..100

VARIABLES
    n,          \* chunks in the index
    top_k, dense_rank, bm25_scores,     \* the query, as the index ranks it
    at,         \* how many places of the two lists have been counted
    fused,      \* the sum of each chunk so far
    entered,    \* the chunks with a sum, in the order they got it
    hits        \* the best of them, in order

query == <<n, top_k, dense_rank, bm25_scores>>
vars == <<query, at, fused, entered, hits>>

Chunks == 1..n
Ranks == 0..(n - 1)

(* Positions in the BM25 order; argsort is stable. *)
bm25_rank == [i \in Chunks |-> Cardinality({j \in Chunks :
    \/ bm25_scores[j] > bm25_scores[i]
    \/ bm25_scores[j] = bm25_scores[i] /\ j < i})]

Depth == IF 3 * top_k < n THEN 3 * top_k ELSE n

(* Fractions *)
Zero == [num |-> 0, den |-> 1]
Plus(f, d) == [num |-> f.num * d + f.den, den |-> f.den * d]
Above(f, g) == f.num * g.den > g.num * f.den

Init ==
    /\ n \in Sizes
    /\ top_k \in TopKs
    /\ dense_rank \in {p \in [Chunks -> Ranks] : \A i, j \in Chunks : p[i] = p[j] => i = j}
    /\ bm25_scores \in [Chunks -> Scores]
    /\ at = 0
    /\ fused = [i \in Chunks |-> Zero]
    /\ entered = <<>>
    /\ hits = <<>>

Entered == {entered[k] : k \in DOMAIN entered}
Hits == {hits[k] : k \in DOMAIN hits}

(* The loop over the dense list, then over the BM25 list *)
Place == at % Depth
Placed(i) == Place = IF at < Depth THEN dense_rank[i] ELSE bm25_rank[i]

Credited_anew(i) == Plus(Zero, RRF_K + Place + 1)
Credited(i) == Plus(fused[i], RRF_K + Place + 1)

EnteredWith_again(i) == Append(entered, i)
EnteredWith(i) == IF i \in Entered THEN entered ELSE Append(entered, i)

Fuse ==
    /\ at < 2 * Depth
    /\ at' = at + 1
    /\ \E i \in Chunks :
          /\ Placed(i)
          /\ fused' = [fused EXCEPT ![i] = Credited(i)]
          /\ entered' = EnteredWith(i)
    /\ UNCHANGED <<query, hits>>

(* sorted(fused, key=fused.get, reverse=True): equal sums stay in the order *)
(* in which they were entered.                                              *)
Precedes_ascending(j, k) ==
    \/ Above(fused[entered[k]], fused[entered[j]])
    \/ j < k /\ ~Above(fused[entered[j]], fused[entered[k]])

Precedes(j, k) ==
    \/ Above(fused[entered[j]], fused[entered[k]])
    \/ j < k /\ ~Above(fused[entered[k]], fused[entered[j]])

Complete == at = 2 * Depth /\ (Len(hits) = top_k \/ Len(hits) = Len(entered))

Select ==
    /\ at = 2 * Depth /\ ~Complete
    /\ \E k \in DOMAIN entered :
          /\ entered[k] \notin Hits
          /\ \A j \in DOMAIN entered : Precedes(j, k) => entered[j] \in Hits
          /\ hits' = Append(hits, entered[k])
    /\ UNCHANGED <<query, at, fused, entered>>

Next == Fuse \/ Select

Spec == Init /\ [][Next]_vars

-----------------------------------------------------------------------------
(* passes_gate() of the first hit.                                          *)

Largest(S) == CHOOSE x \in S : \A y \in S : x >= y
Others(i) == {bm25_scores[j] : j \in Chunks \ {i}}
best_other(i) == IF Others(i) = {} THEN 0 ELSE Largest(Others(i))

Cap == [num |-> 100, den |-> 1]
Ratio(i) == [num |-> bm25_scores[i], den |-> best_other(i)]

_margin_without_words(i) ==
    IF best_other(i) <= 0 \/ Above(Ratio(i), Cap) THEN Cap ELSE Ratio(i)

(* The score of a chunk over the best of the others, which may be 0, below  *)
(* 0, or the score of no chunk at all.                                      *)
_margin(i) ==
    IF best_other(i) <= 0 THEN IF bm25_scores[i] > 0 THEN Cap ELSE Zero
    ELSE IF Above(Ratio(i), Cap) THEN Cap ELSE Ratio(i)

MarginReached(i) == ~Above([num |-> MARGIN_MIN, den |-> 1], _margin(i))

agrees_one(top) == dense_rank[top] = 0 \/ bm25_rank[top] = 0

agrees(top) == dense_rank[top] = 0 /\ bm25_rank[top] = 0

passes_gate(top, gate) ==
    CASE gate = "lexical" -> bm25_scores[top] > 0
      [] gate = "agree"   -> agrees(top)
      [] gate = "margin"  -> agrees(top) /\ MarginReached(top)

-----------------------------------------------------------------------------
(***************************************************************************)
(* Properties.                                                             *)
(***************************************************************************)

(* Every variable has its type; no chunk is entered or hit twice, and the   *)
(* hits are as many as were asked for, or all there are.                    *)
TypeOK ==
    /\ at \in 0..(2 * Depth)
    /\ \A i \in Chunks : fused[i].num \in Nat /\ fused[i].den \in Nat \ {0}
    /\ Entered \subseteq Chunks /\ Cardinality(Entered) = Len(entered)
    /\ Hits \subseteq Entered /\ Cardinality(Hits) = Len(hits)
    /\ Complete => Len(hits) = IF top_k < n THEN top_k ELSE n

(* What a chunk gets from both lists, at once *)
Share(rank) == IF rank < Depth THEN [num |-> 1, den |-> RRF_K + rank + 1] ELSE Zero
RRF(i) ==
    LET d == Share(dense_rank[i])
        b == Share(bm25_rank[i])
    IN  [num |-> d.num * b.den + b.num * d.den, den |-> d.den * b.den]

(* The hits come by their reciprocal rank sums, and no chunk with a larger  *)
(* sum is left out: the loop counts both lists.                             *)
HitsAreBest ==
    Complete =>
        \A k \in DOMAIN hits : \A i \in Chunks :
            Above(RRF(i), RRF(hits[k])) => \E j \in 1..(k - 1) : hits[j] = i

(* A chunk that both rankings place ahead of another comes first, and is    *)
(* never cut off, by the depth or by top_k, in favour of it.                *)
AheadInBothIsAhead ==
    \A k \in DOMAIN hits : \A i \in Chunks :
        dense_rank[i] < dense_rank[hits[k]] /\ bm25_rank[i] < bm25_rank[hits[k]] =>
            \E j \in 1..(k - 1) : hits[j] = i

(* The agree gate lets a citation pass exactly when the two retrievers have *)
(* the same first chunk: fusing the lists never hides that they agree.      *)
AgreeMeansConsensus ==
    Complete => (passes_gate(hits[1], "agree") <=>
        \E i \in Chunks : dense_rank[i] = 0 /\ bm25_rank[i] = 0)

(* The margin gate passes exactly when some chunk of the index is first for *)
(* the embeddings, scores above 0 and at least MARGIN_MIN times what every  *)
(* other chunk does.  The fusion does not hide such a chunk, BM25 cannot    *)
(* rank another before it, and the quotient decides alike when the others   *)
(* score nothing, or less, or when there is no other chunk.                 *)
MarginMeansLead ==
    Complete => (passes_gate(hits[1], "margin") <=>
        \E i \in Chunks :
            /\ dense_rank[i] = 0
            /\ bm25_scores[i] > 0
            /\ \A j \in Chunks \ {i} : bm25_scores[i] >= MARGIN_MIN * bm25_scores[j])
==============================================================================
