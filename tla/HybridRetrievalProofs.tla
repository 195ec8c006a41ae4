------------------------ MODULE HybridRetrievalProofs ------------------------
(***************************************************************************)
(* Proofs about HybridRetrieval for any number of chunks, any ranking of    *)
(* them, any scores and any number of hits asked for.                       *)
(***************************************************************************)
EXTENDS HybridRetrieval, FiniteSetTheorems, SequenceTheorems, WellFoundedInduction, TLAPS

-----------------------------------------------------------------------------
(* Arithmetic.                                                              *)

(* The place in the second list, of what is counted after the first. *)
LEMMA Wraps ==
    ASSUME NEW d \in Nat \ {0}, NEW a \in Nat, a < 2 * d
    PROVE  a % d = IF a < d THEN a ELSE a - d
OBVIOUS

(* A sum of two reciprocals grows when both denominators shrink. *)
LEMMA BothShrink ==
    ASSUME NEW a \in Nat \ {0}, NEW b \in Nat \ {0}, NEW c \in Nat, NEW d \in Nat, a < c, b < d
    PROVE  (b + a) * (c * d) > (d + c) * (a * b)
<1>1. a * c > 0 /\ b * d > 0 /\ d - b > 0 /\ c - a > 0
    OBVIOUS
<1>2. (a * c) * (d - b) > 0 /\ (b * d) * (c - a) > 0
    BY <1>1
<1>3. (b + a) * (c * d) - (d + c) * (a * b) = (a * c) * (d - b) + (b * d) * (c - a)
    OBVIOUS
<1> QED  BY <1>2, <1>3

(* It also grows when one denominator shrinks and the other is all new. *)
LEMMA OneShrinks ==
    ASSUME NEW a \in Nat \ {0}, NEW b \in Nat \ {0}, NEW c \in Nat, a < c
    PROVE  (b + a) * c > a * b
<1>1. a * c > 0 /\ b * (c - a) > 0
    OBVIOUS
<1>2. (b + a) * c - a * b = b * (c - a) + a * c
    OBVIOUS
<1> QED  BY <1>1, <1>2

-----------------------------------------------------------------------------
(* The BM25 order.                                                          *)

(* A query is one the index can rank. *)
QueryInv ==
    /\ n \in Sizes
    /\ top_k \in TopKs
    /\ dense_rank \in [Chunks -> Ranks]
    /\ \A i, j \in Chunks : dense_rank[i] = dense_rank[j] => i = j
    /\ bm25_scores \in [Chunks -> Scores]

Beats(j, i) ==
    \/ bm25_scores[j] > bm25_scores[i]
    \/ bm25_scores[j] = bm25_scores[i] /\ j < i

Beaters(i) == {j \in Chunks : Beats(j, i)}

(* There are finitely many chunks, n of them. *)
LEMMA ChunksAreFinite ==
    ASSUME QueryInv
    PROVE  /\ n \in Nat \ {0}
           /\ IsFiniteSet(Chunks)
           /\ Cardinality(Chunks) = n
<1>1. n \in Nat \ {0}
    BY RetrievalAssumption DEF QueryInv
<1> QED  BY <1>1, FS_Interval DEF Chunks

(* A chunk's rank is the number of those that beat it. *)
LEMMA RankCounts ==
    ASSUME NEW i \in Chunks
    PROVE  bm25_rank[i] = Cardinality(Beaters(i))
BY DEF bm25_rank, Beaters, Beats

(* Scores are numbers, and so are chunks. *)
LEMMA ScoresAreNumbers ==
    ASSUME QueryInv, NEW i \in Chunks
    PROVE  bm25_scores[i] \in Int /\ i \in Int
<1>1. bm25_scores \in [Chunks -> Scores]
    BY DEF QueryInv
<1>2. bm25_scores[i] \in Scores
    BY <1>1
<1>3. i \in Int
    BY ChunksAreFinite DEF Chunks
<1> QED  BY <1>2, <1>3, RetrievalAssumption

(* Ranks are places in a list of n. *)
LEMMA RanksAreRanks ==
    ASSUME QueryInv, NEW i \in Chunks
    PROVE  bm25_rank[i] \in Ranks /\ IsFiniteSet(Beaters(i))
<1>1. /\ IsFiniteSet(Chunks \ {i})
      /\ Cardinality(Chunks \ {i}) = n - 1
    BY ChunksAreFinite, FS_RemoveElement
<1>2. bm25_scores[i] \in Int /\ i \in Int
    BY ScoresAreNumbers
<1>3. Beaters(i) \in SUBSET (Chunks \ {i})
    BY <1>2 DEF Beaters, Beats
<1>4. IsFiniteSet(Beaters(i)) /\ Cardinality(Beaters(i)) <= n - 1
    BY <1>1, <1>3, FS_Subset
<1>5. Cardinality(Beaters(i)) \in Nat
    BY <1>4, FS_CardinalityType
<1> QED  BY <1>4, <1>5, RankCounts, ChunksAreFinite DEF Ranks

(* Who beats a chunk has a smaller rank. *)
LEMMA BeatersAreAhead ==
    ASSUME QueryInv, NEW i \in Chunks, NEW j \in Chunks, Beats(i, j)
    PROVE  bm25_rank[i] < bm25_rank[j]
<1>1. ASSUME NEW k \in Chunks PROVE bm25_scores[k] \in Int /\ k \in Int
    BY ScoresAreNumbers
<1>2. i \in Beaters(j) /\ i \notin Beaters(i)
    BY <1>1 DEF Beaters, Beats
<1>3. Beaters(i) \in SUBSET Beaters(j)
    BY <1>1 DEF Beaters, Beats
<1>4. IsFiniteSet(Beaters(i)) /\ IsFiniteSet(Beaters(j))
    BY RanksAreRanks
<1>5. /\ Cardinality(Beaters(i)) <= Cardinality(Beaters(j))
      /\ Cardinality(Beaters(i)) # Cardinality(Beaters(j))
    BY <1>2, <1>3, <1>4, FS_Subset
<1>6. Cardinality(Beaters(i)) \in Nat /\ Cardinality(Beaters(j)) \in Nat
    BY <1>4, FS_CardinalityType
<1> QED  BY <1>5, <1>6, RankCounts

(* So no two chunks share a rank, and a smaller rank is no smaller score. *)
LEMMA RanksOrderScores ==
    ASSUME QueryInv, NEW i \in Chunks, NEW j \in Chunks
    PROVE  /\ bm25_rank[i] = bm25_rank[j] => i = j
           /\ bm25_rank[i] <= bm25_rank[j] => bm25_scores[i] >= bm25_scores[j]
<1>1. /\ bm25_scores[i] \in Int /\ bm25_scores[j] \in Int
      /\ i \in Int /\ j \in Int
    BY ScoresAreNumbers
<1>2. bm25_rank[i] \in Nat /\ bm25_rank[j] \in Nat
    BY RanksAreRanks, ChunksAreFinite DEF Ranks
<1>3. i = j \/ Beats(i, j) \/ Beats(j, i)
    BY <1>1 DEF Beats
<1>4. CASE i = j
    BY <1>4, <1>1
<1>5. CASE Beats(i, j)
    <2>1. bm25_rank[i] < bm25_rank[j]
        BY <1>5, BeatersAreAhead
    <2>2. bm25_scores[i] >= bm25_scores[j]
        BY <1>5, <1>1 DEF Beats
    <2> QED  BY <2>1, <2>2, <1>2
<1>6. CASE Beats(j, i)
    <2>1. bm25_rank[j] < bm25_rank[i]
        BY <1>6, BeatersAreAhead
    <2> QED  BY <2>1, <1>2
<1> QED  BY <1>3, <1>4, <1>5, <1>6

-----------------------------------------------------------------------------
(* The inductive invariant.  After at places, a chunk has the share of its  *)
(* place in each list when the place has been passed: its sum is just what  *)
(* Owed says, the entered chunks are the ones that are owed something, and  *)
(* the hits so far are closed under "has a larger sum".                     *)

DenseIn(i) == dense_rank[i] < at /\ dense_rank[i] < Depth
Bm25In(i) == Depth + bm25_rank[i] < at

DensePart(i) == IF DenseIn(i) THEN Plus(Zero, RRF_K + dense_rank[i] + 1) ELSE Zero
Owed(i) == IF Bm25In(i) THEN Plus(DensePart(i), RRF_K + bm25_rank[i] + 1) ELSE DensePart(i)

SumInv ==
    /\ at \in 0..(2 * Depth)
    /\ fused = [i \in Chunks |-> Owed(i)]

EnteredInv ==
    /\ entered \in Seq(Chunks)
    /\ \A i \in Chunks : i \in Entered <=> DenseIn(i) \/ Bm25In(i)
    /\ IsFiniteSet(Entered) /\ Cardinality(Entered) = Len(entered)
    /\ Len(entered) >= IF at < Depth THEN at ELSE Depth

HitsInv ==
    /\ hits \in Seq(Chunks)
    /\ Hits \subseteq Entered
    /\ IsFiniteSet(Hits) /\ Cardinality(Hits) = Len(hits)
    /\ Len(hits) <= top_k
    /\ hits # <<>> => at = 2 * Depth

OrderInv ==
    \A k \in DOMAIN hits : \A i \in Entered :
        Above(fused[i], fused[hits[k]]) => \E j \in 1..(k - 1) : hits[j] = i

IInv == QueryInv /\ SumInv /\ EnteredInv /\ HitsInv /\ OrderInv

Fractions == [num : Nat, den : Nat \ {0}]

(* The cut is at one place at least. *)
LEMMA DepthIsPositive ==
    ASSUME QueryInv
    PROVE  top_k \in Nat \ {0} /\ Depth \in Nat \ {0} /\ Depth <= n
<1>1. top_k \in Nat \ {0}
    BY RetrievalAssumption DEF QueryInv
<1> QED  BY <1>1, ChunksAreFinite DEF Depth

(* Both ranks of a chunk are numbers, and no other chunk has them. *)
LEMMA RanksAreNumbers ==
    ASSUME QueryInv, NEW i \in Chunks
    PROVE  /\ dense_rank[i] \in Nat /\ bm25_rank[i] \in Nat
           /\ RRF_K + dense_rank[i] + 1 \in Nat \ {0}
           /\ RRF_K + bm25_rank[i] + 1 \in Nat \ {0}
           /\ \A j \in Chunks : dense_rank[i] = dense_rank[j] => i = j
           /\ \A j \in Chunks : bm25_rank[i] = bm25_rank[j] => i = j
<1>1. dense_rank[i] \in Ranks /\ bm25_rank[i] \in Ranks
    BY RanksAreRanks DEF QueryInv
<1>2. dense_rank[i] \in Nat /\ bm25_rank[i] \in Nat
    BY <1>1, ChunksAreFinite DEF Ranks
<1>3. \A j \in Chunks : dense_rank[i] = dense_rank[j] => i = j
    BY DEF QueryInv
<1>4. \A j \in Chunks : bm25_rank[i] = bm25_rank[j] => i = j
    BY RanksOrderScores
<1> QED  BY <1>2, <1>3, <1>4, RetrievalAssumption

(* Adding a reciprocal to a fraction leaves a fraction. *)
LEMMA PlusIsFraction ==
    ASSUME NEW f \in Fractions, NEW d \in Nat \ {0}
    PROVE  Plus(f, d) \in Fractions
<1>1. f.num \in Nat /\ f.den \in Nat \ {0}
    BY DEF Fractions
<1>2. f.num * d + f.den \in Nat /\ f.den * d \in Nat \ {0}
    BY <1>1
<1> QED  BY <1>2 DEF Plus, Fractions

(* What a chunk is owed is a fraction. *)
LEMMA OwedIsFraction ==
    ASSUME QueryInv, NEW i \in Chunks
    PROVE  Owed(i) \in Fractions
<1>1. Zero \in Fractions
    BY DEF Zero, Fractions
<1>2. Plus(Zero, RRF_K + dense_rank[i] + 1) \in Fractions
    BY <1>1, RanksAreNumbers, PlusIsFraction
<1>3. DensePart(i) \in Fractions
    BY <1>1, <1>2 DEF DensePart
<1>4. Plus(DensePart(i), RRF_K + bm25_rank[i] + 1) \in Fractions
    BY <1>3, RanksAreNumbers, PlusIsFraction
<1> QED  BY <1>3, <1>4 DEF Owed

(* What an appended value is found among. *)
LEMMA AppendedValues ==
    ASSUME NEW S, NEW s \in Seq(S), NEW e \in S
    PROVE  /\ Append(s, e) \in Seq(S)
           /\ Len(Append(s, e)) = Len(s) + 1
           /\ {Append(s, e)[k] : k \in DOMAIN Append(s, e)}
                 = {s[k] : k \in DOMAIN s} \cup {e}
<1>1. /\ Append(s, e) \in Seq(S)
      /\ Len(Append(s, e)) = Len(s) + 1
      /\ DOMAIN Append(s, e) = 1..(Len(s) + 1)
      /\ \A k \in 1..Len(s) : Append(s, e)[k] = s[k]
      /\ Append(s, e)[Len(s) + 1] = e
    OBVIOUS
<1>2. DOMAIN s = 1..Len(s) /\ Len(s) \in Nat
    OBVIOUS
<1>3. ASSUME NEW k \in 1..(Len(s) + 1)
      PROVE  k \in 1..Len(s) \/ k = Len(s) + 1
    BY <1>2
<1>4. 1..Len(s) \subseteq 1..(Len(s) + 1) /\ Len(s) + 1 \in 1..(Len(s) + 1)
    BY <1>2
<1>5. ASSUME NEW x
      PROVE  x \in {Append(s, e)[k] : k \in DOMAIN Append(s, e)}
                 <=> x \in {s[k] : k \in DOMAIN s} \cup {e}
    BY <1>1, <1>2, <1>3, <1>4, Zenon
<1> QED  BY <1>1, <1>5

(* The invariant holds before anything is counted. *)
LEMMA InitInv == Init => IInv
<1> SUFFICES ASSUME Init PROVE IInv
    OBVIOUS
<1>1. QueryInv
    BY DEF Init, QueryInv
<1>2. at = 0 /\ 0 \in 0..(2 * Depth) /\ Depth \in Nat \ {0}
    BY <1>1, DepthIsPositive DEF Init
<1>3. ASSUME NEW i \in Chunks PROVE ~DenseIn(i) /\ ~Bm25In(i) /\ Owed(i) = Zero
    <2>1. ~DenseIn(i) /\ ~Bm25In(i)
        BY <1>1, <1>2, RanksAreNumbers DEF DenseIn, Bm25In
    <2> QED  BY <2>1 DEF Owed, DensePart
<1>4. SumInv
    BY <1>2, <1>3 DEF SumInv, Init
<1>5. entered = <<>> /\ hits = <<>> /\ Entered = {} /\ Hits = {}
    BY DEF Init, Entered, Hits
<1>6. EnteredInv
    BY <1>2, <1>3, <1>5, FS_EmptySet DEF EnteredInv
<1>7. HitsInv
    BY <1>1, <1>5, FS_EmptySet, DepthIsPositive DEF HitsInv
<1>8. OrderInv
    BY <1>5 DEF OrderInv
<1> QED  BY <1>1, <1>4, <1>6, <1>7, <1>8 DEF IInv

(* The chunk that the loop counts is the one at the next place of the list  *)
(* it is in.                                                                *)
LEMMA PlacedIsNext ==
    ASSUME QueryInv, at \in Nat, at < 2 * Depth, NEW i \in Chunks, Placed(i)
    PROVE  \/ at < Depth /\ dense_rank[i] = at /\ Place = at
           \/ at >= Depth /\ bm25_rank[i] = at - Depth /\ Place = at - Depth
<1>1. Depth \in Nat \ {0}
    BY DepthIsPositive
<1>2. Place = IF at < Depth THEN at ELSE at - Depth
    BY <1>1, Wraps DEF Place
<1> QED  BY <1>1, <1>2 DEF Placed

(* Counting one more place keeps the invariant. *)
LEMMA FuseStep ==
    ASSUME IInv, Fuse
    PROVE  IInv'
<1>1. QueryInv /\ SumInv /\ EnteredInv /\ HitsInv
    BY DEF IInv
<1>2. Depth \in Nat \ {0} /\ at \in Nat /\ at < 2 * Depth
    BY <1>1, DepthIsPositive DEF SumInv, Fuse
<1>3. /\ n' = n /\ top_k' = top_k /\ dense_rank' = dense_rank /\ bm25_scores' = bm25_scores
      /\ at' = at + 1 /\ hits' = hits
    BY DEF Fuse, query
<1>4. QueryInv' /\ Chunks' = Chunks /\ Depth' = Depth /\ bm25_rank' = bm25_rank
    BY <1>1, <1>3 DEF QueryInv, Chunks, Ranks, Depth, bm25_rank
<1>5. PICK i \in Chunks :
          /\ Placed(i)
          /\ fused' = [fused EXCEPT ![i] = Credited(i)]
          /\ entered' = EnteredWith(i)
    BY DEF Fuse
<1>6. \/ at < Depth /\ dense_rank[i] = at /\ Place = at
      \/ at >= Depth /\ bm25_rank[i] = at - Depth /\ Place = at - Depth
    BY <1>1, <1>2, <1>5, PlacedIsNext
<1>7. ASSUME NEW j \in Chunks
      PROVE  /\ DenseIn(j)' <=> DenseIn(j) \/ (at < Depth /\ j = i)
             /\ Bm25In(j)' <=> Bm25In(j) \/ (at >= Depth /\ j = i)
    <2>1. dense_rank[j] \in Nat /\ bm25_rank[j] \in Nat
        BY <1>1, RanksAreNumbers
    <2>2. /\ dense_rank[j] = dense_rank[i] => j = i
          /\ bm25_rank[j] = bm25_rank[i] => j = i
        BY <1>1, RanksAreNumbers
    <2> QED  BY <2>1, <2>2, <1>2, <1>3, <1>4, <1>6 DEF DenseIn, Bm25In
<1>8. /\ at < Depth => ~DenseIn(i) /\ ~Bm25In(i) /\ ~Bm25In(i)'
      /\ at >= Depth => ~Bm25In(i)
    <2>1. bm25_rank[i] \in Nat
        BY <1>1, RanksAreNumbers
    <2> QED  BY <2>1, <1>2, <1>3, <1>4, <1>6 DEF DenseIn, Bm25In
<1>9. ASSUME NEW j \in Chunks
      PROVE  Owed(j)' = IF j = i THEN Plus(Owed(i), RRF_K + Place + 1) ELSE Owed(j)
    <2>1. CASE j # i
        BY <2>1, <1>3, <1>4, <1>7 DEF Owed, DensePart
    <2>2. CASE j = i /\ at < Depth
        <3>1. Owed(i) = Zero
            BY <1>8, <2>2 DEF Owed, DensePart
        <3>2. Owed(i)' = Plus(Zero, RRF_K + dense_rank[i] + 1)
            BY <1>3, <1>7, <1>8, <2>2 DEF Owed, DensePart
        <3>3. dense_rank[i] = Place
            BY <1>2, <1>6, <2>2
        <3> QED  BY <3>1, <3>2, <3>3, <2>2
    <2>3. CASE j = i /\ at >= Depth
        <3>1. Owed(i) = DensePart(i)
            BY <1>8, <2>3 DEF Owed
        <3>2. DensePart(i)' = DensePart(i)
            BY <1>2, <1>3, <1>7, <2>3 DEF DensePart
        <3>3. Owed(i)' = Plus(DensePart(i), RRF_K + bm25_rank[i] + 1)
            BY <1>3, <1>4, <1>7, <3>2, <2>3 DEF Owed
        <3>4. bm25_rank[i] = Place
            BY <1>2, <1>6, <2>3
        <3> QED  BY <3>1, <3>3, <3>4, <2>3
    <2> QED  BY <2>1, <2>2, <2>3, <1>2
<1>10. SumInv'
    <2>1. fused = [j \in Chunks |-> Owed(j)]
        BY <1>1 DEF SumInv
    <2>2. fused' = [j \in Chunks |-> IF j = i THEN Plus(Owed(i), RRF_K + Place + 1)
                                              ELSE Owed(j)]
        BY <1>5, <2>1 DEF Credited
    <2>3. fused' = [j \in Chunks |-> Owed(j)']
        BY <1>9, <2>2
    <2>4. at' \in 0..(2 * Depth')
        BY <1>2, <1>3, <1>4
    <2> QED  BY <1>4, <2>3, <2>4 DEF SumInv
<1>11. /\ entered' \in Seq(Chunks)
       /\ Entered' = Entered \cup {i}
       /\ Len(entered') = IF i \in Entered THEN Len(entered) ELSE Len(entered) + 1
    <2>1. entered \in Seq(Chunks)
        BY <1>1 DEF EnteredInv
    <2>2. CASE i \in Entered
        BY <1>5, <2>1, <2>2 DEF EnteredWith, Entered
    <2>3. CASE i \notin Entered
        <3>1. entered' = Append(entered, i)
            BY <1>5, <2>3 DEF EnteredWith
        <3> QED  BY <2>1, <2>3, <3>1, AppendedValues DEF Entered
    <2> QED  BY <2>2, <2>3
<1>12. EnteredInv'
    <2>1. ASSUME NEW j \in Chunks PROVE j \in Entered' <=> DenseIn(j)' \/ Bm25In(j)'
        BY <1>1, <1>2, <1>7, <1>11 DEF EnteredInv
    <2>2. IsFiniteSet(Entered') /\ Cardinality(Entered') = Len(entered')
        BY <1>1, <1>11, FS_AddElement DEF EnteredInv
    <2>3. Len(entered) \in Nat /\ Len(entered) >= IF at < Depth THEN at ELSE Depth
        BY <1>1 DEF EnteredInv
    <2>4. at < Depth => i \notin Entered
        BY <1>1, <1>8 DEF EnteredInv
    <2>5. Len(entered') >= IF at' < Depth' THEN at' ELSE Depth'
        BY <1>2, <1>3, <1>4, <1>11, <2>3, <2>4
    <2> QED  BY <1>4, <1>11, <2>1, <2>2, <2>5 DEF EnteredInv
<1>13. hits = <<>>
    BY <1>1, <1>2 DEF HitsInv
<1>14. Hits' = {} /\ hits' = <<>>
    BY <1>3, <1>13 DEF Hits
<1>15. HitsInv'
    <2>1. top_k' \in Nat \ {0}
        BY <1>1, <1>3, DepthIsPositive
    <2> QED  BY <1>4, <1>14, <2>1, FS_EmptySet DEF HitsInv
<1>16. OrderInv'
    BY <1>14 DEF OrderInv
<1> QED  BY <1>4, <1>10, <1>12, <1>15, <1>16 DEF IInv

(* Selecting one more hit keeps it. *)
LEMMA SelectStep ==
    ASSUME IInv, Select
    PROVE  IInv'
<1>1. QueryInv /\ SumInv /\ EnteredInv /\ HitsInv /\ OrderInv
    BY DEF IInv
<1>2. /\ n' = n /\ top_k' = top_k /\ dense_rank' = dense_rank /\ bm25_scores' = bm25_scores
      /\ at' = at /\ fused' = fused /\ entered' = entered
    BY DEF Select, query
<1>3. QueryInv' /\ SumInv' /\ EnteredInv' /\ Entered' = Entered
    BY <1>1, <1>2 DEF QueryInv, SumInv, EnteredInv, Entered, Owed, DensePart, DenseIn,
                      Bm25In, Chunks, Ranks, Depth, bm25_rank
<1>4. PICK k \in DOMAIN entered :
          /\ entered[k] \notin Hits
          /\ \A j \in DOMAIN entered : Precedes(j, k) => entered[j] \in Hits
          /\ hits' = Append(hits, entered[k])
    BY DEF Select
<1>5. entered[k] \in Chunks /\ entered[k] \in Entered /\ hits \in Seq(Chunks)
    BY <1>1 DEF EnteredInv, HitsInv, Entered
<1>6. /\ hits' \in Seq(Chunks)
      /\ Len(hits') = Len(hits) + 1
      /\ Hits' = Hits \cup {entered[k]}
    BY <1>4, <1>5, AppendedValues DEF Hits
<1>7. Len(hits) \in Nat /\ top_k \in Nat /\ Len(hits) < top_k
    <2>1. Len(hits) # top_k
        BY DEF Select, Complete
    <2> QED  BY <1>1, <1>5, <2>1, DepthIsPositive DEF HitsInv
<1>8. HitsInv'
    <2>1. IsFiniteSet(Hits') /\ Cardinality(Hits') = Len(hits')
        BY <1>1, <1>4, <1>6, FS_AddElement DEF HitsInv
    <2>2. Hits' \subseteq Entered'
        BY <1>1, <1>3, <1>5, <1>6 DEF HitsInv
    <2>3. at' = 2 * Depth'
        BY <1>2 DEF Select, Depth
    <2>4. Len(hits') <= top_k'
        BY <1>2, <1>6, <1>7
    <2> QED  BY <1>2, <1>6, <2>1, <2>2, <2>3, <2>4 DEF HitsInv, Chunks
<1>9. OrderInv'
    <2> SUFFICES ASSUME NEW m \in DOMAIN hits', NEW i \in Entered,
                        Above(fused[i], fused[hits'[m]])
                 PROVE  \E j \in 1..(m - 1) : hits'[j] = i
        BY <1>2, <1>3 DEF OrderInv, Above
    <2>1. /\ DOMAIN hits' = 1..(Len(hits) + 1) /\ DOMAIN hits = 1..Len(hits)
          /\ \A j \in 1..Len(hits) : hits'[j] = hits[j]
          /\ hits'[Len(hits) + 1] = entered[k]
        BY <1>4, <1>5
    <2>2. CASE m = Len(hits) + 1
        <3>1. PICK j \in DOMAIN entered : entered[j] = i
            BY DEF Entered
        <3>2. Precedes(j, k)
            BY <2>1, <2>2, <3>1 DEF Precedes
        <3>3. i \in Hits
            BY <1>4, <3>1, <3>2
        <3>4. PICK l \in 1..Len(hits) : hits[l] = i
            BY <2>1, <3>3 DEF Hits
        <3> QED  BY <1>7, <2>1, <2>2, <3>4
    <2>3. CASE m # Len(hits) + 1
        <3>1. m \in 1..Len(hits)
            BY <1>7, <2>1, <2>3
        <3>2. hits'[m] = hits[m]
            BY <2>1, <3>1
        <3>3. PICK j \in 1..(m - 1) : hits[j] = i
            BY <1>1, <2>1, <3>1, <3>2 DEF OrderInv
        <3>4. j \in 1..Len(hits)
            BY <1>7, <3>1, <3>3
        <3> QED  BY <2>1, <3>3, <3>4
    <2> QED  BY <2>2, <2>3
<1> QED  BY <1>3, <1>8, <1>9 DEF IInv

(* THEOREM.  After every number of places and hits, each chunk's sum is what *)
(* the rankings owe it for the places passed, the chunks with a sum are      *)
(* those that are owed one, and no hit was taken before a better chunk.      *)
THEOREM Invariance == Spec => []IInv
<1>1. IInv /\ [Next]_vars => IInv'
    <2> SUFFICES ASSUME IInv, [Next]_vars PROVE IInv'
        OBVIOUS
    <2>1. CASE Fuse
        BY <2>1, FuseStep
    <2>2. CASE Select
        BY <2>2, SelectStep
    <2>3. CASE UNCHANGED vars
        <3>1. /\ n' = n /\ top_k' = top_k /\ dense_rank' = dense_rank /\ bm25_scores' = bm25_scores
              /\ at' = at /\ fused' = fused /\ entered' = entered /\ hits' = hits
            BY <2>3 DEF vars, query
        <3>2. QueryInv' /\ SumInv' /\ EnteredInv' /\ Entered' = Entered
            BY <3>1 DEF IInv, QueryInv, SumInv, EnteredInv, Entered, Owed, DensePart,
                        DenseIn, Bm25In, Chunks, Ranks, Depth, bm25_rank
        <3>3. HitsInv' /\ OrderInv'
            BY <3>1, <3>2 DEF IInv, HitsInv, OrderInv, Hits, Chunks, Depth, Above
        <3> QED  BY <3>2, <3>3 DEF IInv
    <2> QED  BY <2>1, <2>2, <2>3 DEF Next
<1> QED  BY InitInv, <1>1, PTL DEF Spec

-----------------------------------------------------------------------------
(* What the invariant says when both lists are counted.                     *)

DenseTerm(i) == RRF_K + dense_rank[i] + 1
Bm25Term(i) == RRF_K + bm25_rank[i] + 1

(* A chunk's share of the two lists, as one fraction. *)
Sum(i) ==
    CASE dense_rank[i] < Depth /\ bm25_rank[i] < Depth ->
            [num |-> Bm25Term(i) + DenseTerm(i), den |-> DenseTerm(i) * Bm25Term(i)]
      [] dense_rank[i] < Depth /\ ~(bm25_rank[i] < Depth) ->
            [num |-> 1, den |-> DenseTerm(i)]
      [] ~(dense_rank[i] < Depth) /\ bm25_rank[i] < Depth ->
            [num |-> 1, den |-> Bm25Term(i)]
      [] OTHER -> Zero

(* The reciprocal rank sum is that fraction. *)
LEMMA RRFIsSum ==
    ASSUME QueryInv, NEW i \in Chunks
    PROVE  RRF(i) = Sum(i)
<1>1. DenseTerm(i) \in Nat /\ Bm25Term(i) \in Nat
    BY RanksAreNumbers DEF DenseTerm, Bm25Term
<1>2. Share(dense_rank[i]) = IF dense_rank[i] < Depth THEN [num |-> 1, den |-> DenseTerm(i)]
                                                      ELSE [num |-> 0, den |-> 1]
    BY DEF Share, DenseTerm, Zero
<1>3. Share(bm25_rank[i]) = IF bm25_rank[i] < Depth THEN [num |-> 1, den |-> Bm25Term(i)]
                                                    ELSE [num |-> 0, den |-> 1]
    BY DEF Share, Bm25Term, Zero
<1>4. CASE dense_rank[i] < Depth /\ bm25_rank[i] < Depth
    BY <1>1, <1>2, <1>3, <1>4 DEF RRF, Sum
<1>5. CASE dense_rank[i] < Depth /\ ~(bm25_rank[i] < Depth)
    BY <1>1, <1>2, <1>3, <1>5 DEF RRF, Sum
<1>6. CASE ~(dense_rank[i] < Depth) /\ bm25_rank[i] < Depth
    BY <1>1, <1>2, <1>3, <1>6 DEF RRF, Sum
<1>7. CASE ~(dense_rank[i] < Depth) /\ ~(bm25_rank[i] < Depth)
    BY <1>2, <1>3, <1>7 DEF RRF, Sum, Zero
<1> QED  BY <1>4, <1>5, <1>6, <1>7

(* The loop's sum is that fraction once both lists are counted, and the      *)
(* chunks with a sum are those that either list places within the depth.     *)
LEMMA FusedIsSum ==
    ASSUME IInv, at = 2 * Depth, NEW i \in Chunks
    PROVE  /\ fused[i] = Sum(i)
           /\ i \in Entered <=> dense_rank[i] < Depth \/ bm25_rank[i] < Depth
<1>1. QueryInv /\ SumInv /\ EnteredInv
    BY DEF IInv
<1>2. /\ Depth \in Nat \ {0} /\ dense_rank[i] \in Nat /\ bm25_rank[i] \in Nat
      /\ DenseTerm(i) \in Nat /\ Bm25Term(i) \in Nat
    BY <1>1, DepthIsPositive, RanksAreNumbers DEF DenseTerm, Bm25Term
<1>3. /\ DenseIn(i) <=> dense_rank[i] < Depth
      /\ Bm25In(i) <=> bm25_rank[i] < Depth
    BY <1>2 DEF DenseIn, Bm25In
<1>4. fused[i] = Owed(i)
    BY <1>1 DEF SumInv
<1>5. DensePart(i) = IF dense_rank[i] < Depth THEN [num |-> 1, den |-> DenseTerm(i)] ELSE Zero
    BY <1>2, <1>3 DEF DensePart, DenseTerm, Plus, Zero
<1>6. i \in Entered <=> dense_rank[i] < Depth \/ bm25_rank[i] < Depth
    BY <1>1, <1>3 DEF EnteredInv
<1>7. fused[i] = Sum(i)
    <2>1. CASE dense_rank[i] < Depth /\ bm25_rank[i] < Depth
        <3>1. Owed(i) = Plus([num |-> 1, den |-> DenseTerm(i)], Bm25Term(i))
            BY <1>3, <1>5, <2>1 DEF Owed, Bm25Term
        <3> QED  BY <1>2, <1>4, <2>1, <3>1 DEF Sum, Plus
    <2>2. CASE dense_rank[i] < Depth /\ ~(bm25_rank[i] < Depth)
        BY <1>3, <1>4, <1>5, <2>2 DEF Owed, Sum
    <2>3. CASE ~(dense_rank[i] < Depth) /\ bm25_rank[i] < Depth
        <3>1. Owed(i) = Plus(Zero, Bm25Term(i))
            BY <1>3, <1>5, <2>3 DEF Owed, Bm25Term
        <3> QED  BY <1>2, <1>4, <2>3, <3>1 DEF Sum, Plus, Zero
    <2>4. CASE ~(dense_rank[i] < Depth) /\ ~(bm25_rank[i] < Depth)
        BY <1>3, <1>4, <1>5, <2>4 DEF Owed, Sum
    <2> QED  BY <2>1, <2>2, <2>3, <2>4
<1> QED  BY <1>6, <1>7

(* Ahead in both lists is ahead in the sum, for a chunk that has one. *)
LEMMA BothAheadIsAbove ==
    ASSUME QueryInv, NEW i \in Chunks, NEW h \in Chunks,
           dense_rank[i] < dense_rank[h], bm25_rank[i] < bm25_rank[h],
           dense_rank[h] < Depth \/ bm25_rank[h] < Depth
    PROVE  /\ Above(Sum(i), Sum(h))
           /\ dense_rank[i] < Depth \/ bm25_rank[i] < Depth
<1> DEFINE a == DenseTerm(i)
           b == Bm25Term(i)
           c == DenseTerm(h)
           d == Bm25Term(h)
<1>1. /\ dense_rank[i] \in Nat /\ bm25_rank[i] \in Nat
      /\ dense_rank[h] \in Nat /\ bm25_rank[h] \in Nat
      /\ a \in Nat \ {0} /\ b \in Nat \ {0} /\ c \in Nat \ {0} /\ d \in Nat \ {0}
      /\ Depth \in Nat
    BY RanksAreNumbers, DepthIsPositive DEF DenseTerm, Bm25Term
<1>2. a < c /\ b < d
    BY <1>1, RetrievalAssumption DEF DenseTerm, Bm25Term
<1>3. /\ dense_rank[h] < Depth => dense_rank[i] < Depth
      /\ bm25_rank[h] < Depth => bm25_rank[i] < Depth
    BY <1>1
<1> HIDE DEF a, b, c, d
<1>4. /\ (b + a) * (c * d) > (d + c) * (a * b)
      /\ (b + a) * c > a * b
      /\ (a + b) * d > b * a
    BY <1>1, <1>2, BothShrink, OneShrinks
<1>5. /\ dense_rank[i] < Depth /\ bm25_rank[i] < Depth =>
              Sum(i) = [num |-> b + a, den |-> a * b]
      /\ dense_rank[i] < Depth /\ ~(bm25_rank[i] < Depth) => Sum(i) = [num |-> 1, den |-> a]
      /\ ~(dense_rank[i] < Depth) /\ bm25_rank[i] < Depth => Sum(i) = [num |-> 1, den |-> b]
      /\ dense_rank[h] < Depth /\ bm25_rank[h] < Depth =>
              Sum(h) = [num |-> d + c, den |-> c * d]
      /\ dense_rank[h] < Depth /\ ~(bm25_rank[h] < Depth) => Sum(h) = [num |-> 1, den |-> c]
      /\ ~(dense_rank[h] < Depth) /\ bm25_rank[h] < Depth => Sum(h) = [num |-> 1, den |-> d]
    BY DEF Sum, a, b, c, d
<1>6. CASE dense_rank[h] < Depth /\ bm25_rank[h] < Depth
    BY <1>3, <1>4, <1>5, <1>6 DEF Above
<1>7. CASE dense_rank[h] < Depth /\ ~(bm25_rank[h] < Depth)
    <2>1. CASE bm25_rank[i] < Depth
        <3>1. Sum(i) = [num |-> b + a, den |-> a * b] /\ Sum(h) = [num |-> 1, den |-> c]
            BY <1>3, <1>5, <1>7, <2>1
        <3>2. (b + a) * c > 1 * (a * b)
            BY <1>1, <1>4
        <3> QED  BY <1>3, <1>7, <3>1, <3>2 DEF Above
    <2>2. CASE ~(bm25_rank[i] < Depth)
        BY <1>1, <1>2, <1>3, <1>5, <1>7, <2>2 DEF Above
    <2> QED  BY <2>1, <2>2
<1>8. CASE ~(dense_rank[h] < Depth) /\ bm25_rank[h] < Depth
    <2>1. CASE dense_rank[i] < Depth
        <3>1. Sum(i) = [num |-> b + a, den |-> a * b] /\ Sum(h) = [num |-> 1, den |-> d]
            BY <1>3, <1>5, <1>8, <2>1
        <3>2. (b + a) * d > 1 * (a * b)
            BY <1>1, <1>4
        <3> QED  BY <1>3, <1>8, <3>1, <3>2 DEF Above
    <2>2. CASE ~(dense_rank[i] < Depth)
        BY <1>1, <1>2, <1>3, <1>5, <1>8, <2>2 DEF Above
    <2> QED  BY <2>1, <2>2
<1> QED  BY <1>6, <1>7, <1>8

(* A hit is a chunk with a sum, taken when both lists were counted. *)
LEMMA HitsAreEntered ==
    ASSUME IInv, NEW k \in DOMAIN hits
    PROVE  hits[k] \in Chunks /\ hits[k] \in Entered /\ at = 2 * Depth
BY DEF IInv, HitsInv, Hits

(* At the end there are as many hits as were asked for, or as there are. *)
LEMMA HitsAreAll ==
    ASSUME IInv, Complete
    PROVE  Len(hits) = IF top_k < n THEN top_k ELSE n
<1>1. QueryInv /\ SumInv /\ EnteredInv /\ HitsInv
    BY DEF IInv
<1>2. /\ top_k \in Nat \ {0} /\ Depth \in Nat \ {0}
      /\ Len(hits) \in Nat /\ Len(entered) \in Nat
    BY <1>1, DepthIsPositive DEF EnteredInv, HitsInv
<1>3. Len(entered) >= Depth
    BY <1>1, <1>2 DEF EnteredInv, Complete
<1>4. Entered \in SUBSET Chunks
    BY <1>1 DEF EnteredInv, Entered
<1>5. Len(entered) <= n
    BY <1>1, <1>4, ChunksAreFinite, FS_Subset DEF EnteredInv
<1>6. Len(hits) <= Len(entered) /\ Len(hits) <= top_k
    BY <1>1, FS_Subset DEF EnteredInv, HitsInv
<1> QED  BY <1>1, <1>2, <1>3, <1>5, <1>6, ChunksAreFinite DEF Complete, Depth

-----------------------------------------------------------------------------
(* The theorems.                                                            *)

(* THEOREM TypeOK.  retrieve_hits() never enters or returns a chunk twice,  *)
(* and returns top_k hits, or the whole index when that is less: the depth  *)
(* of 3 top_k never leaves it short.                                        *)
THEOREM Typed == Spec => []TypeOK
<1>1. IInv => TypeOK
    <2> SUFFICES ASSUME IInv PROVE TypeOK
        OBVIOUS
    <2>1. QueryInv /\ SumInv /\ EnteredInv /\ HitsInv
        BY DEF IInv
    <2>2. ASSUME NEW i \in Chunks PROVE fused[i].num \in Nat /\ fused[i].den \in Nat \ {0}
        <3>1. fused[i] \in Fractions
            BY <2>1, OwedIsFraction DEF SumInv
        <3> QED  BY <3>1 DEF Fractions
    <2>3. Entered \subseteq Chunks
        BY <2>1 DEF EnteredInv, Entered
    <2>4. Complete => Len(hits) = IF top_k < n THEN top_k ELSE n
        BY HitsAreAll
    <2> QED  BY <2>1, <2>2, <2>3, <2>4 DEF TypeOK, SumInv, EnteredInv, HitsInv
<1> QED  BY <1>1, Invariance, PTL

(* THEOREM HitsAreBest.  The hits come in the order of the reciprocal rank  *)
(* sums over both lists, and whatever has a larger sum than a hit is a hit. *)
THEOREM BestAreHit == Spec => []HitsAreBest
<1>1. IInv => HitsAreBest
    <2> SUFFICES ASSUME IInv, NEW k \in DOMAIN hits, NEW i \in Chunks,
                        Above(RRF(i), RRF(hits[k]))
                 PROVE  \E j \in 1..(k - 1) : hits[j] = i
        BY DEF HitsAreBest
    <2>1. QueryInv /\ OrderInv
        BY DEF IInv
    <2>2. hits[k] \in Chunks /\ hits[k] \in Entered /\ at = 2 * Depth
        BY HitsAreEntered
    <2>3. Above(Sum(i), Sum(hits[k]))
        BY <2>1, <2>2, RRFIsSum
    <2>4. Above(fused[i], fused[hits[k]])
        BY <2>2, <2>3, FusedIsSum
    <2>5. i \in Entered
        <3>1. CASE dense_rank[i] < Depth \/ bm25_rank[i] < Depth
            BY <2>2, <3>1, FusedIsSum
        <3>2. CASE ~(dense_rank[i] < Depth \/ bm25_rank[i] < Depth)
            <4>1. Sum(i) = Zero
                BY <3>2 DEF Sum
            <4>2. Sum(hits[k]).num \in Nat /\ Sum(hits[k]).den \in Nat
                <5>1. fused[hits[k]] \in Fractions
                    BY <2>1, <2>2, OwedIsFraction DEF IInv, SumInv
                <5> QED  BY <2>2, <5>1, FusedIsSum DEF Fractions
            <4> QED  BY <2>3, <4>1, <4>2 DEF Above, Zero
        <3> QED  BY <3>1, <3>2
    <2> QED  BY <2>1, <2>4, <2>5 DEF OrderInv
<1> QED  BY <1>1, Invariance, PTL

(* What both rankings place ahead of a hit is an earlier hit. *)
LEMMA AheadInBoth == IInv => AheadInBothIsAhead
<1> SUFFICES ASSUME IInv, NEW k \in DOMAIN hits, NEW i \in Chunks,
                    dense_rank[i] < dense_rank[hits[k]], bm25_rank[i] < bm25_rank[hits[k]]
             PROVE  \E j \in 1..(k - 1) : hits[j] = i
    BY DEF AheadInBothIsAhead
<1>1. QueryInv /\ OrderInv
    BY DEF IInv
<1>2. hits[k] \in Chunks /\ hits[k] \in Entered /\ at = 2 * Depth
    BY HitsAreEntered
<1>3. dense_rank[hits[k]] < Depth \/ bm25_rank[hits[k]] < Depth
    BY <1>2, FusedIsSum
<1>4. /\ Above(Sum(i), Sum(hits[k]))
      /\ dense_rank[i] < Depth \/ bm25_rank[i] < Depth
    BY <1>1, <1>2, <1>3, BothAheadIsAbove
<1>5. Above(fused[i], fused[hits[k]]) /\ i \in Entered
    BY <1>2, <1>4, FusedIsSum
<1> QED  BY <1>1, <1>5 DEF OrderInv

(* THEOREM AheadInBothIsAhead.  Neither the depth, nor top_k, nor the sums  *)
(* ever put a chunk before one that both rankings prefer to it.             *)
THEOREM BothAreObeyed == Spec => []AheadInBothIsAhead
BY AheadInBoth, Invariance, PTL

(* There is a first hit. *)
LEMMA FirstHit ==
    ASSUME IInv, Complete
    PROVE  1 \in DOMAIN hits /\ hits[1] \in Chunks
<1>1. QueryInv /\ HitsInv
    BY DEF IInv
<1>2. Len(hits) \in Nat \ {0} /\ DOMAIN hits = 1..Len(hits)
    BY <1>1, HitsAreAll, DepthIsPositive, ChunksAreFinite DEF HitsInv
<1> QED  BY <1>2, HitsAreEntered

(* A chunk that is first in both rankings is the first hit. *)
LEMMA ConsensusIsFirst ==
    ASSUME IInv, Complete, NEW i \in Chunks, dense_rank[i] = 0, bm25_rank[i] = 0
    PROVE  hits[1] = i
<1> SUFFICES ASSUME hits[1] # i PROVE FALSE
    OBVIOUS
<1>1. 1 \in DOMAIN hits /\ hits[1] \in Chunks /\ QueryInv
    BY FirstHit DEF IInv
<1>2. /\ dense_rank[hits[1]] \in Nat /\ dense_rank[hits[1]] # dense_rank[i]
      /\ bm25_rank[hits[1]] \in Nat /\ bm25_rank[hits[1]] # bm25_rank[i]
    BY <1>1, RanksAreNumbers
<1>3. dense_rank[i] < dense_rank[hits[1]] /\ bm25_rank[i] < bm25_rank[hits[1]]
    BY <1>2
<1>4. \E j \in 1..(1 - 1) : hits[j] = i
    BY <1>1, <1>3, AheadInBoth DEF AheadInBothIsAhead
<1> QED  BY <1>4

(* THEOREM AgreeMeansConsensus.  The agree gate passes the first hit exactly *)
(* when some chunk is the first of both rankings.                            *)
THEOREM AgreementIsConsensus == Spec => []AgreeMeansConsensus
<1>1. IInv => AgreeMeansConsensus
    <2> SUFFICES ASSUME IInv, Complete
                 PROVE  agrees(hits[1]) <=>
                            \E i \in Chunks : dense_rank[i] = 0 /\ bm25_rank[i] = 0
        BY DEF AgreeMeansConsensus, passes_gate
    <2>1. hits[1] \in Chunks
        BY FirstHit
    <2> QED  BY <2>1, ConsensusIsFirst DEF agrees
<1> QED  BY <1>1, Invariance, PTL

(* Where there is another chunk, one of them has the largest of the other   *)
(* scores: the one of the smallest rank.                                    *)
LEMMA LargestIsLargest ==
    ASSUME QueryInv, NEW i \in Chunks, Others(i) # {}
    PROVE  /\ best_other(i) \in Others(i)
           /\ \A x \in Others(i) : best_other(i) >= x
<1>1. ASSUME NEW j \in Chunks PROVE bm25_scores[j] \in Int /\ bm25_rank[j] \in Nat
    BY ScoresAreNumbers, RanksAreNumbers
<1>2. \E x \in Others(i) : \A y \in Others(i) : x >= y
    <2> DEFINE R == {bm25_rank[j] : j \in Chunks \ {i}}
    <2>1. PICK r \in R : \A q \in R : r <= q
        <3>1. R \in SUBSET Nat
            BY <1>1
        <3>2. PICK j : j \in Chunks \ {i}
            BY DEF Others
        <3>3. bm25_rank[j] \in R
            BY <3>2
        <3> HIDE DEF R
        <3>4. PICK r \in R : \A q \in R : ~(<<q, r>> \in OpToRel(<, Nat))
            BY <3>1, <3>3, NatLessThanWellFounded, WFMin, Zenon
        <3>5. ASSUME NEW q \in R PROVE r <= q
            <4>1. q \in Nat /\ r \in Nat
                BY <3>1
            <4>2. ~(<<q, r>> \in OpToRel(<, Nat))
                BY <3>4
            <4> QED  BY <4>1, <4>2 DEF OpToRel
        <3> QED  BY <3>5
    <2>2. PICK j \in Chunks \ {i} : bm25_rank[j] = r
        BY <2>1
    <2>3. ASSUME NEW m \in Chunks \ {i} PROVE bm25_scores[j] >= bm25_scores[m]
        <3>1. bm25_rank[m] \in R
            OBVIOUS
        <3>2. bm25_rank[j] <= bm25_rank[m]
            BY <2>1, <2>2, <3>1
        <3> QED  BY <2>2, <3>2, RanksOrderScores
    <2> QED  BY <2>3 DEF Others
<1>3. best_other(i) = Largest(Others(i))
    BY DEF best_other
<1> QED  BY <1>2, <1>3, Zenon DEF Largest

(* A chunk that leads every other one by the factor of the gate *)
Leads(i) ==
    /\ bm25_scores[i] > 0
    /\ \A j \in Chunks \ {i} : bm25_scores[i] >= MARGIN_MIN * bm25_scores[j]

(* A product with the margin keeps the order, and the sign. *)
LEMMA MarginTimes ==
    ASSUME NEW x \in Int, NEW y \in Int, x >= y
    PROVE  /\ MARGIN_MIN * x \in Int /\ MARGIN_MIN * y \in Int
           /\ MARGIN_MIN * x >= MARGIN_MIN * y
           /\ y > 0 => MARGIN_MIN * y > y
           /\ x <= 0 => MARGIN_MIN * x <= 0
<1>1. MARGIN_MIN \in Nat /\ MARGIN_MIN >= 2
    BY RetrievalAssumption
<1>2. MARGIN_MIN * (x - y) >= 0
    BY <1>1
<1>3. y > 0 => (MARGIN_MIN - 1) * y > 0
    BY <1>1
<1>4. x <= 0 => MARGIN_MIN * (0 - x) >= 0
    BY <1>1
<1> QED  BY <1>1, <1>2, <1>3, <1>4

(* The quotient of _margin, its cap and its two cases without one come to   *)
(* that.                                                                    *)
LEMMA MarginIsLead ==
    ASSUME QueryInv, NEW i \in Chunks
    PROVE  MarginReached(i) <=> Leads(i)
<1> DEFINE score == bm25_scores[i]
           best == best_other(i)
<1>1. \A j \in Chunks : bm25_scores[j] \in Int
    BY ScoresAreNumbers
<1>2. MARGIN_MIN \in Nat /\ MARGIN_MIN >= 2 /\ MARGIN_MIN <= 100
    BY RetrievalAssumption
<1>3. \A j \in Chunks \ {i} : bm25_scores[j] \in Others(i)
    BY DEF Others
<1>4. CASE Others(i) = {}
    <2>1. best = 0
        BY <1>4 DEF best_other
    <2>2. Chunks \ {i} = {}
        BY <1>3, <1>4
    <2>3. MarginReached(i) <=> score > 0
        BY <1>2, <2>1 DEF MarginReached, _margin, Cap, Zero, Above
    <2> QED  BY <2>2, <2>3 DEF Leads
<1>5. CASE Others(i) # {}
    <2>1. best \in Others(i) /\ \A x \in Others(i) : best >= x
        BY <1>5, LargestIsLargest
    <2>2. best \in Int
        BY <1>1, <2>1 DEF Others
    <2>3. PICK m \in Chunks \ {i} : best = bm25_scores[m]
        BY <2>1 DEF Others
    <2>4. Leads(i) <=> score > 0 /\ score >= MARGIN_MIN * best
        <3>1. ASSUME score >= MARGIN_MIN * best, NEW j \in Chunks \ {i}
              PROVE  score >= MARGIN_MIN * bm25_scores[j]
            <4> DEFINE other == bm25_scores[j]
            <4>1. best >= other /\ other \in Int /\ score \in Int
                BY <1>1, <1>3, <2>1
            <4> HIDE DEF best, other, score
            <4>2. /\ MARGIN_MIN * best \in Int /\ MARGIN_MIN * other \in Int
                  /\ MARGIN_MIN * best >= MARGIN_MIN * other
                BY <2>2, <4>1, MarginTimes
            <4>3. score >= MARGIN_MIN * other
                BY <3>1, <4>1, <4>2
            <4> QED  BY <4>3 DEF score, other
        <3> QED  BY <2>3, <3>1 DEF Leads
    <2>5. score \in Int /\ MARGIN_MIN * best \in Int
        BY <1>1, <2>2, MarginTimes
    <2>6. CASE best <= 0
        <3>1. MarginReached(i) <=> score > 0
            BY <1>2, <2>6 DEF MarginReached, _margin, Cap, Zero, Above
        <3>2. MARGIN_MIN * best <= 0
            BY <2>2, <2>6, MarginTimes
        <3> HIDE DEF best, score
        <3> QED  BY <2>4, <2>5, <3>1, <3>2
    <2>7. CASE best > 0
        <3>1. MARGIN_MIN * best > 0 /\ 100 * best >= MARGIN_MIN * best
            <4> HIDE DEF best
            <4>1. (100 - MARGIN_MIN) * best >= 0
                BY <1>2, <2>2, <2>7
            <4>2. MARGIN_MIN * best > best
                BY <2>2, <2>7, MarginTimes
            <4> QED  BY <1>2, <2>2, <2>5, <2>7, <4>1, <4>2
        <3>2. CASE score > 100 * best
            <4>1. Above(Ratio(i), Cap)
                BY <2>2, <2>5, <3>2 DEF Above, Ratio, Cap
            <4>2. _margin(i) = Cap
                BY <2>2, <2>7, <4>1 DEF _margin
            <4>3. MarginReached(i)
                BY <1>2, <4>2 DEF MarginReached, Cap, Above
            <4> HIDE DEF best, score
            <4> QED  BY <2>2, <2>4, <2>5, <3>1, <3>2, <4>3
        <3>3. CASE ~(score > 100 * best)
            <4>1. ~Above(Ratio(i), Cap)
                BY <2>2, <2>5, <3>3 DEF Above, Ratio, Cap
            <4>2. _margin(i) = Ratio(i)
                BY <2>2, <2>7, <4>1 DEF _margin
            <4>3. MarginReached(i) <=> ~(MARGIN_MIN * best > score * 1)
                BY <4>2 DEF MarginReached, Ratio, Above
            <4> HIDE DEF best, score
            <4> QED  BY <2>2, <2>4, <2>5, <3>1, <4>3
        <3> QED  BY <3>2, <3>3
    <2> QED  BY <2>2, <2>6, <2>7
<1> QED  BY <1>4, <1>5

(* BM25 puts nothing before a chunk that leads. *)
LEMMA LeaderIsFirst ==
    ASSUME QueryInv, NEW i \in Chunks, Leads(i)
    PROVE  bm25_rank[i] = 0
<1>1. ASSUME NEW j \in Chunks, j # i PROVE ~Beats(j, i)
    <2>1. bm25_scores[i] \in Int /\ bm25_scores[j] \in Int /\ bm25_scores[i] > 0
        BY ScoresAreNumbers DEF Leads
    <2>2. bm25_scores[i] >= MARGIN_MIN * bm25_scores[j]
        BY <1>1 DEF Leads
    <2>3. /\ MARGIN_MIN * bm25_scores[j] \in Int
          /\ bm25_scores[j] > 0 => MARGIN_MIN * bm25_scores[j] > bm25_scores[j]
        BY <2>1, MarginTimes
    <2>4. bm25_scores[i] > bm25_scores[j]
        BY <2>1, <2>2, <2>3
    <2> QED  BY <2>1, <2>4 DEF Beats
<1>2. ~Beats(i, i)
    BY ScoresAreNumbers DEF Beats
<1>3. Beaters(i) = {}
    BY <1>1, <1>2 DEF Beaters
<1> QED  BY <1>3, FS_EmptySet, RankCounts

(* THEOREM MarginMeansLead.  The margin gate passes the first hit exactly   *)
(* when a chunk of the index is first for the embeddings and leads every    *)
(* other one: it is then the first of both rankings, hence the first hit,   *)
(* and the quotient is reached with or without a runner-up to divide by.    *)
THEOREM MarginIsLeadOfAll == Spec => []MarginMeansLead
<1>1. IInv => MarginMeansLead
    <2> SUFFICES ASSUME IInv, Complete
                 PROVE  passes_gate(hits[1], "margin") <=>
                            \E i \in Chunks : dense_rank[i] = 0 /\ Leads(i)
        BY DEF MarginMeansLead, Leads
    <2>1. hits[1] \in Chunks /\ QueryInv
        BY FirstHit DEF IInv
    <2>2. passes_gate(hits[1], "margin") <=> agrees(hits[1]) /\ Leads(hits[1])
        BY <2>1, MarginIsLead DEF passes_gate
    <2>3. ASSUME NEW i \in Chunks, dense_rank[i] = 0, Leads(i)
          PROVE  hits[1] = i /\ agrees(hits[1])
        <3>1. bm25_rank[i] = 0
            BY <2>1, <2>3, LeaderIsFirst
        <3> QED  BY <2>3, <3>1, ConsensusIsFirst DEF agrees
    <2> QED  BY <2>1, <2>2, <2>3 DEF agrees
<1> QED  BY <1>1, Invariance, PTL
==============================================================================
