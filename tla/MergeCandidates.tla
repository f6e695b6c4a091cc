-------------------------- MODULE MergeCandidates --------------------------
(***************************************************************************)
(* merge_candidates of the hybrid ranker: the rows of several sources in    *)
(* one ranking without duplicates.  A row is a surface with a score; scores *)
(* are counted in hundredths, so the weights of the code are integers here. *)
(***************************************************************************)
EXTENDS Integers, FiniteSets, Sequences, FiniteSetsExt

\* The byte order of the surfaces, in which a BTreeMap walks: the position of
\* each surface a backend can propose.
CONSTANT Order

\* Order tells any two surfaces apart.
ASSUME OrderAssumption ==
    /\ \A s \in DOMAIN Order : Order[s] \in Nat
    /\ \A s, t \in DOMAIN Order : Order[s] = Order[t] => s = t

-----------------------------------------------------------------------------

\* WEIGHT_DICT, WEIGHT_LLM and BONUS_CACHE_HIT.
WeightDict == 95
WeightLlm == 100
BonusCacheHit == 50

\* The rows of one source, with the weight of the source added.
Weighted(rows, weight) ==
    {[surface |-> r.surface, score |-> r.score + weight] : r \in rows}

SurfacesOf(rows) == {r.surface : r \in rows}

\* A surface that several rows propose keeps the highest of their scores.
BestPerSurface(rows) ==
    [s \in SurfacesOf(rows) |-> Max({r.score : r \in {q \in rows : q.surface = s}})]

\* A hit of the learning cache raises a surface that is there; it adds none.
Boosted(best, hits) ==
    [s \in DOMAIN best |-> best[s] + (IF s \in hits THEN BonusCacheHit ELSE 0)]

\* Mutant: lowest score first.
RanksAscending(best, s, t) ==
    \/ best[s] < best[t]
    \/ best[s] = best[t] /\ Order[s] < Order[t]

\* Highest score first.  The sort is stable, so equal scores stay in the order
\* of the map.
RanksBefore(best, s, t) ==
    \/ best[s] > best[t]
    \/ best[s] = best[t] /\ Order[s] < Order[t]

\* Surfaces before s in the ranking.
Ahead(best, s) == {t \in DOMAIN best : RanksBefore(best, t, s)}

\* The first topK surfaces of best, with their scores.
TopRows(best, topK) ==
    LET kept == {s \in DOMAIN best : Cardinality(Ahead(best, s)) < topK}
        at(i) == CHOOSE s \in kept : Cardinality(Ahead(best, s)) = i - 1
    IN  [i \in 1..Cardinality(kept) |-> [surface |-> at(i), score |-> best[at(i)]]]

MergeRows(rows, hits, topK) == TopRows(Boosted(BestPerSurface(rows), hits), topK)

=============================================================================
