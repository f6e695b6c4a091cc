---------------------------- MODULE RankedWorker ----------------------------
(***************************************************************************)
(* What the worker and the threads of the hybrid ranker do together.        *)
(***************************************************************************)
EXTENDS HybridRanker

Rankings == UNION {{sent[id][i].list : i \in DOMAIN sent[id]} : id \in RequestIds}

\* Types of the worker, the channels and the threads.
TypeOK ==
    /\ PortTypeOK
    /\ thread \in [RequestIds -> ThreadStates]
    /\ hasLlm \in BOOLEAN
    /\ \A id \in RequestIds : Len(sent[id]) \in 0..2 /\ late[id] \in 0..2

\* A window holds the last ranking the worker took from the job's sink, and it
\* was made for the job's reading: nothing of the threads of earlier requests,
\* which run on beside it, gets in.
WindowHoldsOwn ==
    LET last == sent[job.id][pushes]
    IN  /\ phase = "first" /\ pushes > 0 => buffer = RowsOf(last)
        /\ phase = "second" /\ second # <<>> => second = RowsOf(last)
        /\ \A i \in DOMAIN buffer : buffer[i].reading = job.kana
        /\ \A i \in DOMAIN second : second[i].reading = job.kana

\* The token may fire between a look at it and the push that follows, so one
\* push can come too late, never two: the model is not asked for a request that
\* was known to be cancelled when the first ranking was sent.
AtMostOneLatePush == \A id \in RequestIds : late[id] \leq 1

\* What merge_candidates may return, whatever becomes of the scores.
OneRanking(list) ==
    /\ Len(list) \leq TopK
    /\ \A i, j \in DOMAIN list : i < j => list[i].surface # list[j].surface

\* One after the other; either may be empty.
TwoRankings(list) ==
    \E n \in 0..Len(list) : /\ OneRanking(SubSeq(list, 1, n))
                            /\ OneRanking(SubSeq(list, n + 1, Len(list)))

\* Every ranking is in order, without a surface twice and within its limit.  An
\* answer to the engine holds no more than two of them, those of the two
\* windows, however often the threads push and whenever the windows close.
RankingsAreRankings ==
    /\ \A list \in Rankings :
         /\ OneRanking(list)
         /\ \A i, j \in DOMAIN list : i < j => list[i].score \geq list[j].score
    /\ \A k \in DOMAIN events : TwoRankings(events[k].list)

\* The answer of the model takes nothing away from the user: a surface of the
\* first ranking is in the second, scored no lower, unless as many surfaces as
\* fit were better.
NothingVanishes ==
    \A id \in RequestIds : Len(sent[id]) = 2 =>
        LET before == {sent[id][1].list[i] : i \in DOMAIN sent[id][1].list}
            after  == {sent[id][2].list[i] : i \in DOMAIN sent[id][2].list}
        IN  \A row \in before :
              \/ \E r \in after : r.surface = row.surface /\ r.score \geq row.score
              \/ Cardinality(after) = TopK /\ \A r \in after : r.score \geq row.score

\* The worker with this ranker is a worker with a ranker that keeps the port's
\* contract, the assumption under which ConversionSystem is checked and proved.
KeepsThePort == PortSpec

=============================================================================
