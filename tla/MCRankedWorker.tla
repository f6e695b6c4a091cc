--------------------------- MODULE MCRankedWorker ---------------------------
(***************************************************************************)
(* A small instance of RankedWorker for TLC: three surfaces, of which two   *)
(* fit in a ranking.                                                        *)
(***************************************************************************)
EXTENDS RankedWorker, TLC

CONSTANTS ka, s1, s2, s3

MCKana == {ka}
MCReadings == {<<ka>>, <<ka, ka>>}
MCSurfaces == {s1, s2, s3}
MCOrder == (s1 :> 1) @@ (s2 :> 2) @@ (s3 :> 3)

Scored(s, n) == [surface |-> s, score |-> n]

\* The dictionary names a surface twice, two of its surfaces tie, and the hit of
\* the cache and the model's answer lift s3 over both.
MCAnswers == [sudachi |-> {{}, {Scored(s1, -200), Scored(s1, -150), Scored(s2, -150)}},
              vocab   |-> {{}, {Scored(s3, -155)}},
              model   |-> {{Scored(s3, -120), Scored(s2, -300)}}]

MCHitSets == {{}, {s3}}

\* What the port may be given: any few surfaces, each once.
MCPushes ==
    {[kind |-> "Replace", rows |-> rows, from |-> 0, to |-> 0] :
        rows \in {<<>>} \cup {<<s>> : s \in MCSurfaces}
                 \cup {<<p[1], p[2]>> : p \in {q \in MCSurfaces \X MCSurfaces : q[1] # q[2]}}}

=============================================================================
