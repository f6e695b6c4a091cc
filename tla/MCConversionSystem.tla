------------------------ MODULE MCConversionSystem ------------------------
(***************************************************************************)
(* Small instances of ConversionSystem for TLC.                            *)
(***************************************************************************)
EXTENDS ConversionSystem, TLC

CONSTANTS ka, s1, s2, bad

MCKana == {ka}

MCSurfaces == {s1, s2, bad}

MCUnsafe == {bad}

MCStrokes == {<<>>, <<ka>>}

MCCharCount == (s1 :> 1) @@ (s2 :> 2) @@ (bad :> 1)

\* A full replacement, the only update of the production ranker, and the
\* incremental ones that the Ranker port allows as well.
Replacement == [kind |-> "Replace", rows |-> <<s1, s2>>, from |-> 0, to |-> 0]

Addition == [kind |-> "Append", rows |-> <<bad>>, from |-> 0, to |-> 0]

Removal == [kind |-> "Remove", rows |-> <<>>, from |-> 0, to |-> 1]

MCPushes == {Replacement, Addition, Removal}

=============================================================================
