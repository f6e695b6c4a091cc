--------------------------- MODULE CommitHistory ---------------------------
(***************************************************************************)
(* The rolling buffer of committed text that is sent to the ranker as       *)
(* context: at most MaxChars characters, oldest entries dropped first.      *)
(***************************************************************************)
EXTENDS Naturals, Sequences, FiniteSets

CONSTANTS
    CharCount,   \* CharCount[s]: chars of the surface s
    MaxChars     \* CommitHistory::MAX_CHARS, 200 in the code

TotalChars(entries) ==
    LET total[n \in 0..Len(entries)] ==
            IF n = 0 THEN 0 ELSE total[n - 1] + CharCount[entries[n]]
    IN  total[Len(entries)]

\* push_back, then pop_front while the total is over the limit.  The entries
\* from i on fit for every i past some point, so what is left is as long as
\* the number of such i.
Push(entries, surface) ==
    LET all  == Append(entries, surface)
        fits == {i \in 1..Len(all) : TotalChars(SubSeq(all, i, Len(all))) <= MaxChars}
    IN  SubSeq(all, Len(all) + 1 - Cardinality(fits), Len(all))

=============================================================================
