------------------------ MODULE ConversionSession ------------------------
(***************************************************************************)
(* What the engine promises its user, with no worker, no request and no     *)
(* event in sight: candidates are only ever offered for the text that is    *)
(* being composed, any change of the text withdraws them, and what is       *)
(* committed is one of the candidates on offer, after the user asked for    *)
(* them, once.                                                             *)
(***************************************************************************)
EXTENDS Naturals, Sequences

CONSTANTS
    Strokes,       \* what a key can add to the text
    SafeSurfaces   \* the surfaces an application may receive

VARIABLES
    phase,      \* an EngineState
    text,       \* the text being composed
    offered,    \* the candidates on offer, a set
    committed   \* what the application has received

sessionVars == <<phase, text, offered, committed>>

CandidatesOf(kana) == [reading : {kana}, surface : SafeSurfaces]

Init ==
    /\ phase = "Idle"
    /\ text = <<>>
    /\ offered = {}
    /\ committed = <<>>

-----------------------------------------------------------------------------

\* The text grows, loses its last kana or is converted again.
Compose ==
    /\ \/ \E stroke \in Strokes : text' = text \o stroke
       \/ /\ text # <<>>
          /\ text' = SubSeq(text, 1, Len(text) - 1)
       \/ text' = text
    /\ phase' = "LiveConverting"
    /\ offered' = {}
    /\ UNCHANGED committed

\* The user asks for candidates to choose from.
Ask ==
    /\ phase \in {"LiveConverting", "CommitConverting"}
    /\ phase' = "CommitConverting"
    /\ offered' = {}
    /\ UNCHANGED <<text, committed>>

\* An answer.  There is a choice once the user asked and there is a candidate,
\* and from then on until the user acts.
Offer ==
    /\ phase # "Idle"
    /\ offered' \subseteq CandidatesOf(text)
    /\ phase' = IF phase = "CommitConverting" /\ offered' # {}
                THEN "CandidatesShown" ELSE phase
    /\ phase = "CandidatesShown" => offered' # {}
    /\ UNCHANGED <<text, committed>>

Choose ==
    /\ phase = "CandidatesShown"
    /\ \E candidate \in offered : committed' = Append(committed, candidate)
    /\ phase' = "Idle"
    /\ text' = <<>>
    /\ offered' = {}

\* The conversion is given up.  An engine whose worker is gone may call itself
\* LiveConverting afterwards, with nothing to convert.
Abandon ==
    /\ phase' \in {"Idle", "LiveConverting"}
    /\ text' = <<>>
    /\ offered' = {}
    /\ UNCHANGED committed

Next ==
    \/ Compose
    \/ Ask
    \/ Offer
    \/ Choose
    \/ Abandon

Spec == Init /\ [][Next]_sessionVars

=============================================================================
