-------------------------- MODULE EngineChannels --------------------------
(***************************************************************************)
(* What the engine-loop thread and the kotoha-ranker-worker thread share:   *)
(* the unbounded request channel, the worker's half of the event channel,   *)
(* and the cancellation token of every request.  A token is named by the    *)
(* id of its request, so the tokens that have fired form a set of ids.      *)
(*                                                                         *)
(* Text is abstracted.  A kana string is a sequence over Kana, a candidate  *)
(* is a surface together with the reading it was computed for (the reading  *)
(* is not a field of kotoha_core::Candidate; it is kept so that properties  *)
(* can tell an answer to the present preedit from a stale one).             *)
(***************************************************************************)
EXTENDS Naturals, Sequences, FiniteSets

CONSTANTS
    Kana,            \* the kana a preedit is made of
    Surfaces,        \* the surface forms a ranker can propose
    UnsafeSurfaces,  \* those holding a control, escape or bidi character
    MaxRequests      \* bound: requests an engine issues in one behaviour

ASSUME TextAssumption == UnsafeSurfaces \subseteq Surfaces
ASSUME RequestBound == MaxRequests \in Nat

VARIABLES
    connected,  \* the worker thread still holds the receiver of requests
    requests,   \* RankRequests sent and not yet received by the worker
    events,     \* Event::WorkerOutput sent and not yet received by the loop
    cancelled   \* ids whose cancel_token has fired

channelVars == <<connected, requests, events, cancelled>>

-----------------------------------------------------------------------------

\* RequestId::ZERO, which no request carries, stands for "no active request".
None == 0

RequestIds == 1..MaxRequests

Modes == {"Live", "Commit"}

KanaString == Seq(Kana)

Candidate == [reading : KanaString, surface : Surfaces]

RankRequest == [id : RequestIds, kana : KanaString, mode : Modes]

\* WorkerPayload::Candidates(Replace(list)) or WorkerPayload::Error(_).
WorkerOutput == [id      : RequestIds,
                 payload : {"Candidates", "Error"},
                 list    : Seq(Candidate)]

CandidatesEvent(id, list) ==
    [id |-> id, payload |-> "Candidates", list |-> list]

ErrorEvent(id) == [id |-> id, payload |-> "Error", list |-> <<>>]

IsCancelled(id) == id \in cancelled

\* The surfaces of a list a ranker produced, as candidates for kana.
CandidatesFor(kana, surfaces) ==
    [i \in DOMAIN surfaces |-> [reading |-> kana, surface |-> surfaces[i]]]

-----------------------------------------------------------------------------
(***************************************************************************)
(* CandidateUpdate and its effect on a Vec<Candidate>.  The worker's window *)
(* buffer and the IBus lookup table apply updates the same way.             *)
(***************************************************************************)

\* Remove(from..to) with both ends clamped to the length, 0-based.
WithoutRange(list, from, to) ==
    LET Clamp(n) == IF n < Len(list) THEN n ELSE Len(list)
    IN  IF Clamp(from) < Clamp(to)
        THEN SubSeq(list, 1, Clamp(from)) \o SubSeq(list, Clamp(to) + 1, Len(list))
        ELSE list

Applied(list, update) ==
    CASE update.kind = "Replace" -> update.list
      [] update.kind = "Append"  -> list \o update.list
      [] update.kind = "Remove"  -> WithoutRange(list, update.from, update.to)
      [] update.kind = "Clear"   -> <<>>

-----------------------------------------------------------------------------

ChannelsTypeOK ==
    /\ connected \in BOOLEAN
    /\ requests \in Seq(RankRequest)
    /\ events \in Seq(WorkerOutput)
    /\ cancelled \subseteq RequestIds

ChannelsInit ==
    /\ connected = TRUE
    /\ requests = <<>>
    /\ events = <<>>
    /\ cancelled = {}

=============================================================================
