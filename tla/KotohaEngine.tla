--------------------------- MODULE KotohaEngine ---------------------------
(***************************************************************************)
(* KotohaEngine, the state machine behind the IMEEngine port.  It is owned  *)
(* by the engine-loop thread: every action below is one call into it, and a *)
(* call runs to its end before the next one starts.  A call talks to the    *)
(* user through the host bridge and to the ranker worker through requests   *)
(* and cancellation tokens; the worker's answers come back as events, at    *)
(* any later time.                                                         *)
(*                                                                         *)
(* Keys that the engine forwards to the application change nothing and are  *)
(* left out, and so is the romaji held back until it completes a kana: a    *)
(* typed key completes one of Strokes, the empty string among them.         *)
(***************************************************************************)
EXTENDS EngineChannels, HostBridge, CommitHistory

CONSTANTS
    Strokes,      \* what one typed key can append to the preedit
    MaxPreedit    \* bound: kana in the preedit

ASSUME StrokesAssumption == Strokes \subseteq KanaString
ASSUME PreeditBound == MaxPreedit \in Nat
ASSUME HistoryAssumption == CharCount \in [Surfaces -> Nat] /\ MaxChars \in Nat

VARIABLES
    state,        \* EngineState
    preedit,      \* preedit.current
    items,        \* candidates.items
    highlight,    \* candidates.highlight, 0-based as in the code
    active,       \* id of active_request, None if there is none
    seed,         \* request_id_seed
    enabled,
    focused,
    history,      \* learning.commit_history
    host,         \* what the user sees through the host bridge
    commits       \* commit_text and record_choice calls, in order

engineVars == <<state, preedit, items, highlight, active, seed, enabled,
                focused, history, host, commits>>

EngineStates == {"Idle", "LiveConverting", "CommitConverting", "CandidatesShown"}

HostView == [preedit : KanaString, table : Seq(Candidate), visible : BOOLEAN]

EngineTypeOK ==
    /\ state \in EngineStates
    /\ preedit \in KanaString
    /\ items \in Seq(Candidate)
    /\ highlight \in Nat
    /\ active \in RequestIds \cup {None}
    /\ seed \in 0..MaxRequests
    /\ enabled \in BOOLEAN
    /\ focused \in BOOLEAN
    /\ history \in Seq(Surfaces)
    /\ host \in HostView
    /\ commits \in Seq(Candidate)

EngineInit ==
    /\ state = "Idle"
    /\ preedit = <<>>
    /\ items = <<>>
    /\ highlight = 0
    /\ active = None
    /\ seed = None
    /\ enabled = FALSE
    /\ focused = FALSE
    /\ history = <<>>
    /\ host = EmptyView
    /\ commits = <<>>

-----------------------------------------------------------------------------
(***************************************************************************)
(* Steps that several handlers share.                                      *)
(***************************************************************************)

\* Mutant: active_request is taken and its token is not fired.
CancelNothing == cancelled

\* cancel_active: the tokens that have fired once the active one has.
CancelActive == cancelled \cup ({active} \ {None})

\* preedit.clear(), candidates.clear() and active_request = None.
ForgetConversion ==
    /\ preedit' = <<>>
    /\ items' = <<>>
    /\ highlight' = 0
    /\ active' = None

\* Mutant: the host keeps the preedit that the engine drops.
HiddenView(view) == HideCandidateWindow(view)

\* What most handlers leave on the screen.
ClosedView(view) == HideCandidateWindow(UpdatePreedit(view, <<>>))

(***************************************************************************)
(* cancel_active, then dispatch_rank_request(mode) for kana.  If the worker *)
(* is gone, the send fails and the engine gives up: the fresh request is    *)
(* cancelled too, the preedit dropped and the input method disabled.        *)
(***************************************************************************)
Dispatch(mode, kana) ==
    /\ seed < MaxRequests
    /\ seed' = seed + 1
    /\ IF connected
       THEN /\ requests' = Append(requests,
                                  [id |-> seed + 1, kana |-> kana, mode |-> mode])
            /\ cancelled' = CancelActive
            /\ preedit' = kana
            /\ items' = <<>>
            /\ highlight' = 0
            /\ active' = seed + 1
            /\ UNCHANGED enabled
       ELSE /\ cancelled' = CancelActive \cup {seed + 1}
            /\ ForgetConversion
            /\ enabled' = FALSE
            /\ UNCHANGED requests
    /\ UNCHANGED <<connected, events, focused, history, commits>>

\* What dispatch_rank_request tells the host, entered with the candidates kept.
ViewAfterDispatch(view, kept) ==
    LET cleared == IF kept # <<>>
                   THEN HideCandidateWindow(ClearCandidates(view))
                   ELSE view
    IN  IF connected THEN cleared ELSE ClosedView(cleared)

\* Mutant: the surfaces of a ranker are trusted.
TrustAll(list) == list

\* is_safe_for_host over a list: the k-th row left is the k-th safe one.
SafeOnly(list) ==
    LET safe == {i \in DOMAIN list : list[i].surface \notin UnsafeSurfaces}
        position(k) == CHOOSE i \in safe : Cardinality({j \in safe : j <= i}) = k
    IN  [k \in 1..Cardinality(safe) |-> list[position(k)]]

-----------------------------------------------------------------------------
(***************************************************************************)
(* process_key_event.                                                      *)
(***************************************************************************)

TakesKeys == enabled /\ focused

\* CandidatesShown is left through hide_candidate_window and candidates.clear.
LeavingShown(view) == IF state = "CandidatesShown" THEN HideCandidateWindow(view) ELSE view

KeptItems == IF state = "CandidatesShown" THEN <<>> ELSE items

\* A printable key that completes stroke.  The window opens before there is
\* anything to show, unless the dispatch has just disabled the engine.
HandleTyping(stroke) ==
    LET kana == preedit \o stroke
        view == UpdatePreedit(LeavingShown(host), kana)
    IN  /\ TakesKeys
        /\ Len(kana) <= MaxPreedit
        /\ \/ /\ kana # <<>>
              /\ Dispatch("Live", kana)
              /\ IF connected
                 THEN /\ host' = ShowCandidateWindow(ViewAfterDispatch(view, KeptItems))
                      /\ state' = "LiveConverting"
                 ELSE /\ host' = ViewAfterDispatch(view, KeptItems)
                      /\ state' = "Idle"
           \/ /\ kana = <<>>
              /\ state' = "Idle"
              /\ items' = KeptItems
              /\ highlight' = IF state = "CandidatesShown" THEN 0 ELSE highlight
              /\ host' = view
              /\ UNCHANGED <<preedit, active, seed, enabled, focused, history,
                             commits, channelVars>>

\* Dispatches again for the shorter preedit, or ends the conversion.  Unlike
\* HandleTyping it does not look at enabled after the dispatch.
HandleBackspace ==
    LET kana == IF preedit = <<>> THEN <<>> ELSE SubSeq(preedit, 1, Len(preedit) - 1)
        view == UpdatePreedit(LeavingShown(host), kana)
    IN  /\ TakesKeys
        /\ state # "Idle"
        /\ \/ /\ kana # <<>>
              /\ Dispatch("Live", kana)
              /\ host' = ShowCandidateWindow(ViewAfterDispatch(view, KeptItems))
              /\ state' = "LiveConverting"
           \/ /\ kana = <<>>
              /\ preedit' = <<>>
              /\ items' = KeptItems
              /\ highlight' = IF state = "CandidatesShown" THEN 0 ELSE highlight
              /\ active' = None
              /\ cancelled' = CancelActive
              /\ host' = HideCandidateWindow(view)
              /\ state' = "Idle"
              /\ UNCHANGED <<seed, enabled, focused, history, commits,
                             connected, requests, events>>

\* Space while converting: candidates.clear() comes before the dispatch, so
\* the dispatch finds nothing to clear on the host.
HandleSpace ==
    /\ TakesKeys
    /\ state \in {"LiveConverting", "CommitConverting"}
    /\ Dispatch("Commit", preedit)
    /\ host' = ViewAfterDispatch(ShowCandidateWindow(host), <<>>)
    /\ state' = IF connected THEN "CommitConverting" ELSE "Idle"

\* Mutant: the highlight moves past the last candidate.
NavigationWithoutWrap(offset) ==
    /\ TakesKeys
    /\ state = "CandidatesShown"
    /\ items # <<>>
    /\ highlight' = highlight + offset
    /\ host' = UpdateCandidates(host, items)
    /\ UNCHANGED <<state, preedit, items, active, seed, enabled, focused,
                   history, commits, channelVars>>

\* Down, Tab, Right and Space move forwards; Up and Left backwards.
HandleNavigation(offset) ==
    /\ TakesKeys
    /\ state = "CandidatesShown"
    /\ items # <<>>
    /\ highlight' = (highlight + offset) % Len(items)
    /\ host' = UpdateCandidates(host, items)
    /\ UNCHANGED <<state, preedit, items, active, seed, enabled, focused,
                   history, commits, channelVars>>

NavigateForward == HandleNavigation(1)

NavigateBack == HandleNavigation(Len(items) - 1)

\* Mutant: the navigation is forgotten.
FirstCandidate == items[1]

Selected == items[highlight + 1]

\* Enter.  A failure of record_choice is only logged.
HandleReturn ==
    /\ TakesKeys
    /\ state = "CandidatesShown"
    /\ items # <<>>
    /\ IF Selected.surface \in UnsafeSurfaces
       THEN UNCHANGED <<commits, history>>
       ELSE /\ commits' = Append(commits, [reading |-> preedit,
                                           surface |-> Selected.surface])
            /\ history' = Push(history, Selected.surface)
    /\ ForgetConversion
    /\ cancelled' = CancelActive
    /\ host' = ClosedView(host)
    /\ state' = "Idle"
    /\ UNCHANGED <<seed, enabled, focused, connected, requests, events>>

\* Escape drops the preedit, or goes back from the candidates to it.  (The
\* branch for CandidatesShown without a preedit is dead: nothing is ever shown
\* for an empty one, which ShownHasPreedit of ConversionProofs states.)
HandleEscape ==
    /\ TakesKeys
    /\ \/ /\ state \in {"LiveConverting", "CommitConverting"}
          /\ ForgetConversion
          /\ cancelled' = CancelActive
          /\ host' = ClosedView(host)
          /\ state' = "Idle"
          /\ UNCHANGED <<seed, enabled, focused, history, commits,
                         connected, requests, events>>
       \/ /\ state = "CandidatesShown"
          /\ preedit # <<>>
          /\ Dispatch("Live", preedit)
          /\ host' = ShowCandidateWindow(
                         ViewAfterDispatch(HideCandidateWindow(host), <<>>))
          /\ state' = "LiveConverting"

-----------------------------------------------------------------------------
(***************************************************************************)
(* The other calls of the port.                                            *)
(***************************************************************************)

FocusIn ==
    /\ focused' = TRUE
    /\ UNCHANGED <<state, preedit, items, highlight, active, seed, enabled,
                   history, host, commits, channelVars>>

\* focus_out, reset and disable all end the conversion in progress.
EndConversion ==
    /\ ForgetConversion
    /\ cancelled' = CancelActive
    /\ host' = ClosedView(host)
    /\ state' = "Idle"
    /\ UNCHANGED <<seed, commits, connected, requests, events>>

\* Mutant: nothing to end, so nothing is done.
FocusOutUnlessIdle ==
    /\ IF state = "Idle"
       THEN UNCHANGED <<state, preedit, items, highlight, active, seed, history,
                        host, commits, channelVars>>
       ELSE EndConversion /\ history' = <<>>
    /\ focused' = FALSE
    /\ UNCHANGED enabled

FocusOut ==
    /\ EndConversion
    /\ history' = <<>>
    /\ focused' = FALSE
    /\ UNCHANGED enabled

Reset ==
    /\ EndConversion
    /\ history' = <<>>
    /\ UNCHANGED <<enabled, focused>>

Enable ==
    /\ enabled' = TRUE
    /\ UNCHANGED <<state, preedit, items, highlight, active, seed, focused,
                   history, host, commits, channelVars>>

\* disable keeps the commit history.
Disable ==
    /\ EndConversion
    /\ enabled' = FALSE
    /\ UNCHANGED <<focused, history>>

-----------------------------------------------------------------------------
(***************************************************************************)
(* apply_candidate_update, called by the engine loop with the next event.  *)
(***************************************************************************)

NextOutput == Head(events)

\* Mutant: any output will do while some request is active.
SomeIsActive == active # None

\* The request_id of the output against that of active_request.
IsCurrent == NextOutput.id = active

ReceiveOutput ==
    /\ events # <<>>
    /\ events' = Tail(events)
    /\ UNCHANGED <<connected, requests, cancelled>>

DiscardStaleOutput ==
    /\ ReceiveOutput
    /\ ~IsCurrent
    /\ UNCHANGED engineVars

\* The host loses the candidates when the last one of the engine is gone.
ViewAfterReplace(list) ==
    IF items # <<>> /\ list = <<>>
    THEN HideCandidateWindow(ClearCandidates(host))
    ELSE host

\* Mutant: an answer without candidates is shown all the same.
PromoteAlways ==
    LET list == SafeOnly(NextOutput.list)
    IN  /\ ReceiveOutput
        /\ IsCurrent
        /\ NextOutput.payload = "Candidates"
        /\ items' = list
        /\ highlight' = 0
        /\ host' = UpdateCandidates(ViewAfterReplace(list), list)
        /\ state' = IF state = "CommitConverting" THEN "CandidatesShown" ELSE state
        /\ UNCHANGED <<preedit, active, seed, enabled, focused, history, commits>>

\* apply_buffer_update(Replace(_)), then the promotion to CandidatesShown or
\* the refresh of the live candidates.  In CandidatesShown the host is told
\* nothing, unless the last candidate is gone.
ApplyCandidates ==
    LET list == SafeOnly(NextOutput.list)
    IN  /\ ReceiveOutput
        /\ IsCurrent
        /\ NextOutput.payload = "Candidates"
        /\ items' = list
        /\ highlight' = 0
        /\ IF list # <<>> /\ state \in {"CommitConverting", "LiveConverting"}
           THEN /\ host' = UpdateCandidates(ViewAfterReplace(list), list)
                /\ state' = IF state = "CommitConverting" THEN "CandidatesShown" ELSE state
           ELSE /\ host' = ViewAfterReplace(list)
                /\ UNCHANGED state
        /\ UNCHANGED <<preedit, active, seed, enabled, focused, history, commits>>

\* Mutant: the preedit outlives the conversion.
DegradeKeepsPreedit ==
    /\ ReceiveOutput
    /\ IsCurrent
    /\ NextOutput.payload = "Error"
    /\ items' = <<>>
    /\ highlight' = 0
    /\ active' = None
    /\ host' = HideCandidateWindow(host)
    /\ state' = "Idle"
    /\ UNCHANGED <<preedit, seed, enabled, focused, history, commits>>

\* degrade_to_idle: active_request is dropped without firing its token.
DegradeToIdle ==
    /\ ReceiveOutput
    /\ IsCurrent
    /\ NextOutput.payload = "Error"
    /\ ForgetConversion
    /\ host' = ClosedView(host)
    /\ state' = "Idle"
    /\ UNCHANGED <<seed, enabled, focused, history, commits>>

-----------------------------------------------------------------------------

HandleKey ==
    \/ \E stroke \in Strokes : HandleTyping(stroke)
    \/ HandleBackspace
    \/ HandleSpace
    \/ NavigateForward
    \/ NavigateBack
    \/ HandleReturn
    \/ HandleEscape

HostCall ==
    \/ FocusIn
    \/ FocusOut
    \/ Reset
    \/ Enable
    \/ Disable

HandleOutput ==
    \/ DiscardStaleOutput
    \/ ApplyCandidates
    \/ DegradeToIdle

EngineNext == HandleKey \/ HostCall \/ HandleOutput

=============================================================================
