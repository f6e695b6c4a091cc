---------------------------- MODULE HostBridge ----------------------------
(***************************************************************************)
(* The five calls of the IMEHostBridge port, as the IBus adapter turns them *)
(* into signals: operators from the user's view of the input method to the  *)
(* view after the call.  The view holds the preedit text shown, the rows of *)
(* the lookup table and whether the candidate window is visible.            *)
(***************************************************************************)
EXTENDS Sequences

EmptyView == [preedit |-> <<>>, table |-> <<>>, visible |-> FALSE]

\* UpdatePreeditText; the adapter's "visible" is always "text is not empty".
UpdatePreedit(view, text) == [view EXCEPT !.preedit = text]

\* One UpdateLookupTable signal replaces the rows and sets the visibility.
UpdateCandidates(view, list) ==
    [view EXCEPT !.table = list, !.visible = (list # <<>>)]

\* ShowLookupTable and HideLookupTable leave the rows as they are.
ShowCandidateWindow(view) == [view EXCEPT !.visible = TRUE]

HideCandidateWindow(view) == [view EXCEPT !.visible = FALSE]

\* The port's CandidateUpdate::Clear.
ClearCandidates(view) == UpdateCandidates(view, <<>>)

=============================================================================
