------------------------- MODULE ConversionProofs -------------------------
(***************************************************************************)
(* The safety of the conversion system, for every value of its constants.   *)
(* The invariant has two halves: the pipeline of ConversionPipeline, and    *)
(* the screen, which relates the engine's fields to what the user sees and  *)
(* rests on the pipeline when an answer arrives.  Together with the facts   *)
(* on second answers they show that the engine implements                   *)
(* ConversionSession.                                                      *)
(***************************************************************************)
EXTENDS ConversionPipeline

-----------------------------------------------------------------------------
(***************************************************************************)
(* What the user sees.                                                     *)
(***************************************************************************)

\* What each call of the host bridge leaves in the view.
LEMMA ViewFields ==
    ASSUME NEW view \in HostView
    PROVE  /\ \A text : /\ UpdatePreedit(view, text).preedit = text
                        /\ UpdatePreedit(view, text).table = view.table
                        /\ UpdatePreedit(view, text).visible = view.visible
           /\ \A list : /\ UpdateCandidates(view, list).preedit = view.preedit
                        /\ UpdateCandidates(view, list).table = list
                        /\ UpdateCandidates(view, list).visible = (list # <<>>)
           /\ ShowCandidateWindow(view).preedit = view.preedit
           /\ ShowCandidateWindow(view).table = view.table
           /\ HideCandidateWindow(view).preedit = view.preedit
           /\ HideCandidateWindow(view).table = view.table
           /\ ~HideCandidateWindow(view).visible
  BY DEF HostView, UpdatePreedit, UpdateCandidates, ShowCandidateWindow, HideCandidateWindow

\* What the compound updates of the handlers show in the end.
LEMMA HandlerViews ==
    ASSUME NEW view \in HostView
    PROVE  /\ ClosedView(view).preedit = <<>>
           /\ ClosedView(view).table = view.table
           /\ ~ClosedView(view).visible
           /\ LeavingShown(view).preedit = view.preedit
           /\ LeavingShown(view).table = view.table
           /\ state = "CandidatesShown" => ~LeavingShown(view).visible
           /\ state # "CandidatesShown" => LeavingShown(view) = view
           /\ \A kept :
                /\ ViewAfterDispatch(view, kept).table \in {view.table, <<>>}
                /\ connected => ViewAfterDispatch(view, kept).preedit = view.preedit
                /\ ~connected => ViewAfterDispatch(view, kept).preedit = <<>>
<1>1. <<>> \in KanaString
  BY DEF KanaString
<1>2. UpdatePreedit(view, <<>>) \in HostView
  BY <1>1, ViewsTyped
<1>3. /\ ClosedView(view).preedit = <<>>
      /\ ClosedView(view).table = view.table
      /\ ~ClosedView(view).visible
  BY <1>2, ViewFields DEF ClosedView
<1>4. /\ LeavingShown(view).preedit = view.preedit
      /\ LeavingShown(view).table = view.table
      /\ state = "CandidatesShown" => ~LeavingShown(view).visible
      /\ state # "CandidatesShown" => LeavingShown(view) = view
  BY ViewFields DEF LeavingShown
<1>5. ASSUME NEW v \in HostView
      PROVE  /\ ClosedView(v).preedit = <<>>
             /\ ClosedView(v).table = v.table
  <2>1. UpdatePreedit(v, <<>>) \in HostView
    BY <1>1, ViewsTyped
  <2>2. QED
    BY <2>1, ViewFields DEF ClosedView
<1>6. ASSUME NEW kept
      PROVE  /\ ViewAfterDispatch(view, kept).table \in {view.table, <<>>}
             /\ connected => ViewAfterDispatch(view, kept).preedit = view.preedit
             /\ ~connected => ViewAfterDispatch(view, kept).preedit = <<>>
  <2> DEFINE cleared == IF kept # <<>>
                        THEN HideCandidateWindow(ClearCandidates(view)) ELSE view
  <2>1. ClearCandidates(view) \in HostView
    BY ViewsTyped
  <2>2. /\ ClearCandidates(view).preedit = view.preedit
        /\ ClearCandidates(view).table = <<>>
    BY ViewFields DEF ClearCandidates
  <2>3. HideCandidateWindow(ClearCandidates(view)) \in HostView
    BY <2>1, ViewsTyped
  <2>4. /\ HideCandidateWindow(ClearCandidates(view)).preedit = view.preedit
        /\ HideCandidateWindow(ClearCandidates(view)).table = <<>>
    BY <2>1, <2>2, ViewFields
  <2>5. /\ cleared \in HostView /\ cleared.preedit = view.preedit
        /\ cleared.table \in {view.table, <<>>}
    BY <2>3, <2>4
  <2>6. ViewAfterDispatch(view, kept) = IF connected THEN cleared ELSE ClosedView(cleared)
    BY DEF ViewAfterDispatch
  <2> HIDE DEF cleared
  <2>7. CASE connected
    BY <2>5, <2>6, <2>7
  <2>8. CASE ~connected
    BY <1>5, <2>5, <2>6, <2>8
  <2>9. QED
    BY <2>7, <2>8
<1>7. QED
  BY <1>3, <1>4, <1>6

\* A list may be shown.
AllSafe(list) == \A i \in DOMAIN list : list[i].surface \notin UnsafeSurfaces

\* The three lists that the property is about.
LEMMA SafeLists ==
    OnlySafeReachesHost <=> AllSafe(items) /\ AllSafe(host.table) /\ AllSafe(commits)
  BY DEF OnlySafeReachesHost, AllSafe, Range

\* The two parts of IdleIsQuiet: what the engine holds, and what is seen of it.
IdleIsEmpty == state = "Idle" => preedit = <<>> /\ active = None

IdleWindowHidden == state = "Idle" /\ connected => ~host.visible

\* Without a preedit nothing is asked for.
EmptyIsQuiet == preedit = <<>> => active = None

\* A conversion has something to convert, as long as the worker lives.
ConvertingHasPreedit == connected /\ state # "Idle" => preedit # <<>>

\* Candidates are never shown for an empty preedit, worker or not: the branch
\* of handle_escape for that case is dead.
ShownHasPreedit == state = "CandidatesShown" => preedit # <<>>

\* The safe lists are spelled out, the set of OnlySafeReachesHost is not.
ScreenInv ==
    /\ IdleIsEmpty
    /\ EmptyIsQuiet
    /\ ConvertingHasPreedit
    /\ ShownHasPreedit
    /\ HostPreeditMirrored
    /\ IdleWindowHidden
    /\ FocusLostIsQuiet
    /\ AllSafe(items) /\ AllSafe(host.table) /\ AllSafe(commits)
    /\ state # "Idle" => AllRead(items, preedit)

\* A handler that asks the worker leaves a conversion with no candidates.
LEMMA AfterDispatch ==
    ASSUME TInv, ScreenInv, NEW mode \in Modes, NEW kana \in KanaString,
           Dispatch(mode, kana), connected => kana # <<>>, focused,
           host'.table \in {host.table, <<>>}, host'.preedit = preedit',
           state' # "CandidatesShown", state' = "Idle" => ~connected
    PROVE  ScreenInv'
<1>1. items' = <<>> /\ UNCHANGED <<focused, history, commits, connected>>
  BY DispatchTyped
<1>2. connected => preedit' = kana /\ active' # None
  BY PipelineTypes DEF Dispatch
<1>3. ~connected => preedit' = <<>> /\ active' = None
  BY DEF Dispatch, ForgetConversion
<1>4. AllSafe(<<>>) /\ (\A text : AllRead(<<>>, text))
  BY DEF AllSafe, AllRead
<1>5. AllSafe(items')
  BY <1>1, <1>4
<1>6. AllSafe(host'.table)
  BY <1>4 DEF ScreenInv
<1>7. AllSafe(commits')
  BY <1>1 DEF ScreenInv
<1>8. AllRead(items', preedit')
  BY <1>1, <1>4
<1>9. IdleIsEmpty' /\ EmptyIsQuiet' /\ ConvertingHasPreedit' /\ ShownHasPreedit'
  BY <1>1, <1>2, <1>3
  DEF IdleIsEmpty, EmptyIsQuiet, ConvertingHasPreedit, ShownHasPreedit
<1>10. HostPreeditMirrored' /\ IdleWindowHidden' /\ FocusLostIsQuiet'
  BY <1>1 DEF HostPreeditMirrored, IdleWindowHidden, FocusLostIsQuiet
<1>11. QED
  BY <1>5, <1>6, <1>7, <1>8, <1>9, <1>10 DEF ScreenInv

\* A handler that goes back to Idle leaves nothing on the screen.
LEMMA AfterEnd ==
    ASSUME TInv, ScreenInv, state' = "Idle", preedit' = <<>>, active' = None,
           host'.preedit = <<>>, host'.table = host.table,
           connected' => ~host'.visible,
           ~focused' => history' = <<>> /\ ~host'.visible,
           AllSafe(items'), AllSafe(commits')
    PROVE  ScreenInv'
<1>1. AllSafe(host'.table)
  BY DEF ScreenInv
<1>2. IdleIsEmpty' /\ EmptyIsQuiet' /\ ConvertingHasPreedit' /\ ShownHasPreedit'
  BY DEF IdleIsEmpty, EmptyIsQuiet, ConvertingHasPreedit, ShownHasPreedit
<1>3. HostPreeditMirrored' /\ IdleWindowHidden' /\ FocusLostIsQuiet'
  BY DEF HostPreeditMirrored, IdleWindowHidden, FocusLostIsQuiet
<1>4. state' # "Idle" => AllRead(items', preedit')
  OBVIOUS
<1>5. QED
  BY <1>1, <1>2, <1>3, <1>4 DEF ScreenInv

\* No key breaks the invariant of the screen,
LEMMA KeysKeepScreen ==
    ASSUME TInv, ScreenInv, HandleKey
    PROVE  ScreenInv'
<1>1. /\ host \in HostView /\ preedit \in KanaString /\ items \in Seq(Candidate)
      /\ highlight \in Nat /\ LeavingShown(host) \in HostView
      /\ <<>> \in KanaString /\ "Live" \in Modes /\ "Commit" \in Modes
  BY ViewsTyped DEF TInv, TypeOK, EngineTypeOK, KanaString, Modes
<1>2. TakesKeys => focused
  BY DEF TakesKeys
<1>3. AllSafe(KeptItems) /\ AllSafe(<<>>)
  BY DEF ScreenInv, KeptItems, AllSafe
<1>4. /\ LeavingShown(host).preedit = host.preedit
      /\ LeavingShown(host).table = host.table
      /\ state = "CandidatesShown" => ~LeavingShown(host).visible
      /\ state # "CandidatesShown" => LeavingShown(host) = host
  BY <1>1, HandlerViews
\* Handlers that re-open the window for a new request.
<1>5. ASSUME NEW kana \in KanaString, NEW view \in HostView, NEW kept,
             view.table = host.table, view.preedit = kana, Dispatch("Live", kana),
             \/ host' = ViewAfterDispatch(view, kept)
             \/ host' = ShowCandidateWindow(ViewAfterDispatch(view, kept))
      PROVE  host'.table \in {host.table, <<>>} /\ host'.preedit = preedit'
  <2>1. ViewAfterDispatch(view, kept) \in HostView
    BY ViewsTyped
  <2>2. /\ ViewAfterDispatch(view, kept).table \in {view.table, <<>>}
        /\ connected => ViewAfterDispatch(view, kept).preedit = view.preedit
        /\ ~connected => ViewAfterDispatch(view, kept).preedit = <<>>
    BY HandlerViews
  <2>3. /\ host'.table = ViewAfterDispatch(view, kept).table
        /\ host'.preedit = ViewAfterDispatch(view, kept).preedit
    BY <1>5, <2>1, ViewFields
  <2>4. (connected => preedit' = kana) /\ (~connected => preedit' = <<>>)
    BY <1>5 DEF Dispatch, ForgetConversion
  <2>5. QED
    BY <1>5, <2>2, <2>3, <2>4
<1>6. ASSUME NEW stroke \in Strokes, HandleTyping(stroke)
      PROVE  ScreenInv'
  <2> DEFINE kana == preedit \o stroke
             view == UpdatePreedit(LeavingShown(host), kana)
  <2>1. kana \in KanaString
    <3>1. stroke \in Seq(Kana) /\ preedit \in Seq(Kana)
      BY StrokesAssumption, <1>1 DEF KanaString
    <3>2. QED
      BY <3>1, ConcatProperties DEF KanaString
  <2>2. view \in HostView
    BY <1>1, <2>1, ViewsTyped
  <2>3. /\ view.table = host.table /\ view.preedit = kana
        /\ view.visible = LeavingShown(host).visible
    BY <1>1, <1>4, ViewFields
  <2>4. kana = <<>> => preedit = <<>>
    <3>1. stroke \in Seq(Kana) /\ preedit \in Seq(Kana)
      BY StrokesAssumption, <1>1 DEF KanaString
    <3>2. QED
      BY <3>1, ConcatEmptySeq
  <2> HIDE DEF view, kana
  <2>5. CASE kana # <<>> /\ Dispatch("Live", kana)
    <3>1. /\ \/ host' = ViewAfterDispatch(view, KeptItems)
             \/ host' = ShowCandidateWindow(ViewAfterDispatch(view, KeptItems))
          /\ state' # "CandidatesShown" /\ (state' = "Idle" => ~connected)
          /\ focused
      BY <1>2, <1>6, <2>5 DEF HandleTyping, view, kana
    <3>2. host'.table \in {host.table, <<>>} /\ host'.preedit = preedit'
      BY <1>5, <2>1, <2>2, <2>3, <2>5, <3>1
    <3>3. QED
      BY <1>1, <2>1, <2>5, <3>1, <3>2, AfterDispatch
  <2>6. CASE /\ kana = <<>>
             /\ state' = "Idle"
             /\ items' = KeptItems
             /\ host' = view
             /\ UNCHANGED <<preedit, active, focused, commits, channelVars>>
    <3>1. preedit' = <<>> /\ active' = None
      BY <2>4, <2>6 DEF ScreenInv, EmptyIsQuiet
    <3>2. focused' /\ connected' = connected
      BY <1>2, <1>6, <2>6 DEF HandleTyping, channelVars
    <3>3. connected => ~view.visible
      <4>1. CASE state = "CandidatesShown"
        BY <1>4, <2>3, <4>1
      <4>2. CASE state # "CandidatesShown"
        <5>1. connected => state = "Idle"
          BY <2>4, <2>6 DEF ScreenInv, ConvertingHasPreedit
        <5>2. QED
          BY <1>4, <2>3, <4>2, <5>1 DEF ScreenInv, IdleWindowHidden
      <4>3. QED
        BY <4>1, <4>2
    <3>4. connected' => ~host'.visible
      BY <2>6, <3>2, <3>3
    <3>5. host'.preedit = <<>> /\ host'.table = host.table /\ state' = "Idle"
      BY <2>3, <2>6
    <3>6. AllSafe(items')
      BY <1>3, <2>6
    <3>7. AllSafe(commits')
      BY <2>6 DEF ScreenInv
    <3>8. QED
      BY <3>1, <3>2, <3>4, <3>5, <3>6, <3>7, AfterEnd
  <2>7. QED
    BY <1>6, <2>5, <2>6 DEF HandleTyping, kana, view
<1>7. CASE HandleBackspace
  <2> DEFINE kana == IF preedit = <<>> THEN <<>> ELSE SubSeq(preedit, 1, Len(preedit) - 1)
             view == UpdatePreedit(LeavingShown(host), kana)
  <2>1. kana \in KanaString
    <3>1. CASE preedit # <<>>
      <4>1. preedit \in Seq(Kana) /\ Len(preedit) \in Nat \ {0}
        BY <1>1, <3>1, EmptySeq DEF KanaString
      <4>2. Len(preedit) - 1 \in 0..Len(preedit) /\ 1 \in 1..(Len(preedit) + 1)
        BY <4>1
      <4>3. SubSeq(preedit, 1, Len(preedit) - 1) \in Seq(Kana)
        BY <4>1, <4>2, SubSeqProperties
      <4>4. QED
        BY <3>1, <4>3 DEF KanaString
    <3>2. QED
      BY <3>1, <1>1
  <2>2. view \in HostView
    BY <1>1, <2>1, ViewsTyped
  <2>3. view.table = host.table /\ view.preedit = kana
    BY <1>1, <1>4, ViewFields
  <2> HIDE DEF view, kana
  <2>4. CASE /\ kana # <<>> /\ Dispatch("Live", kana)
             /\ host' = ShowCandidateWindow(ViewAfterDispatch(view, KeptItems))
             /\ state' = "LiveConverting"
    <3>1. focused
      BY <1>2, <1>7 DEF HandleBackspace
    <3>2. host'.table \in {host.table, <<>>} /\ host'.preedit = preedit'
      BY <1>5, <2>1, <2>2, <2>3, <2>4
    <3>3. QED
      BY <1>1, <2>1, <2>4, <3>1, <3>2, AfterDispatch
  <2>5. CASE /\ kana = <<>>
             /\ preedit' = <<>> /\ items' = KeptItems /\ active' = None
             /\ host' = HideCandidateWindow(view)
             /\ state' = "Idle"
             /\ UNCHANGED <<focused, commits>>
    <3>1. focused'
      BY <1>2, <1>7, <2>5 DEF HandleBackspace
    <3>2. ~host'.visible /\ host'.preedit = <<>> /\ host'.table = host.table
      BY <2>2, <2>3, <2>5, ViewFields
    <3>3. AllSafe(items')
      BY <1>3, <2>5
    <3>4. AllSafe(commits')
      BY <2>5 DEF ScreenInv
    <3>5. QED
      BY <2>5, <3>1, <3>2, <3>3, <3>4, AfterEnd
  <2>6. QED
    BY <1>7, <2>4, <2>5 DEF HandleBackspace, kana, view
<1>8. CASE HandleSpace
  <2>1. /\ Dispatch("Commit", preedit)
        /\ host' = ViewAfterDispatch(ShowCandidateWindow(host), <<>>)
        /\ state' # "CandidatesShown" /\ (state' = "Idle" => ~connected)
        /\ focused /\ state # "Idle"
    BY <1>2, <1>8 DEF HandleSpace
  <2>2. connected => preedit # <<>>
    BY <2>1 DEF ScreenInv, ConvertingHasPreedit
  <2>3. ShowCandidateWindow(host) \in HostView
    BY <1>1, ViewsTyped
  <2>4. /\ ShowCandidateWindow(host).table = host.table
        /\ ShowCandidateWindow(host).preedit = preedit
    BY <1>1, ViewFields DEF ScreenInv, HostPreeditMirrored
  <2>5. /\ host'.table \in {host.table, <<>>}
        /\ connected => host'.preedit = preedit
        /\ ~connected => host'.preedit = <<>>
    BY <2>1, <2>3, <2>4, HandlerViews
  <2>6. (connected => preedit' = preedit) /\ (~connected => preedit' = <<>>)
    BY <2>1 DEF Dispatch, ForgetConversion
  <2>7. QED
    BY <1>1, <2>1, <2>2, <2>5, <2>6, AfterDispatch
<1>9. CASE NavigateForward \/ NavigateBack
  <2>1. /\ host' = UpdateCandidates(host, items)
        /\ state = "CandidatesShown" /\ focused
        /\ UNCHANGED <<state, preedit, items, active, focused, history, commits, connected>>
    BY <1>2, <1>9 DEF NavigateForward, NavigateBack, HandleNavigation, channelVars
  <2>2. host'.preedit = host.preedit /\ host'.table = items
    BY <1>1, <2>1, ViewFields
  <2>3. AllSafe(items') /\ AllSafe(host'.table) /\ AllSafe(commits')
    BY <2>1, <2>2 DEF ScreenInv
  <2>4. AllRead(items', preedit')
    BY <2>1 DEF ScreenInv
  <2>5. IdleIsEmpty' /\ EmptyIsQuiet' /\ ConvertingHasPreedit' /\ ShownHasPreedit'
    BY <2>1 DEF ScreenInv, IdleIsEmpty, EmptyIsQuiet, ConvertingHasPreedit, ShownHasPreedit
  <2>6. HostPreeditMirrored' /\ IdleWindowHidden' /\ FocusLostIsQuiet'
    BY <2>1, <2>2 DEF ScreenInv, HostPreeditMirrored, IdleWindowHidden, FocusLostIsQuiet
  <2>7. QED
    BY <2>3, <2>4, <2>5, <2>6 DEF ScreenInv
<1>10. /\ ClosedView(host).preedit = <<>>
       /\ ClosedView(host).table = host.table
       /\ ~ClosedView(host).visible
  BY <1>1, HandlerViews
<1>11. CASE HandleReturn
  <2>1. /\ ForgetConversion /\ host' = ClosedView(host) /\ state' = "Idle" /\ focused'
    BY <1>2, <1>11 DEF HandleReturn
  <2>2. preedit' = <<>> /\ items' = <<>> /\ active' = None
    BY <2>1 DEF ForgetConversion
  <2>3. AllSafe(commits')
    <3>1. CASE Selected.surface \in UnsafeSurfaces
      <4>1. commits' = commits
        BY <1>11, <3>1 DEF HandleReturn
      <4>2. QED
        BY <4>1 DEF ScreenInv
    <3>2. CASE Selected.surface \notin UnsafeSurfaces
      <4> DEFINE new == [reading |-> preedit, surface |-> Selected.surface]
      <4>1. new.surface \notin UnsafeSurfaces
        BY <3>2
      <4>2. commits' = Append(commits, new) /\ commits \in Seq(Candidate)
        BY <1>11, <3>2 DEF HandleReturn, TInv, TypeOK, EngineTypeOK
      <4> HIDE DEF new
      <4>3. \A i \in DOMAIN commits' :
              \/ i \in DOMAIN commits /\ commits'[i] = commits[i]
              \/ commits'[i] = new
        BY <4>2, AppendElements
      <4>4. QED
        BY <4>1, <4>3 DEF ScreenInv, AllSafe
    <3>3. QED
      BY <3>1, <3>2
  <2>4. AllSafe(items')
    BY <1>3, <2>2
  <2>5. QED
    BY <1>10, <2>1, <2>2, <2>3, <2>4, AfterEnd
<1>12. CASE HandleEscape
  <2>1. focused
    BY <1>2, <1>12 DEF HandleEscape
  <2>2. CASE /\ ForgetConversion /\ host' = ClosedView(host) /\ state' = "Idle"
             /\ UNCHANGED <<focused, commits>>
    <3>1. preedit' = <<>> /\ items' = <<>> /\ active' = None
      BY <2>2 DEF ForgetConversion
    <3>2. AllSafe(items')
      BY <1>3, <3>1
    <3>3. AllSafe(commits')
      BY <2>2 DEF ScreenInv
    <3>4. QED
      BY <1>10, <2>1, <2>2, <3>1, <3>2, <3>3, AfterEnd
  <2>3. CASE /\ Dispatch("Live", preedit) /\ preedit # <<>>
             /\ host' = ShowCandidateWindow(
                            ViewAfterDispatch(HideCandidateWindow(host), <<>>))
             /\ state' = "LiveConverting"
    <3>1. HideCandidateWindow(host) \in HostView
      BY <1>1, ViewsTyped
    <3>2. /\ HideCandidateWindow(host).table = host.table
          /\ HideCandidateWindow(host).preedit = preedit
      BY <1>1, ViewFields DEF ScreenInv, HostPreeditMirrored
    <3>3. host'.table \in {host.table, <<>>} /\ host'.preedit = preedit'
      BY <1>1, <1>5, <2>3, <3>1, <3>2
    <3>4. QED
      BY <1>1, <2>1, <2>3, <3>3, AfterDispatch
  <2>4. QED
    BY <1>12, <2>2, <2>3 DEF HandleEscape
<1>13. QED
  BY <1>6, <1>7, <1>8, <1>9, <1>11, <1>12 DEF HandleKey

\* no call of the host does,
LEMMA CallsKeepScreen ==
    ASSUME TInv, ScreenInv, HostCall
    PROVE  ScreenInv'
<1>1. host \in HostView /\ AllSafe(<<>>)
  BY DEF TInv, TypeOK, EngineTypeOK, AllSafe
<1>2. /\ ClosedView(host).preedit = <<>>
      /\ ClosedView(host).table = host.table
      /\ ~ClosedView(host).visible
  BY <1>1, HandlerViews
<1>3. ASSUME EndConversion, ~focused' => history' = <<>>
      PROVE  ScreenInv'
  <2>1. /\ preedit' = <<>> /\ items' = <<>> /\ active' = None
        /\ host' = ClosedView(host) /\ state' = "Idle" /\ commits' = commits
    BY <1>3 DEF EndConversion, ForgetConversion
  <2>2. AllSafe(items')
    BY <1>1, <2>1
  <2>3. AllSafe(commits')
    BY <2>1 DEF ScreenInv
  <2>4. QED
    BY <1>2, <1>3, <2>1, <2>2, <2>3, AfterEnd
<1>4. CASE FocusOut \/ Reset
  BY <1>3, <1>4 DEF FocusOut, Reset
<1>5. CASE Disable
  <2>1. ~focused' => history' = <<>>
    BY <1>5 DEF Disable, ScreenInv, FocusLostIsQuiet
  <2>2. QED
    BY <1>3, <1>5, <2>1 DEF Disable
<1>6. CASE FocusIn \/ Enable
  <2>1. /\ UNCHANGED <<state, preedit, items, active, history, host, commits, connected>>
        /\ ~focused' => ~focused
    BY <1>6 DEF FocusIn, Enable, channelVars
  <2>2. AllSafe(items') /\ AllSafe(host'.table) /\ AllSafe(commits')
    BY <2>1 DEF ScreenInv
  <2>3. state' # "Idle" => AllRead(items', preedit')
    BY <2>1 DEF ScreenInv
  <2>4. IdleIsEmpty' /\ EmptyIsQuiet' /\ ConvertingHasPreedit' /\ ShownHasPreedit'
    BY <2>1 DEF ScreenInv, IdleIsEmpty, EmptyIsQuiet, ConvertingHasPreedit, ShownHasPreedit
  <2>5. HostPreeditMirrored' /\ IdleWindowHidden' /\ FocusLostIsQuiet'
    BY <2>1 DEF ScreenInv, HostPreeditMirrored, IdleWindowHidden, FocusLostIsQuiet
  <2>6. QED
    BY <2>2, <2>3, <2>4, <2>5 DEF ScreenInv
<1>7. QED
  BY <1>4, <1>5, <1>6 DEF HostCall

\* The event at the head of the channel, if the engine accepts it.
LEMMA NextOutputFacts ==
    ASSUME TInv, ReceiveOutput
    PROVE  /\ 1 \in DOMAIN events /\ NextOutput = events[1]
           /\ NextOutput \in WorkerOutput /\ NextOutput.list \in Seq(Candidate)
           /\ IsCurrent => active # None
<1>1. events \in Seq(WorkerOutput) /\ events # <<>>
  BY DEF TInv, TypeOK, ChannelsTypeOK, ReceiveOutput
<1>2. 1 \in DOMAIN events /\ NextOutput = events[1]
  BY <1>1, TailElements DEF NextOutput
<1>3. NextOutput \in WorkerOutput
  BY <1>1, <1>2
<1>4. NextOutput.list \in Seq(Candidate)
  BY <1>3 DEF WorkerOutput
<1>5. IsCurrent => active # None
  BY <1>2, PipelineTypes DEF IsCurrent
<1>6. QED
  BY <1>2, <1>3, <1>4, <1>5

\* filter_safe_candidates on an answer that was computed for the preedit.
LEMMA FilteredAnswer ==
    ASSUME NEW list \in Seq(Candidate)
    PROVE  /\ SafeOnly(list) \in Seq(Candidate)
           /\ AllSafe(SafeOnly(list))
           /\ \A kana : AllRead(list, kana) => AllRead(SafeOnly(list), kana)
  BY SafeOnlyFilters DEF AllSafe, AllRead

\* and no answer, current or stale: a current one was computed for the preedit.
LEMMA OutputKeepsScreen ==
    ASSUME TInv, ScreenInv, ReadingsMatch, HandleOutput
    PROVE  ScreenInv'
<1>1. host \in HostView /\ items \in Seq(Candidate) /\ AllSafe(<<>>)
  BY DEF TInv, TypeOK, EngineTypeOK, AllSafe
<1>2. CASE DiscardStaleOutput
  <2>1. UNCHANGED <<state, preedit, items, active, focused, history, host, commits, connected>>
    BY <1>2 DEF DiscardStaleOutput, ReceiveOutput, engineVars
  <2>2. AllSafe(items') /\ AllSafe(host'.table) /\ AllSafe(commits')
    BY <2>1 DEF ScreenInv
  <2>3. state' # "Idle" => AllRead(items', preedit')
    BY <2>1 DEF ScreenInv
  <2>4. IdleIsEmpty' /\ EmptyIsQuiet' /\ ConvertingHasPreedit' /\ ShownHasPreedit'
    BY <2>1 DEF ScreenInv, IdleIsEmpty, EmptyIsQuiet, ConvertingHasPreedit, ShownHasPreedit
  <2>5. HostPreeditMirrored' /\ IdleWindowHidden' /\ FocusLostIsQuiet'
    BY <2>1 DEF ScreenInv, HostPreeditMirrored, IdleWindowHidden, FocusLostIsQuiet
  <2>6. QED
    BY <2>2, <2>3, <2>4, <2>5 DEF ScreenInv
<1>3. CASE ApplyCandidates
  <2> DEFINE list == SafeOnly(NextOutput.list)
  <2>1. /\ NextOutput.list \in Seq(Candidate) /\ AllRead(NextOutput.list, preedit)
        /\ active # None
    BY <1>3, NextOutputFacts DEF ApplyCandidates, IsCurrent, ReadingsMatch
  <2>2. list \in Seq(Candidate) /\ AllSafe(list)
    BY <2>1, FilteredAnswer
  <2>3. AllRead(list, preedit)
    BY <2>1, FilteredAnswer
  <2>4. state # "Idle" /\ focused /\ preedit # <<>>
    BY <2>1 DEF ScreenInv, IdleIsEmpty, FocusLostIsQuiet, EmptyIsQuiet
  <2>5. /\ items' = list
        /\ host' = ViewAfterReplace(list) \/ host' = UpdateCandidates(ViewAfterReplace(list), list)
        /\ state' # "Idle"
        /\ UNCHANGED <<preedit, active, focused, history, commits, connected>>
    BY <1>3, <2>4 DEF ApplyCandidates, ReceiveOutput
  <2> HIDE DEF list
  <2>6. /\ ViewAfterReplace(list) \in HostView
        /\ ViewAfterReplace(list).preedit = host.preedit
        /\ ViewAfterReplace(list).table \in {host.table, <<>>}
    <3>1. ClearCandidates(host) \in HostView
      BY <1>1, ViewsTyped
    <3>2. ClearCandidates(host).preedit = host.preedit /\ ClearCandidates(host).table = <<>>
      BY <1>1, ViewFields DEF ClearCandidates
    <3>3. /\ HideCandidateWindow(ClearCandidates(host)) \in HostView
          /\ HideCandidateWindow(ClearCandidates(host)).preedit = host.preedit
          /\ HideCandidateWindow(ClearCandidates(host)).table = <<>>
      BY <3>1, <3>2, ViewFields, ViewsTyped
    <3>4. QED
      BY <1>1, <3>3 DEF ViewAfterReplace
  <2>7. host'.preedit = host.preedit /\ host'.table \in {host.table, <<>>, list}
    BY <2>5, <2>6, ViewFields
  <2>8. AllSafe(items')
    BY <2>2, <2>5
  <2>9. AllSafe(host'.table)
    BY <1>1, <2>2, <2>7 DEF ScreenInv
  <2>10. AllSafe(commits')
    BY <2>5 DEF ScreenInv
  <2>11. AllRead(items', preedit')
    BY <2>3, <2>5
  <2>12. IdleIsEmpty' /\ EmptyIsQuiet' /\ ConvertingHasPreedit' /\ ShownHasPreedit'
    BY <2>4, <2>5 DEF IdleIsEmpty, EmptyIsQuiet, ConvertingHasPreedit, ShownHasPreedit
  <2>13. HostPreeditMirrored' /\ IdleWindowHidden' /\ FocusLostIsQuiet'
    BY <2>4, <2>5, <2>7
    DEF ScreenInv, HostPreeditMirrored, IdleWindowHidden, FocusLostIsQuiet
  <2>14. QED
    BY <2>8, <2>9, <2>10, <2>11, <2>12, <2>13 DEF ScreenInv
<1>4. CASE DegradeToIdle
  <2>1. /\ preedit' = <<>> /\ items' = <<>> /\ active' = None
        /\ host' = ClosedView(host) /\ state' = "Idle" /\ commits' = commits
        /\ UNCHANGED <<focused, history>>
    BY <1>4 DEF DegradeToIdle, ForgetConversion
  <2>2. AllSafe(items')
    BY <1>1, <2>1
  <2>3. AllSafe(commits')
    BY <2>1 DEF ScreenInv
  <2>4. host'.preedit = <<>> /\ host'.table = host.table /\ ~host'.visible
    BY <1>1, <2>1, HandlerViews
  <2>5. ~focused' => history' = <<>>
    BY <2>1 DEF ScreenInv, FocusLostIsQuiet
  <2>6. QED
    BY <2>1, <2>2, <2>3, <2>4, <2>5, AfterEnd
<1>5. QED
  BY <1>2, <1>3, <1>4 DEF HandleOutput

\* So no step does; the worker never touches the screen.
LEMMA ScreenKept ==
    ASSUME TInv, ScreenInv, ReadingsMatch, [Next]_vars
    PROVE  ScreenInv'
<1>1. CASE EngineStep
  BY <1>1, KeysKeepScreen, CallsKeepScreen, OutputKeepsScreen DEF EngineStep, EngineNext
<1>2. CASE WorkerStep \/ UNCHANGED vars
  <2>1. UNCHANGED engineVars /\ (connected' => connected)
    <3>1. CASE WorkerStep
      BY <3>1 DEF WorkerStep, WorkerNext, WorkerReceive, RankReturns, RankFails, TakePush,
                  CloseFirstWindow, CloseSecondWindow, WorkerPanics, WorkerExits, channelVars
    <3>2. CASE UNCHANGED vars
      BY <3>2 DEF vars, channelVars
    <3>3. QED
      BY <1>2, <3>1, <3>2
  <2>2. UNCHANGED <<state, preedit, items, active, focused, history, host, commits>>
    BY <2>1 DEF engineVars
  <2>3. AllSafe(items') /\ AllSafe(host'.table) /\ AllSafe(commits')
    BY <2>2 DEF ScreenInv
  <2>4. state' # "Idle" => AllRead(items', preedit')
    BY <2>2 DEF ScreenInv
  <2>5. IdleIsEmpty' /\ EmptyIsQuiet' /\ ConvertingHasPreedit' /\ ShownHasPreedit'
    BY <2>1, <2>2
    DEF ScreenInv, IdleIsEmpty, EmptyIsQuiet, ConvertingHasPreedit, ShownHasPreedit
  <2>6. HostPreeditMirrored' /\ IdleWindowHidden' /\ FocusLostIsQuiet'
    BY <2>1, <2>2 DEF ScreenInv, HostPreeditMirrored, IdleWindowHidden, FocusLostIsQuiet
  <2>7. QED
    BY <2>3, <2>4, <2>5, <2>6 DEF ScreenInv
<1>3. QED
  BY <1>1, <1>2 DEF Next

-----------------------------------------------------------------------------
(***************************************************************************)
(* The inductive invariant and what follows from it.                       *)
(***************************************************************************)

IInv ==
    /\ TInv
    /\ IdsIssued /\ IdsDistinct /\ ErrorIsLast /\ UnwantedAreCancelled
    /\ ReadingsMatch
    /\ ScreenInv

\* The invariant holds at the start ...
LEMMA InitIInv == Init => IInv
<1> SUFFICES ASSUME Init PROVE IInv
  OBVIOUS
<1>1. TInv
  BY InitTyped
<1>2. /\ requests = <<>> /\ events = <<>> /\ active = 0 /\ seed = 0 /\ ~Working
      /\ phase = "recv" /\ buffer = <<>> /\ second = <<>>
  BY DEF Init, ChannelsInit, EngineInit, WorkerInit, Working, None
<1>3. IdsIssued /\ IdsDistinct
  BY <1>2 DEF IdsIssued, IdsDistinct
<1>4. ErrorIsLast /\ UnwantedAreCancelled
  BY <1>2 DEF ErrorIsLast, UnwantedAreCancelled, PendingIds
<1>5. ReadingsMatch
  BY <1>2 DEF ReadingsMatch
<1>6. /\ state = "Idle" /\ preedit = <<>> /\ active = None /\ history = <<>>
      /\ items = <<>> /\ commits = <<>>
      /\ host.preedit = <<>> /\ host.table = <<>> /\ ~host.visible
  BY DEF Init, EngineInit, EmptyView
<1>7. AllSafe(items) /\ AllSafe(host.table) /\ AllSafe(commits)
  BY <1>6 DEF AllSafe
<1>8. IdleIsEmpty /\ EmptyIsQuiet /\ ConvertingHasPreedit /\ ShownHasPreedit
  BY <1>6 DEF IdleIsEmpty, EmptyIsQuiet, ConvertingHasPreedit, ShownHasPreedit
<1>9. HostPreeditMirrored /\ IdleWindowHidden /\ FocusLostIsQuiet
  BY <1>6 DEF HostPreeditMirrored, IdleWindowHidden, FocusLostIsQuiet
<1>10. ScreenInv
  BY <1>6, <1>7, <1>8, <1>9 DEF ScreenInv
<1>11. QED
  BY <1>1, <1>3, <1>4, <1>5, <1>10 DEF IInv

\* ... and every step keeps it.
LEMMA StepIInv == IInv /\ [Next]_vars => IInv'
<1> SUFFICES ASSUME IInv, [Next]_vars PROVE IInv'
  OBVIOUS
<1>1. TInv'
  BY TypedStep DEF IInv
<1>2. IdsIssued' /\ IdsDistinct'
  BY <1>1, IdsKept DEF IInv
<1>3. ErrorIsLast'
  BY ErrorStaysLast DEF IInv
<1>4. UnwantedAreCancelled'
  BY UnwantedStayCancelled DEF IInv
<1>5. ReadingsMatch'
  BY ReadingsKept DEF IInv
<1>6. ScreenInv'
  BY ScreenKept DEF IInv
<1>7. QED
  BY <1>1, <1>2, <1>3, <1>4, <1>5, <1>6 DEF IInv

\* The inductive invariant of the system.
THEOREM Invariance == Spec => []IInv
<1>1. Init => IInv
  BY InitIInv
<1>2. IInv /\ [Next]_vars => IInv'
  BY StepIInv
<1>3. QED
  BY <1>1, <1>2, PTL DEF Spec

\* An idle engine waits for nothing and holds no text, so a late answer cannot
\* revive a conversion, and the window of the handlers' eager show is gone.
THEOREM IdleHasNothing == Spec => []IdleIsQuiet
<1>1. IInv => IdleIsQuiet
  BY DEF IInv, ScreenInv, IdleIsQuiet, IdleIsEmpty, IdleWindowHidden
<1>2. QED
  BY <1>1, Invariance, PTL

\* No failure and no handler leaves text of a lost conversion on the screen.
THEOREM PreeditIsMirrored == Spec => []HostPreeditMirrored
<1>1. IInv => HostPreeditMirrored
  BY DEF IInv, ScreenInv
<1>2. QED
  BY <1>1, Invariance, PTL

\* Work the engine has stopped waiting for has been told to stop.
THEOREM UnwantedIsCancelled == Spec => []UnwantedAreCancelled
<1>1. IInv => UnwantedAreCancelled
  BY DEF IInv
<1>2. QED
  BY <1>1, Invariance, PTL

\* degrade_to_idle never drops a request that may still be answered.
THEOREM NothingAfterAnError == Spec => []ErrorIsLast
<1>1. IInv => ErrorIsLast
  BY DEF IInv
<1>2. QED
  BY <1>1, Invariance, PTL

\* Without focus there is no conversion, no context and no window.
THEOREM QuietWithoutFocus == Spec => []FocusLostIsQuiet
<1>1. IInv => FocusLostIsQuiet
  BY DEF IInv, ScreenInv
<1>2. QED
  BY <1>1, Invariance, PTL

\* No unsafe surface is shown or committed, whatever the ranker produces.
THEOREM OnlySafeIsShown == Spec => []OnlySafeReachesHost
<1>1. IInv => OnlySafeReachesHost
  BY SafeLists DEF IInv, ScreenInv
<1>2. QED
  BY <1>1, Invariance, PTL

\* The candidates on offer were computed for the preedit they would replace.
THEOREM CandidatesBelong == Spec => []CandidatesMatchPreedit
<1>1. IInv => (state # "Idle" => AllRead(items, preedit))
  BY DEF IInv, ScreenInv
<1>2. IInv => CandidatesMatchPreedit
  BY <1>1 DEF CandidatesMatchPreedit, AllRead, Range
<1>3. QED
  BY <1>2, Invariance, PTL

\* The candidate that Enter takes, and what becomes of it.
LEMMA SelectedBelongs ==
    ASSUME IInv, HandleReturn
    PROVE  /\ highlight + 1 \in DOMAIN items
           /\ Selected \in Candidate /\ Selected.reading = preedit
           /\ Selected.surface \notin UnsafeSurfaces
           /\ commits' = Append(commits, Selected)
<1>1. items \in Seq(Candidate) /\ items # <<>> /\ highlight \in Nat /\ HighlightInRange
      /\ state # "Idle"
  BY DEF IInv, TInv, TypeOK, EngineTypeOK, HandleReturn
<1>2. highlight + 1 \in DOMAIN items
  BY <1>1 DEF HighlightInRange
<1>3. Selected \in Candidate
  BY <1>1, <1>2 DEF Selected
<1>4. Selected.reading = preedit
  BY <1>1, <1>2 DEF IInv, ScreenInv, AllRead, Selected
<1>5. Selected.surface \notin UnsafeSurfaces
  BY <1>2 DEF IInv, ScreenInv, AllSafe, Selected
<1>6. Selected = [reading |-> preedit, surface |-> Selected.surface]
  <2>1. \A c \in Candidate : c = [reading |-> c.reading, surface |-> c.surface]
    BY DEF Candidate
  <2>2. QED
    BY <1>3, <1>4, <2>1
<1>7. commits' = Append(commits, [reading |-> preedit, surface |-> Selected.surface])
  BY <1>5 DEF HandleReturn
<1>8. commits' = Append(commits, Selected)
  BY <1>6, <1>7
<1>9. QED
  BY <1>2, <1>3, <1>4, <1>5, <1>8

\* Only Enter commits, once, the highlighted candidate, for its own reading.
THEOREM CommitIsTheHighlighted == Spec => CommitsTheHighlighted
<1>1. ASSUME IInv, [Next]_vars
      PROVE  commits' # commits =>
               /\ state = "CandidatesShown" /\ state' = "Idle"
               /\ commits' = Append(commits, items[highlight + 1])
               /\ preedit' = <<>> /\ items' = <<>>
  <2>1. commits' # commits => HandleReturn
    BY <1>1
    DEF Next, EngineStep, WorkerStep, EngineNext, HandleKey, HostCall, HandleOutput,
        HandleTyping, HandleBackspace, HandleSpace, NavigateForward, NavigateBack,
        HandleNavigation, HandleEscape, FocusIn, FocusOut, Reset, Enable, Disable,
        EndConversion, DiscardStaleOutput, ApplyCandidates, DegradeToIdle, Dispatch,
        engineVars, vars
  <2>2. HandleReturn => /\ state = "CandidatesShown" /\ state' = "Idle"
                        /\ preedit' = <<>> /\ items' = <<>>
    BY DEF HandleReturn, ForgetConversion
  <2>3. HandleReturn => commits' = Append(commits, items[highlight + 1])
    BY <1>1, SelectedBelongs DEF Selected
  <2>4. QED
    BY <2>1, <2>2, <2>3
<1>2. QED
  BY <1>1, Invariance, PTL DEF Spec, CommitsTheHighlighted

-----------------------------------------------------------------------------
(***************************************************************************)
(* The choice stands: once candidates are shown, every answer that is       *)
(* still on its way begins with them.  A second answer to a Commit request  *)
(* extends the first, so the list grows at its end only and the engine      *)
(* never finds itself in CandidatesShown with an empty list.               *)
(***************************************************************************)

\* A list that continues another one.
Extends(longer, list) == \E more \in Seq(Candidate) : longer = list \o more

\* Of two answers to a request the later one extends the earlier one, and the
\* worker still holds what it has offered.
AnswersGrow ==
    /\ \A i \in DOMAIN events :
         Working /\ events[i].id = job.id /\ events[i].payload = "Candidates"
           => phase = "second" /\ events[i].list = buffer
    /\ \A i, j \in DOMAIN events :
         /\ i < j /\ events[i].id = events[j].id
         /\ events[i].payload = "Candidates" /\ events[j].payload = "Candidates"
         => Extends(events[j].list, events[i].list)

\* While candidates are shown, whatever may still come for their request offers
\* them too, in the same places.
ChoiceStands ==
    state = "CandidatesShown" =>
        /\ active # None /\ items # <<>>
        /\ \A i \in DOMAIN requests : requests[i].id # active
        /\ Working /\ job.id = active
             => phase = "second" /\ IsPrefix(items, SafeOnly(buffer))
        /\ \A i \in DOMAIN events :
             events[i].id = active /\ events[i].payload = "Candidates"
               => IsPrefix(items, SafeOnly(events[i].list))

\* A list begins with itself, and with whatever its beginnings begin with.
LEMMA PrefixOrder ==
    ASSUME NEW s \in Seq(Candidate), NEW t \in Seq(Candidate), NEW u \in Seq(Candidate)
    PROVE  /\ IsPrefix(s, s)
           /\ IsPrefix(s, t) /\ IsPrefix(t, u) => IsPrefix(s, u)
           /\ IsPrefix(s, t) /\ s # <<>> => t # <<>>
<1>1. Len(s) \in Nat /\ Len(t) \in Nat /\ Len(u) \in Nat
  OBVIOUS
<1>2. IsPrefix(s, s)
  BY <1>1 DEF IsPrefix
<1>3. ASSUME IsPrefix(s, t), IsPrefix(t, u) PROVE IsPrefix(s, u)
  <2>1. /\ Len(s) <= Len(t) /\ SubSeq(s, 1, Len(s)) = SubSeq(t, 1, Len(s))
        /\ Len(t) <= Len(u) /\ SubSeq(t, 1, Len(t)) = SubSeq(u, 1, Len(t))
    BY <1>3 DEF IsPrefix
  <2>2. \A i \in 1..Len(t) : t[i] = u[i]
    <3>1. ASSUME NEW i \in 1..Len(t) PROVE t[i] = u[i]
      <4>1. SubSeq(t, 1, Len(t))[i] = t[i] /\ SubSeq(u, 1, Len(t))[i] = u[i]
        BY <1>1, <2>1
      <4>2. QED
        BY <2>1, <4>1
    <3>2. QED
      BY <3>1
  <2>3. SubSeq(t, 1, Len(s)) = SubSeq(u, 1, Len(s))
    BY <1>1, <2>1, <2>2
  <2>4. QED
    BY <1>1, <2>1, <2>3 DEF IsPrefix
<1>4. ASSUME IsPrefix(s, t), s # <<>> PROVE t # <<>>
  BY <1>1, <1>4, EmptySeq DEF IsPrefix
<1>5. QED
  BY <1>2, <1>3, <1>4

\* The worker adds the second window to the first and never takes back.
LEMMA AnswersKeepGrowing ==
    ASSUME IInv, [Next]_vars, AnswersGrow
    PROVE  AnswersGrow'
<1> USE PipelineTypes
<1>0. TInv /\ IdsDistinct
  BY DEF IInv
<1>1. CASE EngineStep
  <2>1. /\ UNCHANGED workerVars
        /\ \/ UNCHANGED events
           \/ events # <<>> /\ events' = Tail(events)
    BY <1>0, <1>1, EngineEffects
    DEF Dispatch, Ends, LooksOn, Receives, ReceiveOutput, channelVars
  <2>2. UNCHANGED <<phase, job, buffer, Working>>
    BY <2>1 DEF workerVars, Working
  <2>3. CASE UNCHANGED events
    BY <2>2, <2>3 DEF AnswersGrow
  <2>4. CASE events # <<>> /\ events' = Tail(events)
    <3>1. \A i \in DOMAIN events' : i \in Nat /\ i + 1 \in DOMAIN events
                                    /\ events'[i] = events[i + 1]
      BY <1>0, <2>4, TailElements
    <3>2. \A i \in DOMAIN events' :
            Working' /\ events'[i].id = job'.id /\ events'[i].payload = "Candidates"
              => phase' = "second" /\ events'[i].list = buffer'
      BY <2>2, <3>1 DEF AnswersGrow
    <3>3. ASSUME NEW i \in DOMAIN events', NEW j \in DOMAIN events', i < j,
                 events'[i].id = events'[j].id,
                 events'[i].payload = "Candidates", events'[j].payload = "Candidates"
          PROVE  Extends(events'[j].list, events'[i].list)
      <4>1. /\ i + 1 \in DOMAIN events /\ j + 1 \in DOMAIN events /\ i + 1 < j + 1
            /\ events'[i] = events[i + 1] /\ events'[j] = events[j + 1]
        BY <3>1, <3>3
      <4>2. Extends(events[j + 1].list, events[i + 1].list)
        BY <3>3, <4>1 DEF AnswersGrow
      <4>3. QED
        BY <4>1, <4>2
    <3>4. QED
      BY <3>2, <3>3 DEF AnswersGrow
  <2>5. QED
    BY <2>1, <2>3, <2>4
<1>2. CASE WorkerStep
  <2>1. WorkerReceive \/ Collects \/ Offers \/ Finishes \/ Leaves
    BY <1>0, <1>2, WorkerEffects
  <2>2. CASE WorkerReceive
    <3>1. /\ requests # <<>> /\ job' = Head(requests) /\ UNCHANGED events
      BY <2>2 DEF WorkerReceive
    <3>2. 1 \in DOMAIN requests /\ job' = requests[1]
      BY <1>0, <3>1, TailElements
    <3>3. \A i \in DOMAIN events : events[i].id # job'.id
      BY <1>0, <3>2 DEF IdsDistinct
    <3>4. QED
      BY <3>1, <3>3 DEF AnswersGrow
  <2>3. CASE Collects
    <3>1. /\ Working /\ UNCHANGED <<job, events>>
          /\ phase = "second" => phase' = "second" /\ buffer' = buffer
      BY <2>3 DEF Collects
    <3>2. QED
      BY <3>1 DEF AnswersGrow
  <2>4. CASE Offers \/ Finishes
    <3>1. Working /\ buffer \in Seq(Candidate) /\ second \in Seq(Candidate)
      BY <1>0, <2>4 DEF Offers, Finishes, Working, TInv, TypeOK, WorkerTypeOK
    <3>2. Working' => phase = "first" /\ phase' = "second" /\ UNCHANGED <<job, buffer>>
      BY <2>4 DEF Offers, Finishes
    <3>3. \A i \in DOMAIN events' :
             \/ i \in DOMAIN events /\ i \in Nat /\ i <= Len(events) /\ events'[i] = events[i]
             \/ /\ i = Len(events) + 1 /\ i \in Nat
                /\ events'[i].id = job.id
                /\ \/ Finishes /\ events'[i].payload = "Error"
                   \/ phase = "first" /\ events'[i].list = buffer
                   \/ phase = "second" /\ events'[i].list = buffer \o second
      BY <1>0, <2>4, ReportEffects DEF CandidatesEvent, ErrorEvent
    <3>4. phase = "first" => \A i \in DOMAIN events : events[i].id # job.id
      BY <1>0 DEF IdsDistinct
    <3>5. ASSUME NEW i \in DOMAIN events', Working', events'[i].id = job'.id,
                 events'[i].payload = "Candidates"
          PROVE  phase' = "second" /\ events'[i].list = buffer'
      BY <3>2, <3>3, <3>4, <3>5 DEF Finishes
    <3>6. ASSUME NEW i \in DOMAIN events', NEW j \in DOMAIN events', i < j,
                 events'[i].id = events'[j].id,
                 events'[i].payload = "Candidates", events'[j].payload = "Candidates"
          PROVE  Extends(events'[j].list, events'[i].list)
      <4>1. i \in DOMAIN events /\ events'[i] = events[i]
        BY <3>3, <3>6
      <4>2. CASE j \in DOMAIN events /\ events'[j] = events[j]
        <5>1. Extends(events[j].list, events[i].list)
          BY <3>6, <4>1, <4>2 DEF AnswersGrow
        <5>2. QED
          BY <4>1, <4>2, <5>1
      <4>3. CASE events'[j].id = job.id /\ phase = "second" /\ events'[j].list = buffer \o second
        <5>1. events[i].list = buffer
          BY <3>1, <3>6, <4>1, <4>3 DEF AnswersGrow
        <5>2. Extends(buffer \o second, buffer)
          BY <3>1 DEF Extends
        <5>3. QED
          BY <4>1, <4>3, <5>1, <5>2
      <4>4. CASE events'[j].id = job.id /\ phase = "first"
        BY <3>4, <3>6, <4>1, <4>4
      <4>5. QED
        BY <3>3, <3>6, <4>2, <4>3, <4>4
    <3>7. QED
      BY <3>5, <3>6 DEF AnswersGrow
  <2>5. CASE Leaves
    <3>1. ~Working' /\ UNCHANGED events
      BY <2>5 DEF Leaves
    <3>2. QED
      BY <3>1 DEF AnswersGrow
  <2>6. QED
    BY <2>1, <2>2, <2>3, <2>4, <2>5
<1>3. CASE UNCHANGED vars
  <2>1. UNCHANGED <<events, phase, job, buffer, Working>>
    BY <1>3 DEF vars, channelVars, workerVars, Working
  <2>2. QED
    BY <2>1 DEF AnswersGrow
<1>4. QED
  BY <1>1, <1>2, <1>3 DEF Next

\* The answer that opens the choice vouches for those behind it.
LEMMA ChoiceKept ==
    ASSUME IInv, [Next]_vars, AnswersGrow, ChoiceStands
    PROVE  ChoiceStands'
<1> USE PipelineTypes
<1>0. TInv /\ IdsDistinct
  BY DEF IInv
<1>1. CASE EngineStep
  <2>1. UNCHANGED <<phase, job, buffer, Working>>
    BY <1>1 DEF EngineStep, workerVars, Working
  <2>2. CASE DiscardStaleOutput /\ state = "CandidatesShown"
    <3>1. /\ UNCHANGED <<requests, state, active, items>>
          /\ events # <<>> /\ events' = Tail(events)
      BY <2>2 DEF DiscardStaleOutput, ReceiveOutput, engineVars
    <3>2. \A i \in DOMAIN events' : i + 1 \in DOMAIN events /\ events'[i] = events[i + 1]
      BY <1>0, <3>1, TailElements
    <3>3. QED
      BY <2>1, <2>2, <3>1, <3>2 DEF ChoiceStands
  <2>3. CASE ApplyCandidates
    <3>1. /\ ReceiveOutput /\ NextOutput.id = active /\ NextOutput.payload = "Candidates"
          /\ items' = SafeOnly(NextOutput.list)
          /\ UNCHANGED <<active, requests>>
      BY <2>3 DEF ApplyCandidates, IsCurrent, ReceiveOutput
    <3>2. /\ 1 \in DOMAIN events /\ NextOutput = events[1]
          /\ NextOutput.list \in Seq(Candidate) /\ active # None
      BY <1>0, <3>1, NextOutputFacts DEF IsCurrent
    <3>3. IsPrefix(items', SafeOnly(events[1].list))
      <4>1. SafeOnly(NextOutput.list) \in Seq(Candidate)
        BY <3>2, SafeOnlyFilters
      <4>2. IsPrefix(SafeOnly(NextOutput.list), SafeOnly(NextOutput.list))
        BY <4>1, PrefixOrder
      <4>3. QED
        BY <3>1, <3>2, <4>2
    <3>4. /\ events[1].id = active /\ events[1].payload = "Candidates"
          /\ events # <<>> /\ events' = Tail(events)
      BY <3>1, <3>2 DEF ReceiveOutput
    <3>5. \A i \in DOMAIN events' : /\ i \in Nat /\ i > 0 /\ i + 1 \in DOMAIN events
                                    /\ events'[i] = events[i + 1]
      BY <1>0, <3>4, TailElements
    <3>6. \A i \in DOMAIN requests : requests[i].id # active
      BY <1>0, <3>2, <3>4 DEF IdsDistinct
    <3>7. Working /\ job.id = active => phase = "second" /\ buffer = events[1].list
      BY <3>2, <3>4 DEF AnswersGrow
    <3>8. ASSUME NEW i \in DOMAIN events', events'[i].id = active,
                 events'[i].payload = "Candidates"
          PROVE  IsPrefix(items', SafeOnly(events'[i].list))
      <4>1. i + 1 \in DOMAIN events /\ 1 < i + 1 /\ events'[i] = events[i + 1]
        BY <3>5
      <4>2. events[1].id = events[i + 1].id /\ events[i + 1].payload = "Candidates"
        BY <3>4, <3>8, <4>1
      <4>3. Extends(events[i + 1].list, NextOutput.list)
        BY <3>2, <3>4, <4>1, <4>2 DEF AnswersGrow
      <4>4. PICK more \in Seq(Candidate) : events[i + 1].list = NextOutput.list \o more
        BY <4>3 DEF Extends
      <4>5. IsPrefix(SafeOnly(NextOutput.list), SafeOnly(NextOutput.list \o more))
        BY <3>2, SafeOnlyGrows
      <4>6. QED
        BY <3>1, <4>1, <4>4, <4>5
    <3>9. Working' /\ job'.id = active'
            => phase' = "second" /\ IsPrefix(items', SafeOnly(buffer'))
      <4>1. ASSUME Working', job'.id = active'
            PROVE  phase' = "second" /\ buffer' = events[1].list
        BY <2>1, <3>1, <3>7, <4>1
      <4>2. QED
        BY <3>3, <4>1
    <3>10. ASSUME state' = "CandidatesShown" PROVE items' # <<>>
      <4>1. CASE state = "CandidatesShown"
        <5>1. items # <<>> /\ IsPrefix(items, items')
          BY <3>1, <3>2, <4>1 DEF ChoiceStands
        <5>2. items \in Seq(Candidate) /\ items' \in Seq(Candidate)
          BY <1>0, <3>1, <3>2, SafeOnlyFilters DEF TInv, TypeOK, EngineTypeOK
        <5>3. QED
          BY <5>1, <5>2, PrefixOrder
      <4>2. CASE state # "CandidatesShown"
        BY <2>3, <3>10, <4>2 DEF ApplyCandidates
      <4>3. QED
        BY <4>1, <4>2
    <3>11. QED
      BY <3>1, <3>2, <3>6, <3>8, <3>9, <3>10 DEF ChoiceStands
  <2>4. CASE LooksOn /\ UNCHANGED <<state, items>>
    BY <2>1, <2>4 DEF ChoiceStands, LooksOn, channelVars
  <2>5. CASE state' # "CandidatesShown"
    BY <2>5 DEF ChoiceStands
  <2>6. QED
    <3>1. HandleKey => state' # "CandidatesShown" \/ (LooksOn /\ UNCHANGED <<state, items>>)
      BY DEF HandleKey, HandleTyping, HandleBackspace, HandleSpace, NavigateForward,
             NavigateBack, HandleNavigation, HandleReturn, HandleEscape, LooksOn
    <3>2. HostCall => state' # "CandidatesShown" \/ (LooksOn /\ UNCHANGED <<state, items>>)
      BY DEF HostCall, FocusIn, FocusOut, Reset, Enable, Disable, EndConversion, LooksOn
    <3>3. HandleOutput =>
            \/ state' # "CandidatesShown"
            \/ DiscardStaleOutput /\ state = "CandidatesShown"
            \/ ApplyCandidates
      BY DEF HandleOutput, DiscardStaleOutput, ApplyCandidates, DegradeToIdle, engineVars
    <3>4. QED
      BY <1>1, <2>2, <2>3, <2>4, <2>5, <3>1, <3>2, <3>3 DEF EngineStep, EngineNext
<1>2. CASE WorkerStep
  <2>1. /\ UNCHANGED <<state, active, items>>
        /\ WorkerReceive \/ Collects \/ Offers \/ Finishes \/ Leaves
    BY <1>0, <1>2, WorkerEffects DEF engineVars
  <2> SUFFICES ASSUME state = "CandidatesShown"
               PROVE  /\ active # None
                      /\ items # <<>>
                      /\ \A i \in DOMAIN requests' : requests'[i].id # active
                      /\ Working' /\ job'.id = active
                           => phase' = "second" /\ IsPrefix(items, SafeOnly(buffer'))
                      /\ \A i \in DOMAIN events' :
                           events'[i].id = active /\ events'[i].payload = "Candidates"
                             => IsPrefix(items, SafeOnly(events'[i].list))
    BY <2>1 DEF ChoiceStands
  <2>2. /\ active # None /\ items # <<>>
        /\ \A i \in DOMAIN requests : requests[i].id # active
        /\ \A i \in DOMAIN events :
             events[i].id = active /\ events[i].payload = "Candidates"
               => IsPrefix(items, SafeOnly(events[i].list))
    BY DEF ChoiceStands
  <2>3. Working /\ job.id = active
          => phase = "second" /\ IsPrefix(items, SafeOnly(buffer))
    BY DEF ChoiceStands
  <2>4. CASE WorkerReceive
    <3>1. requests # <<>> /\ job' = Head(requests) /\ requests' = Tail(requests)
          /\ UNCHANGED events
      BY <2>4 DEF WorkerReceive
    <3>2. /\ 1 \in DOMAIN requests /\ job' = requests[1]
          /\ \A i \in DOMAIN requests' : i + 1 \in DOMAIN requests
                                         /\ requests'[i] = requests[i + 1]
      BY <1>0, <3>1, TailElements
    <3>3. job'.id # active /\ (\A i \in DOMAIN requests' : requests'[i].id # active)
      BY <2>2, <3>2
    <3>4. QED
      BY <2>2, <3>1, <3>3
  <2>5. CASE Collects
    <3>1. /\ Working /\ UNCHANGED <<job, requests, events>>
          /\ phase = "second" => phase' = "second" /\ buffer' = buffer
      BY <2>5 DEF Collects
    <3>2. Working' /\ job'.id = active
            => phase' = "second" /\ IsPrefix(items, SafeOnly(buffer'))
      <4>1. ASSUME Working', job'.id = active
            PROVE  phase' = "second" /\ buffer' = buffer
        BY <2>3, <3>1, <4>1
      <4>2. ASSUME Working', job'.id = active PROVE IsPrefix(items, SafeOnly(buffer))
        BY <2>3, <3>1, <4>2
      <4>3. QED
        BY <4>1, <4>2
    <3>3. QED
      BY <2>2, <3>1, <3>2
  <2>6. CASE Offers \/ Finishes
    <3>1. /\ Working /\ UNCHANGED requests
          /\ buffer \in Seq(Candidate) /\ second \in Seq(Candidate)
          /\ Working' => phase = "first" /\ job' = job
      BY <1>0, <2>6 DEF Offers, Finishes, Working, TInv, TypeOK, WorkerTypeOK
    <3>2. phase = "first" => job.id # active
      BY <2>3, <3>1
    <3>3. \A i \in DOMAIN events' :
             \/ i \in DOMAIN events /\ events'[i] = events[i]
             \/ /\ events'[i].id = job.id
                /\ \/ events'[i].payload = "Error"
                   \/ phase = "first"
                   \/ phase = "second" /\ events'[i].list = buffer \o second
      BY <1>0, <2>6, ReportEffects DEF CandidatesEvent, ErrorEvent
    <3>4. ASSUME NEW i \in DOMAIN events', events'[i].id = active,
                 events'[i].payload = "Candidates"
          PROVE  IsPrefix(items, SafeOnly(events'[i].list))
      <4>1. CASE i \in DOMAIN events /\ events'[i] = events[i]
        <5>1. IsPrefix(items, SafeOnly(events[i].list))
          BY <2>2, <3>4, <4>1
        <5>2. QED
          BY <4>1, <5>1
      <4>2. CASE /\ events'[i].id = job.id /\ phase = "second"
                 /\ events'[i].list = buffer \o second
        <5>1. IsPrefix(items, SafeOnly(buffer))
          BY <2>3, <3>1, <3>4, <4>2
        <5>2. IsPrefix(SafeOnly(buffer), SafeOnly(buffer \o second))
          BY <3>1, SafeOnlyGrows
        <5>3. /\ items \in Seq(Candidate) /\ SafeOnly(buffer) \in Seq(Candidate)
              /\ SafeOnly(buffer \o second) \in Seq(Candidate)
          <6>1. items \in Seq(Candidate) /\ buffer \o second \in Seq(Candidate)
            BY <1>0, <3>1, ConcatProperties DEF TInv, TypeOK, EngineTypeOK
          <6>2. QED
            BY <3>1, <6>1, SafeOnlyFilters
        <5>4. IsPrefix(items, SafeOnly(buffer \o second))
          BY <5>1, <5>2, <5>3, PrefixOrder
        <5>5. QED
          BY <4>2, <5>4
      <4>3. QED
        BY <3>2, <3>3, <3>4, <4>1, <4>2
    <3>5. Working' => job'.id # active
      BY <3>1, <3>2
    <3>6. QED
      BY <2>2, <3>1, <3>4, <3>5
  <2>7. CASE Leaves
    <3>1. ~Working' /\ requests' = <<>> /\ UNCHANGED events
      BY <2>7 DEF Leaves
    <3>2. QED
      BY <2>2, <3>1
  <2>8. QED
    BY <2>1, <2>4, <2>5, <2>6, <2>7
<1>3. CASE UNCHANGED vars
  <2>1. UNCHANGED <<state, active, items, requests, events, phase, job, buffer, Working>>
    BY <1>3 DEF vars, channelVars, workerVars, engineVars, Working
  <2>2. QED
    BY <2>1 DEF ChoiceStands
<1>4. QED
  BY <1>1, <1>2, <1>3 DEF Next

\* An engine that shows candidates keeps them whatever answer comes.
THEOREM ChoiceInvariance == Spec => [](AnswersGrow /\ ChoiceStands)
<1>1. Init => AnswersGrow /\ ChoiceStands
  BY DEF Init, ChannelsInit, EngineInit, AnswersGrow, ChoiceStands
<1>2. IInv /\ AnswersGrow /\ ChoiceStands /\ [Next]_vars => (AnswersGrow /\ ChoiceStands)'
  BY AnswersKeepGrowing, ChoiceKept
<1>3. QED
  BY <1>1, <1>2, Invariance, PTL DEF Spec

\* The answer of the second window leaves every candidate the user can see in
\* the engine's list at its place (apply_candidate_update in CandidatesShown).
THEOREM OffersGrow == Spec => OffersOnlyGrow
<1>1. IInv /\ ChoiceStands /\ [Next]_vars
        => [state = "CandidatesShown" /\ state' = "CandidatesShown"
              => IsPrefix(items, items')]_vars
  <2> SUFFICES ASSUME IInv, ChoiceStands, [Next]_vars,
                      state = "CandidatesShown", state' = "CandidatesShown"
               PROVE  IsPrefix(items, items')
    OBVIOUS
  <2>1. TInv /\ items \in Seq(Candidate)
    BY DEF IInv, TInv, TypeOK, EngineTypeOK
  <2>2. ASSUME items' = items PROVE IsPrefix(items, items')
    BY <2>1, <2>2, PrefixOrder
  <2>3. CASE ApplyCandidates
    <3>1. /\ ReceiveOutput /\ NextOutput.id = active /\ NextOutput.payload = "Candidates"
          /\ items' = SafeOnly(NextOutput.list)
      BY <2>3 DEF ApplyCandidates, IsCurrent
    <3>2. 1 \in DOMAIN events /\ NextOutput = events[1]
      BY <2>1, <3>1, NextOutputFacts
    <3>3. QED
      BY <3>1, <3>2 DEF ChoiceStands
  <2>4. CASE HandleKey
    BY <2>2, <2>4
    DEF HandleKey, HandleTyping, HandleBackspace, HandleSpace, NavigateForward,
        NavigateBack, HandleNavigation, HandleReturn, HandleEscape
  <2>5. CASE HostCall
    BY <2>2, <2>5 DEF HostCall, FocusIn, FocusOut, Reset, Enable, Disable, EndConversion
  <2>6. CASE DiscardStaleOutput \/ DegradeToIdle
    BY <2>2, <2>6 DEF DiscardStaleOutput, DegradeToIdle, engineVars
  <2>7. CASE WorkerStep \/ UNCHANGED vars
    BY <2>2, <2>7 DEF WorkerStep, vars, engineVars
  <2>8. QED
    BY <2>3, <2>4, <2>5, <2>6, <2>7 DEF Next, EngineStep, EngineNext, HandleOutput
<1>2. QED
  BY <1>1, Invariance, ChoiceInvariance, PTL DEF Spec, OffersOnlyGrow

-----------------------------------------------------------------------------
(***************************************************************************)
(* The pick is on the screen.  The screen holds the beginning of the list   *)
(* the engine chooses from, and all of it once the highlight has moved: a   *)
(* navigation sends the whole list again, and a second answer, which is not *)
(* drawn, puts the highlight back on the first row.                        *)
(***************************************************************************)

ShownInv ==
    state = "CandidatesShown" =>
        /\ host.table # <<>>
        /\ IsPrefix(host.table, items)
        /\ highlight = 0 \/ host.table = items

\* The rows after each of the bridge's calls.
LEMMA TableRows ==
    ASSUME NEW view \in HostView, NEW list \in Seq(Candidate)
    PROVE  UpdateCandidates(view, list).table = list
  BY DEF UpdateCandidates, HostView

\* Drawing, navigation and the second window keep the screen in step.
LEMMA StaysOnScreen ==
    ASSUME IInv, ChoiceStands, ShownInv, [Next]_vars
    PROVE  ShownInv'
<1> SUFFICES ASSUME state' = "CandidatesShown"
             PROVE  (/\ host.table # <<>>
                     /\ IsPrefix(host.table, items)
                     /\ highlight = 0 \/ host.table = items)'
  BY DEF ShownInv
<1>1. /\ TInv /\ items \in Seq(Candidate) /\ host \in HostView
      /\ host.table \in Seq(Candidate)
  BY DEF IInv, TInv, TypeOK, EngineTypeOK, HostView
<1>2. CASE UNCHANGED <<state, items, highlight, host>>
  BY <1>2 DEF ShownInv
<1>3. CASE ApplyCandidates
  <2> DEFINE list == SafeOnly(NextOutput.list)
  <2>1. ReceiveOutput /\ IsCurrent /\ NextOutput.payload = "Candidates"
        /\ items' = list /\ highlight' = 0
    BY <1>3 DEF ApplyCandidates
  <2>2. /\ 1 \in DOMAIN events /\ NextOutput = events[1]
        /\ list \in Seq(Candidate)
    BY <1>1, <2>1, NextOutputFacts, SafeOnlyFilters
  <2>3. CASE state = "CandidatesShown"
    <3>1. IsPrefix(items, list) /\ items # <<>>
      BY <2>1, <2>2, <2>3 DEF ChoiceStands, IsCurrent
    <3>2. list # <<>>
      BY <1>1, <2>2, <3>1, PrefixOrder
    <3>3. host' = host
      BY <1>3, <2>3, <3>2 DEF ApplyCandidates, ViewAfterReplace
    <3>4. host.table # <<>> /\ IsPrefix(host.table, items)
      BY <2>3 DEF ShownInv
    <3>5. IsPrefix(host.table, list)
      BY <1>1, <2>2, <3>1, <3>4, PrefixOrder
    <3>6. QED
      BY <2>1, <3>3, <3>4, <3>5
  <2>4. CASE state # "CandidatesShown"
    <3>1. list # <<>> /\ host' = UpdateCandidates(ViewAfterReplace(list), list)
      BY <1>3, <2>4 DEF ApplyCandidates
    <3>2. ViewAfterReplace(list) = host
      BY <3>1 DEF ViewAfterReplace
    <3>3. host'.table = list
      BY <1>1, <2>2, <3>1, <3>2, TableRows
    <3>4. IsPrefix(list, list)
      BY <2>2, PrefixOrder
    <3>5. QED
      BY <2>1, <3>1, <3>3, <3>4
  <2>5. QED
    BY <2>3, <2>4
<1>4. CASE NavigateForward \/ NavigateBack
  <2>1. items # <<>> /\ items' = items /\ host' = UpdateCandidates(host, items)
    BY <1>4 DEF NavigateForward, NavigateBack, HandleNavigation
  <2>2. host'.table = items
    BY <1>1, <2>1, TableRows
  <2>3. IsPrefix(items, items)
    BY <1>1, PrefixOrder
  <2>4. QED
    BY <2>1, <2>2, <2>3
<1>5. CASE HandleKey
  BY <1>2, <1>4, <1>5
  DEF HandleKey, HandleTyping, HandleBackspace, HandleSpace, HandleReturn, HandleEscape
<1>6. CASE HostCall
  BY <1>2, <1>6 DEF HostCall, FocusIn, FocusOut, Reset, Enable, Disable, EndConversion
<1>7. CASE DiscardStaleOutput \/ DegradeToIdle
  BY <1>2, <1>7 DEF DiscardStaleOutput, DegradeToIdle, engineVars
<1>8. CASE WorkerStep \/ UNCHANGED vars
  BY <1>2, <1>8 DEF WorkerStep, vars, engineVars
<1>9. QED
  BY <1>3, <1>5, <1>6, <1>7, <1>8 DEF Next, EngineStep, EngineNext, HandleOutput

\* A row of a list is the row of whatever the list begins.
LEMMA PrefixRows ==
    ASSUME NEW s \in Seq(Candidate), NEW t \in Seq(Candidate), IsPrefix(s, t), s # <<>>
    PROVE  1 \in DOMAIN s /\ 1 \in DOMAIN t /\ s[1] = t[1]
<1>1. Len(s) \in Nat \ {0} /\ Len(t) \in Nat /\ Len(s) <= Len(t)
  BY EmptySeq DEF IsPrefix
<1>2. SubSeq(s, 1, Len(s)) = SubSeq(t, 1, Len(s))
  BY <1>1 DEF IsPrefix
<1>3. SubSeq(s, 1, Len(s))[1] = s[1] /\ SubSeq(t, 1, Len(s))[1] = t[1]
  BY <1>1
<1>4. QED
  BY <1>1, <1>2, <1>3

\* handle_return never reads past the last candidate, and what it takes is a
\* row of the table that was drawn.
THEOREM OnlyShownIsPicked == Spec => []PickIsOnScreen
<1>1. Init => ShownInv
  BY DEF Init, EngineInit, ShownInv
<1>2. IInv /\ ChoiceStands /\ ShownInv /\ [Next]_vars => ShownInv'
  BY StaysOnScreen
<1>3. IInv /\ ChoiceStands /\ ShownInv => PickIsOnScreen
  <2> SUFFICES ASSUME IInv, ChoiceStands, ShownInv PROVE PickIsOnScreen
    OBVIOUS
  <2>1. /\ HighlightInRange /\ highlight \in Nat /\ items \in Seq(Candidate)
        /\ host.table \in Seq(Candidate)
    BY DEF IInv, TInv, TypeOK, EngineTypeOK, HostView
  <2>2. ASSUME state = "CandidatesShown"
        PROVE  /\ highlight + 1 \in DOMAIN items \cap DOMAIN host.table
               /\ items[highlight + 1] = host.table[highlight + 1]
    <3>1. /\ items # <<>> /\ host.table # <<>> /\ IsPrefix(host.table, items)
          /\ highlight = 0 \/ host.table = items
      BY <2>2 DEF ChoiceStands, ShownInv
    <3>2. CASE highlight = 0
      <4>1. /\ 1 \in DOMAIN host.table /\ 1 \in DOMAIN items
            /\ host.table[1] = items[1]
        BY <2>1, <3>1, PrefixRows
      <4>2. highlight + 1 = 1
        BY <3>2
      <4>3. QED
        BY <4>1, <4>2
    <3>3. CASE host.table = items
      BY <2>1, <3>1, <3>3 DEF HighlightInRange
    <3>4. QED
      BY <3>1, <3>2, <3>3
  <2>3. QED
    BY <2>1, <2>2 DEF PickIsOnScreen
<1>4. QED
  BY <1>1, <1>2, <1>3, Invariance, ChoiceInvariance, PTL DEF Spec

-----------------------------------------------------------------------------
(***************************************************************************)
(* The engine implements ConversionSession.                                *)
(***************************************************************************)

\* A safe list for kana holds candidates that a session may offer for kana.
LEMMA OfferedSafe ==
    ASSUME NEW list \in Seq(Candidate), NEW kana, AllSafe(list), AllRead(list, kana)
    PROVE  Range(list) \subseteq Session!CandidatesOf(kana)
<1>1. ASSUME NEW i \in DOMAIN list PROVE list[i] \in Session!CandidatesOf(kana)
  <2>1. /\ list[i] \in Candidate /\ list[i].reading = kana
        /\ list[i].surface \in Surfaces \ UnsafeSurfaces
    <3>1. list[i] \in Candidate
      OBVIOUS
    <3>2. list[i].reading = kana /\ list[i].surface \notin UnsafeSurfaces
      BY DEF AllSafe, AllRead
    <3>3. list[i].surface \in Surfaces
      BY <3>1 DEF Candidate
    <3>4. QED
      BY <3>1, <3>2, <3>3
  <2>2. \A c \in Candidate : c = [reading |-> c.reading, surface |-> c.surface]
    BY DEF Candidate
  <2>3. QED
    BY <2>1, <2>2 DEF Session!CandidatesOf
<1>2. QED
  BY <1>1 DEF Range

\* A handler that asks the worker composes, asks or, without a worker, gives up.
LEMMA DispatchComposes ==
    ASSUME TInv, NEW mode \in Modes, NEW kana \in KanaString, Dispatch(mode, kana)
    PROVE  /\ Offered' = {} /\ commits' = commits
           /\ connected => preedit' = kana
           /\ ~connected => preedit' = <<>>
<1>1. items' = <<>> /\ commits' = commits
  BY DispatchTyped
<1>2. Offered' = {}
  BY <1>1 DEF Offered, Range
<1>3. (connected => preedit' = kana) /\ (~connected => preedit' = <<>>)
  BY DEF Dispatch, ForgetConversion
<1>4. QED
  BY <1>1, <1>2, <1>3

\* Each handler takes a step of the session, or none.
LEMMA EngineImplements ==
    ASSUME IInv, ChoiceStands, EngineStep
    PROVE  Session!Next \/ UNCHANGED Session!sessionVars
<1>0. /\ TInv /\ ScreenInv /\ preedit \in KanaString /\ items \in Seq(Candidate)
      /\ <<>> \in KanaString /\ "Live" \in Modes /\ "Commit" \in Modes
  BY DEF IInv, TInv, TypeOK, EngineTypeOK, KanaString, Modes
<1>1. ASSUME preedit' = <<>>, Offered' = {}, commits' = commits,
             state' \in {"Idle", "LiveConverting"}
      PROVE  Session!Next
  BY <1>1 DEF Session!Next, Session!Abandon
<1>2. ASSUME NEW stroke \in Strokes, HandleTyping(stroke) PROVE Session!Next
  <2> DEFINE kana == preedit \o stroke
  <2>1. kana \in KanaString
    <3>1. stroke \in Seq(Kana) /\ preedit \in Seq(Kana)
      BY StrokesAssumption, <1>0 DEF KanaString
    <3>2. QED
      BY <3>1, ConcatProperties DEF KanaString
  <2>2. kana = <<>> => preedit = <<>>
    <3>1. stroke \in Seq(Kana) /\ preedit \in Seq(Kana)
      BY StrokesAssumption, <1>0 DEF KanaString
    <3>2. QED
      BY <3>1, ConcatEmptySeq
  <2>3. CASE Dispatch("Live", kana) /\ state' = IF connected THEN "LiveConverting" ELSE "Idle"
    <3>1. /\ Offered' = {} /\ commits' = commits
          /\ (connected => preedit' = kana) /\ (~connected => preedit' = <<>>)
      BY <1>0, <2>1, <2>3, DispatchComposes
    <3>2. CASE connected
      <4>1. \E s \in Strokes : preedit' = preedit \o s
        BY <3>1, <3>2
      <4>2. QED
        BY <2>3, <3>1, <3>2, <4>1 DEF Session!Next, Session!Compose
    <3>3. CASE ~connected
      BY <1>1, <2>3, <3>1, <3>3
    <3>4. QED
      BY <3>2, <3>3
  <2>4. CASE kana = <<>> /\ state' = "Idle" /\ UNCHANGED <<preedit, commits>>
    <3>1. preedit' = <<>> /\ Offered' = {}
      BY <2>2, <2>4 DEF Offered
    <3>2. QED
      BY <1>1, <2>4, <3>1
  <2>5. QED
    BY <1>2, <2>3, <2>4 DEF HandleTyping
<1>3. CASE HandleBackspace
  <2> DEFINE kana == IF preedit = <<>> THEN <<>> ELSE SubSeq(preedit, 1, Len(preedit) - 1)
  <2>1. kana \in KanaString
    <3>1. CASE preedit # <<>>
      <4>1. preedit \in Seq(Kana) /\ Len(preedit) \in Nat \ {0}
        BY <1>0, <3>1, EmptySeq DEF KanaString
      <4>2. Len(preedit) - 1 \in 0..Len(preedit) /\ 1 \in 1..(Len(preedit) + 1)
        BY <4>1
      <4>3. SubSeq(preedit, 1, Len(preedit) - 1) \in Seq(Kana)
        BY <4>1, <4>2, SubSeqProperties
      <4>4. QED
        BY <3>1, <4>3 DEF KanaString
    <3>2. QED
      BY <3>1, <1>0
  <2>2. kana # <<>> => preedit # <<>> /\ kana = SubSeq(preedit, 1, Len(preedit) - 1)
    OBVIOUS
  <2> HIDE DEF kana
  <2>3. CASE kana # <<>> /\ Dispatch("Live", kana) /\ state' = "LiveConverting"
    <3>1. /\ Offered' = {} /\ commits' = commits
          /\ (connected => preedit' = kana) /\ (~connected => preedit' = <<>>)
      BY <1>0, <2>1, <2>3, DispatchComposes
    <3>2. CASE connected
      BY <2>2, <2>3, <3>1, <3>2 DEF Session!Next, Session!Compose
    <3>3. CASE ~connected
      BY <1>1, <2>3, <3>1, <3>3
    <3>4. QED
      BY <3>2, <3>3
  <2>4. CASE kana = <<>> /\ preedit' = <<>> /\ state' = "Idle" /\ UNCHANGED commits
    BY <1>1, <2>4 DEF Offered
  <2>5. QED
    BY <1>3, <2>3, <2>4 DEF HandleBackspace, kana
<1>4. CASE HandleSpace
  <2>1. /\ Dispatch("Commit", preedit)
        /\ state \in {"LiveConverting", "CommitConverting"}
        /\ state' = IF connected THEN "CommitConverting" ELSE "Idle"
    BY <1>4 DEF HandleSpace
  <2>2. /\ Offered' = {} /\ commits' = commits
        /\ (connected => preedit' = preedit) /\ (~connected => preedit' = <<>>)
    BY <1>0, <2>1, DispatchComposes
  <2>3. CASE connected
    BY <2>1, <2>2, <2>3 DEF Session!Next, Session!Ask
  <2>4. CASE ~connected
    BY <1>1, <2>1, <2>2, <2>4
  <2>5. QED
    BY <2>3, <2>4
<1>5. CASE NavigateForward \/ NavigateBack
  <2>1. UNCHANGED <<state, preedit, items, commits>>
    BY <1>5 DEF NavigateForward, NavigateBack, HandleNavigation
  <2>2. QED
    BY <2>1 DEF Session!sessionVars, Offered
<1>6. CASE HandleReturn
  <2>1. /\ highlight + 1 \in DOMAIN items
        /\ commits' = Append(commits, Selected)
    BY <1>6, SelectedBelongs
  <2>2. state = "CandidatesShown" /\ state' = "Idle" /\ preedit' = <<>>
    BY <1>6 DEF HandleReturn, ForgetConversion
  <2>3. Selected \in Offered /\ Offered' = {}
    BY <2>1, <2>2 DEF Selected, Offered, Range
  <2>4. QED
    BY <2>1, <2>2, <2>3 DEF Session!Next, Session!Choose
<1>7. CASE HandleEscape
  <2>1. CASE ForgetConversion /\ state' = "Idle" /\ UNCHANGED commits
    BY <1>1, <2>1 DEF ForgetConversion, Offered
  <2>2. CASE Dispatch("Live", preedit) /\ state' = "LiveConverting"
    <3>1. /\ Offered' = {} /\ commits' = commits
          /\ (connected => preedit' = preedit) /\ (~connected => preedit' = <<>>)
      BY <1>0, <2>2, DispatchComposes
    <3>2. CASE connected
      BY <2>2, <3>1, <3>2 DEF Session!Next, Session!Compose
    <3>3. CASE ~connected
      BY <1>1, <2>2, <3>1, <3>3
    <3>4. QED
      BY <3>2, <3>3
  <2>3. QED
    BY <1>7, <2>1, <2>2 DEF HandleEscape
<1>8. CASE HostCall
  <2>1. CASE FocusIn \/ Enable
    BY <2>1 DEF FocusIn, Enable, Session!sessionVars, Offered
  <2>2. CASE EndConversion
    BY <1>1, <2>2 DEF EndConversion, ForgetConversion, Offered
  <2>3. QED
    BY <1>8, <2>1, <2>2 DEF HostCall, FocusOut, Reset, Disable
<1>9. CASE DiscardStaleOutput
  BY <1>9 DEF DiscardStaleOutput, engineVars, Session!sessionVars, Offered
<1>10. CASE ApplyCandidates
  <2> DEFINE list == SafeOnly(NextOutput.list)
  <2>1. /\ NextOutput.list \in Seq(Candidate) /\ AllRead(NextOutput.list, preedit)
        /\ active # None /\ 1 \in DOMAIN events /\ NextOutput = events[1]
        /\ NextOutput.id = active /\ NextOutput.payload = "Candidates"
    BY <1>0, <1>10, NextOutputFacts DEF ApplyCandidates, IsCurrent, IInv, ReadingsMatch
  <2>2. list \in Seq(Candidate) /\ AllSafe(list) /\ AllRead(list, preedit)
    BY <2>1, FilteredAnswer
  <2>3. Range(list) \subseteq Session!CandidatesOf(preedit)
    BY <2>2, OfferedSafe
  <2>4. list = <<>> <=> Range(list) = {}
    <3>1. list # <<>> => 1 \in DOMAIN list
      BY <2>2, EmptySeq
    <3>2. list # <<>> => list[1] \in Range(list)
      BY <3>1 DEF Range
    <3>3. list = <<>> => Range(list) = {}
      BY DEF Range
    <3>4. QED
      BY <3>2, <3>3
  <2>5. state # "Idle"
    BY <1>0, <2>1 DEF ScreenInv, IdleIsEmpty
  <2>6. state = "CandidatesShown" => list # <<>>
    <3>1. state = "CandidatesShown" => items # <<>> /\ IsPrefix(items, list)
      BY <2>1 DEF ChoiceStands
    <3> HIDE DEF list
    <3>2. QED
      BY <1>0, <2>2, <3>1, PrefixOrder
  <2>7. /\ items' = list /\ preedit' = preedit /\ commits' = commits
        /\ state' = IF list # <<>> /\ state = "CommitConverting"
                    THEN "CandidatesShown" ELSE state
    BY <1>10 DEF ApplyCandidates
  <2> HIDE DEF list
  <2>8. Offered' = Range(list)
    BY <2>5, <2>7 DEF Offered, Range
  <2>9. QED
    BY <2>3, <2>4, <2>5, <2>6, <2>7, <2>8 DEF Session!Next, Session!Offer
<1>11. CASE DegradeToIdle
  BY <1>1, <1>11 DEF DegradeToIdle, ForgetConversion, Offered
<1>12. QED
  BY <1>2, <1>3, <1>4, <1>5, <1>6, <1>7, <1>8, <1>9, <1>10, <1>11
  DEF EngineStep, EngineNext, HandleKey, HandleOutput

\* Every behaviour of the engine and its worker is one of a ConversionSession.
THEOREM EngineKeepsItsPromises == Spec => SessionSpec
<1>1. Init => Session!Init
  BY DEF Init, EngineInit, Session!Init, Offered
<1>2. IInv /\ ChoiceStands /\ [Next]_vars => [Session!Next]_Session!sessionVars
  <2> SUFFICES ASSUME IInv, ChoiceStands, [Next]_vars
               PROVE  Session!Next \/ UNCHANGED Session!sessionVars
    OBVIOUS
  <2>1. CASE EngineStep
    BY <2>1, EngineImplements
  <2>2. CASE WorkerStep \/ UNCHANGED vars
    BY <2>2 DEF WorkerStep, vars, engineVars, Session!sessionVars, Offered
  <2>3. QED
    BY <2>1, <2>2 DEF Next
<1>3. QED
  BY <1>1, <1>2, Invariance, ChoiceInvariance, PTL DEF Spec, SessionSpec, Session!Spec

-----------------------------------------------------------------------------
(***************************************************************************)
(* The engine's side of the port.  RankerPort knows the engine by the       *)
(* number of requests it has issued, so what the engine still waits for has *)
(* to be the last of them.                                                  *)
(***************************************************************************)

ActiveIsLast == active \in {None, seed}

PreeditFits == preedit \in Preedits

\* What fits is what is short.
LEMMA ShortTextFits ==
    \A s \in KanaString : s \in Preedits <=> Len(s) <= MaxPreedit
<1> SUFFICES ASSUME NEW s \in Seq(Kana) PROVE s \in Preedits <=> Len(s) <= MaxPreedit
  BY DEF KanaString
<1>1. Len(s) \in Nat /\ s \in [1..Len(s) -> Kana]
  OBVIOUS
<1>2. ASSUME Len(s) <= MaxPreedit PROVE s \in Preedits
  <2>1. Len(s) \in 0..MaxPreedit
    BY <1>1, <1>2, PreeditBound
  <2>2. QED
    BY <1>1, <2>1 DEF Preedits
<1>3. ASSUME s \in Preedits PROVE Len(s) <= MaxPreedit
  <2>1. PICK n \in 0..MaxPreedit : s \in [1..n -> Kana]
    BY <1>3 DEF Preedits
  <2>2. DOMAIN s = 1..n /\ DOMAIN s = 1..Len(s)
    BY <1>1, <2>1
  <2>3. n \in Nat /\ n <= MaxPreedit
    BY <2>1, PreeditBound
  <2>4. Len(s) # 0 => Len(s) \in 1..n
    BY <1>1, <2>2
  <2>5. QED
    BY <1>1, <2>3, <2>4, PreeditBound
<1>4. QED
  BY <1>2, <1>3

\* Only typing makes the preedit longer, and it looks at the bound.
LEMMA PreeditKeepsFitting ==
    ASSUME TInv, PreeditFits, [Next]_vars
    PROVE  PreeditFits'
<1>1. preedit \in KanaString /\ Len(preedit) <= MaxPreedit
  BY ShortTextFits DEF PreeditFits, TInv, TypeOK, EngineTypeOK
<1>2. <<>> \in Preedits
  <2>1. <<>> \in KanaString /\ Len(<<>>) = 0
    BY DEF KanaString
  <2>2. QED
    BY <2>1, ShortTextFits, PreeditBound
<1>3. ASSUME NEW mode, NEW kana, Dispatch(mode, kana) PROVE preedit' \in {kana, <<>>}
  BY <1>3 DEF Dispatch, ForgetConversion
<1>4. ASSUME NEW stroke \in Strokes, HandleTyping(stroke) PROVE PreeditFits'
  <2>1. stroke \in Seq(Kana) /\ preedit \in Seq(Kana)
    BY <1>1, StrokesAssumption DEF KanaString
  <2>2. preedit \o stroke \in KanaString
    BY <2>1, ConcatProperties DEF KanaString
  <2>3. Len(preedit \o stroke) <= MaxPreedit
    BY <1>4 DEF HandleTyping
  <2>4. preedit \o stroke \in Preedits
    BY <2>2, <2>3, ShortTextFits
  <2>5. preedit' \in {preedit \o stroke, <<>>, preedit}
    BY <1>3, <1>4 DEF HandleTyping
  <2>6. QED
    BY <1>2, <2>4, <2>5 DEF PreeditFits
<1>5. ASSUME HandleBackspace PROVE PreeditFits'
  <2>1. CASE preedit = <<>>
    BY <1>2, <1>3, <1>5, <2>1 DEF HandleBackspace, PreeditFits
  <2>2. CASE preedit # <<>>
    <3> DEFINE kana == SubSeq(preedit, 1, Len(preedit) - 1)
    <3>1. preedit \in Seq(Kana) /\ Len(preedit) \in Nat \ {0}
      BY <1>1, <2>2, EmptySeq DEF KanaString
    <3>2. Len(preedit) - 1 \in 0..Len(preedit) /\ 1 \in 1..(Len(preedit) + 1)
      BY <3>1
    <3>3. kana \in KanaString /\ Len(kana) <= Len(preedit)
      <4>1. /\ kana \in Seq(Kana)
            /\ Len(kana) = IF 1 <= Len(preedit) - 1 THEN (Len(preedit) - 1) - 1 + 1 ELSE 0
        BY <3>1, <3>2, SubSeqProperties
      <4> HIDE DEF kana
      <4>2. QED
        BY <3>1, <4>1 DEF KanaString
    <3>4. preedit' \in {kana, <<>>}
      BY <1>3, <1>5, <2>2 DEF HandleBackspace
    <3> HIDE DEF kana
    <3>5. kana \in Preedits
      BY <1>1, <3>1, <3>3, ShortTextFits, PreeditBound
    <3>6. QED
      BY <1>2, <3>4, <3>5 DEF PreeditFits
  <2>3. QED
    BY <2>1, <2>2
<1>6. HandleSpace \/ HandleEscape => preedit' \in {preedit, <<>>}
  BY <1>3 DEF HandleSpace, HandleEscape, ForgetConversion
<1>7. NavigateForward \/ NavigateBack \/ HandleReturn => preedit' \in {preedit, <<>>}
  BY DEF NavigateForward, NavigateBack, HandleNavigation, HandleReturn, ForgetConversion
<1>8. HostCall \/ HandleOutput => preedit' \in {preedit, <<>>}
  BY DEF HostCall, FocusIn, FocusOut, Reset, Enable, Disable, EndConversion, ForgetConversion,
         HandleOutput, DiscardStaleOutput, ApplyCandidates, DegradeToIdle, engineVars
<1>9. WorkerStep \/ UNCHANGED vars => preedit' = preedit
  BY DEF WorkerStep, vars, engineVars
<1>10. QED
  BY <1>2, <1>4, <1>5, <1>6, <1>7, <1>8, <1>9
  DEF Next, EngineStep, EngineNext, HandleKey, PreeditFits

\* A new request is the last one and the active one, or there is none.
LEMMA ActiveStaysLast ==
    ASSUME TInv, ActiveIsLast, [Next]_vars
    PROVE  ActiveIsLast'
<1>1. CASE EngineStep
  <2>1. \/ \E mode \in Modes : \E kana \in KanaString : Dispatch(mode, kana)
        \/ Ends
        \/ LooksOn
        \/ Receives
    BY <1>1, EngineEffects
  <2>2. ASSUME NEW mode \in Modes, NEW kana \in KanaString, Dispatch(mode, kana)
        PROVE  active' \in {None, seed'}
    BY <2>2, DispatchEffects
  <2>3. Ends \/ LooksOn \/ Receives => active' \in {None, active} /\ seed' = seed
    BY DEF Ends, LooksOn, Receives
  <2>4. QED
    BY <2>1, <2>2, <2>3 DEF ActiveIsLast
<1>2. CASE WorkerStep \/ UNCHANGED vars
  BY <1>2 DEF WorkerStep, vars, engineVars, ActiveIsLast
<1>3. QED
  BY <1>1, <1>2 DEF Next

\* A dispatch is a request sent with the last one told to stop, unless the worker
\* is done with that one, or a request that nobody receives.
LEMMA DispatchIsSent ==
    ASSUME IInv, ActiveIsLast, PreeditFits', UNCHANGED workerVars,
           NEW mode \in Modes, NEW kana \in KanaString, Dispatch(mode, kana)
    PROVE  Port!SendRequest \/ Port!SendFails
<1>1. seed \in Nat /\ None = 0
  BY PipelineTypes DEF IInv
<1>2. UNCHANGED Port!workerVars
  BY DEF workerVars, Port!workerVars
<1>3. seed < MaxRequests /\ seed' = seed + 1 /\ UNCHANGED <<connected, events>>
  BY DEF Dispatch
<1>4. CASE connected
  <2>1. kana \in Preedits
    BY <1>4 DEF Dispatch, PreeditFits
  <2>2. /\ requests' = Append(requests, [id |-> seed + 1, kana |-> kana, mode |-> mode])
        /\ cancelled' = cancelled \cup ({active} \ {None})
    BY <1>4 DEF Dispatch, CancelActive
  <2>3. \/ seed # 0 /\ cancelled' = cancelled \cup {seed}
        \/ seed \notin PendingIds /\ UNCHANGED cancelled
    <3>1. CASE active = seed /\ seed # None
      BY <1>1, <2>2, <3>1
    <3>2. CASE active = None /\ seed \in cancelled /\ seed # 0
      BY <2>2, <3>2
    <3>3. CASE active = None /\ (seed \notin cancelled \/ seed = 0)
      <4>1. \A id \in PendingIds : id # 0
        BY PipelineTypes DEF IInv, PendingIds
      <4>2. seed \notin PendingIds
        BY <1>1, <3>3, <4>1 DEF IInv, UnwantedAreCancelled, IsCancelled
      <4>3. QED
        BY <2>2, <3>3, <4>2
    <3>4. QED
      BY <3>1, <3>2, <3>3 DEF ActiveIsLast
  <2>4. PendingIds = Port!PendingIds /\ mode \in Port!Modes
    BY DEF PendingIds, Port!PendingIds, Working, Port!Working, Modes, Port!Modes
  <2>5. QED
    BY <1>2, <1>3, <1>4, <2>1, <2>2, <2>3, <2>4 DEF Port!SendRequest
<1>5. CASE ~connected
  <2>1. UNCHANGED requests /\ cancelled' = cancelled \cup ({active} \ {None}) \cup {seed + 1}
    BY <1>5 DEF Dispatch, CancelActive
  <2>2. ({active} \ {None}) \in SUBSET ({seed} \ {Port!None})
    BY DEF ActiveIsLast, Port!None, None
  <2>3. QED
    BY <1>2, <1>3, <1>5, <2>1, <2>2 DEF Port!SendFails
<1>6. QED
  BY <1>4, <1>5

\* The other steps of the engine fire a token, take an event, or do not concern
\* the worker.
LEMMA EngineKeepsSide ==
    ASSUME IInv, ActiveIsLast, PreeditFits', EngineStep
    PROVE  Port!EngineSide \/ UNCHANGED Port!portVars
<1>1. /\ UNCHANGED workerVars
      /\ \/ \E mode \in Modes : \E kana \in KanaString : Dispatch(mode, kana)
         \/ Ends
         \/ LooksOn
         \/ Receives
  BY EngineEffects DEF IInv
<1>2. UNCHANGED Port!workerVars
  BY <1>1 DEF workerVars, Port!workerVars
<1>3. ASSUME NEW mode \in Modes, NEW kana \in KanaString, Dispatch(mode, kana)
      PROVE  Port!EngineSide
  BY <1>1, <1>3, DispatchIsSent DEF Port!EngineSide
<1>4. CASE Ends
  <2>1. cancelled' = cancelled \cup ({active} \ {0}) /\ UNCHANGED <<seed, connected, requests, events>>
    BY <1>4 DEF Ends, CancelActive, None
  <2>2. CASE active # 0 /\ active \notin cancelled
    <3>1. seed = active
      BY <2>2 DEF ActiveIsLast, None
    <3>2. cancelled' = cancelled \cup {seed}
      BY <2>1, <2>2, <3>1
    <3>3. QED
      BY <1>2, <2>1, <2>2, <3>1, <3>2 DEF Port!EngineSide, Port!FireToken
  <2>3. CASE active = 0 \/ active \in cancelled
    <3>1. cancelled' = cancelled
      BY <2>1, <2>3
    <3>2. QED
      BY <1>2, <2>1, <3>1 DEF Port!portVars, Port!channelVars
  <2>4. QED
    BY <2>2, <2>3
<1>5. CASE LooksOn
  BY <1>2, <1>5 DEF LooksOn, channelVars, Port!portVars, Port!channelVars
<1>6. CASE Receives
  BY <1>2, <1>6 DEF Receives, ReceiveOutput, Port!EngineSide, Port!TakeEvent
<1>7. QED
  BY <1>1, <1>3, <1>4, <1>5, <1>6

\* The worker is the same in both.
LEMMA SameWorker == WorkerStep => Port!WorkerNext /\ UNCHANGED seed
<1>1. WorkerStep => WorkerNext /\ UNCHANGED seed
  BY DEF WorkerStep, engineVars
<1>2. DropJob => Port!DropJob
  BY DEF DropJob, Port!DropJob, NoJob, Port!NoJob, None, Port!None
<1>3. Finish => Port!Finish
  BY <1>2 DEF Finish, Port!Finish
<1>4. channelVars = Port!channelVars /\ (Working <=> Port!Working)
      /\ (\A id : IsCancelled(id) <=> Port!IsCancelled(id))
  BY DEF channelVars, Port!channelVars, Working, Port!Working, IsCancelled, Port!IsCancelled
<1>5. /\ \A id : ErrorEvent(id) = Port!ErrorEvent(id)
      /\ \A id, list : CandidatesEvent(id, list) = Port!CandidatesEvent(id, list)
  BY DEF ErrorEvent, Port!ErrorEvent, CandidatesEvent, Port!CandidatesEvent
<1>6. WorkerReceive => Port!WorkerReceive
  BY DEF WorkerReceive, Port!WorkerReceive
<1>7. RankReturns => Port!RankReturns
  BY DEF RankReturns, Port!RankReturns, channelVars, Port!channelVars
<1>8. RankFails => Port!RankFails
  BY <1>3, <1>5 DEF RankFails, Port!RankFails
<1>9. TakePush => Port!TakePush
  <2>1. \A list, from, to : WithoutRange(list, from, to) = Port!WithoutRange(list, from, to)
    BY DEF WithoutRange, Port!WithoutRange
  <2>2. \A list, update : Applied(list, update) = Port!Applied(list, update)
    BY <2>1 DEF Applied, Port!Applied
  <2>3. \A kana, rows : CandidatesFor(kana, rows) = Port!CandidatesFor(kana, rows)
    BY DEF CandidatesFor, Port!CandidatesFor
  <2>4. QED
    BY <1>4, <2>2, <2>3 DEF TakePush, Port!TakePush, channelVars, Port!channelVars
<1>10. CloseFirstWindow => Port!CloseFirstWindow
  BY <1>3, <1>4, <1>5 DEF CloseFirstWindow, Port!CloseFirstWindow
<1>11. CloseSecondWindow => Port!CloseSecondWindow
  BY <1>3, <1>4, <1>5 DEF CloseSecondWindow, Port!CloseSecondWindow
<1>12. WorkerPanics => Port!WorkerPanics
  BY <1>2, <1>4, <1>5 DEF WorkerPanics, Port!WorkerPanics
<1>13. WorkerExits => Port!WorkerExits
  BY DEF WorkerExits, Port!WorkerExits
<1>14. QED
  BY <1>1, <1>6, <1>7, <1>8, <1>9, <1>10, <1>11, <1>12, <1>13 DEF WorkerNext, Port!WorkerNext

\* Towards its worker the engine is the one of RankerPort, whatever the user
\* types and whenever the worker is lost: the hybrid ranker, which is shown to
\* keep its promises with that engine, keeps them with this one.
THEOREM EngineKeepsItsSide == Spec => KeepsItsSide
<1>1. Init => Port!PortInit /\ ActiveIsLast /\ PreeditFits
  <2> SUFFICES ASSUME Init PROVE Port!PortInit /\ ActiveIsLast /\ PreeditFits
    OBVIOUS
  <2>1. seed = 0 /\ active = None /\ preedit = <<>> /\ None = 0
    BY DEF Init, EngineInit, None
  <2>2. Port!ChannelsInit /\ Port!WorkerInit
    BY DEF Init, ChannelsInit, WorkerInit, NoJob, None,
           Port!ChannelsInit, Port!WorkerInit, Port!NoJob, Port!None
  <2>3. <<>> \in KanaString /\ Len(<<>>) = 0
    BY DEF KanaString
  <2>4. <<>> \in Preedits
    BY <2>3, ShortTextFits, PreeditBound
  <2>5. QED
    BY <2>1, <2>2, <2>4 DEF Port!PortInit, ActiveIsLast, PreeditFits
<1>2. IInv /\ ActiveIsLast /\ PreeditFits /\ [Next]_vars => ActiveIsLast' /\ PreeditFits'
  BY ActiveStaysLast, PreeditKeepsFitting DEF IInv
<1>3. IInv /\ ActiveIsLast /\ PreeditFits' /\ [Next]_vars => [Port!PortNext]_Port!portVars
  <2> SUFFICES ASSUME IInv, ActiveIsLast, PreeditFits', [Next]_vars
               PROVE  Port!PortNext \/ UNCHANGED Port!portVars
    OBVIOUS
  <2>1. CASE EngineStep
    BY <2>1, EngineKeepsSide DEF Port!PortNext
  <2>2. CASE WorkerStep
    BY <2>2, SameWorker DEF Port!PortNext
  <2>3. CASE UNCHANGED vars
    BY <2>3 DEF vars, engineVars, channelVars, workerVars,
                Port!portVars, Port!channelVars, Port!workerVars
  <2>4. QED
    BY <2>1, <2>2, <2>3 DEF Next
<1>4. Spec => [](ActiveIsLast /\ PreeditFits)
  BY <1>1, <1>2, Invariance, PTL DEF Spec
<1>5. QED
  BY <1>1, <1>3, <1>4, Invariance, PTL DEF Spec, KeepsItsSide, Port!PortSpec

=============================================================================
