------------------------- MODULE ConversionSystem -------------------------
(***************************************************************************)
(* The engine and its ranker worker, joined by the channels they share: the *)
(* calls of the host, the deliveries of the engine loop and the steps of    *)
(* the worker thread interleave in any order.                              *)
(***************************************************************************)
EXTENDS KotohaEngine, RankerWorker, SequencesExt

vars == <<engineVars, channelVars, workerVars>>

Init ==
    /\ ChannelsInit
    /\ EngineInit
    /\ WorkerInit

EngineStep == EngineNext /\ UNCHANGED workerVars

WorkerStep == WorkerNext /\ UNCHANGED engineVars

Next == EngineStep \/ WorkerStep

Spec == Init /\ [][Next]_vars

\* The user and the host owe nothing.  The worker's thread runs, and the loop
\* comes back to its channel: an event that waits is received in the end.
FairSpec ==
    /\ Spec
    /\ WorkerFairness
    /\ WF_vars(HandleOutput /\ UNCHANGED workerVars)

-----------------------------------------------------------------------------

\* The types of engine, channels and worker; the breaker stops at its limit.
TypeOK ==
    /\ ChannelsTypeOK
    /\ EngineTypeOK
    /\ WorkerTypeOK

-----------------------------------------------------------------------------
(***************************************************************************)
(* Invariants.                                                             *)
(***************************************************************************)

\* In Idle there is no preedit and no active request, whatever was in flight
\* when the engine went there: an answer still on its way finds nothing to
\* apply itself to (EngineState::Idle, and section 5.3 of the spec).  As long as
\* the worker lives the candidate window is hidden too (section 5.1): the eager
\* show of the handlers comes with a state that an answer or a key leaves again.
IdleIsQuiet ==
    state = "Idle" => /\ preedit = <<>> /\ active = None
                      /\ connected => ~host.visible

\* The application shows exactly the preedit the engine holds: no handler, and
\* no failure of the worker, leaves an orphaned preedit on the screen.
HostPreeditMirrored == host.preedit = preedit

\* Whatever the worker has still to do and the engine no longer waits for has
\* been told to stop.  Both ways a request ends without its token being fired
\* (degrade_to_idle, and the failed send) rest on the worker being done with it.
UnwantedAreCancelled == \A id \in PendingIds : id = active \/ IsCancelled(id)

\* The candidates of a conversion were computed for its preedit, so what
\* record_choice learns is a reading with a surface of that reading.  (A
\* backspace over the last kana leaves the old candidates behind in Idle.)
CandidatesMatchPreedit ==
    state # "Idle" => \A c \in Range(items) : c.reading = preedit

\* The highlight is inside the list, whatever navigation and later answers do.
HighlightInRange == IF items = <<>> THEN highlight = 0 ELSE highlight < Len(items)

\* handle_return indexes the candidates with the highlight and panics if it is
\* out of range.  What it picks is, moreover, a row of the table on the screen:
\* the screen may lack rows that the second window has added (ShownIsHeld), but
\* none of them is committed unseen.
PickIsOnScreen ==
    /\ HighlightInRange
    /\ state = "CandidatesShown" =>
         /\ highlight + 1 \in DOMAIN items \cap DOMAIN host.table
         /\ items[highlight + 1] = host.table[highlight + 1]

\* No surface with a control, escape or bidi character reaches the application
\* or the lookup table, whatever the ranker produced.  (In particular the
\* debug_assert of handle_return never fails.)
OnlySafeReachesHost ==
    \A c \in Range(items) \cup Range(host.table) \cup Range(commits) :
        c.surface \notin UnsafeSurfaces

\* Without focus the engine is at rest: the conversion and the text typed in
\* another application are gone, and no late answer brings them back.
FocusLostIsQuiet ==
    ~focused => /\ state = "Idle"
                /\ history = <<>>
                /\ ~host.visible

\* An error is the last answer to a request: when degrade_to_idle gives up an
\* active request, nothing more will come for it.
ErrorIsLast ==
    \A i \in DOMAIN events :
        events[i].payload = "Error" =>
            /\ events[i].id \notin PendingIds
            /\ \A j \in DOMAIN events : j > i => events[j].id # events[i].id

-----------------------------------------------------------------------------
(***************************************************************************)
(* What a step may do.                                                     *)
(***************************************************************************)

\* While the user is choosing, the list changes only by growing at its end:
\* the results of the second window never take away or move a candidate.
OffersOnlyGrow ==
    [][state = "CandidatesShown" /\ state' = "CandidatesShown"
         => IsPrefix(items, items')]_vars

\* A commit hands over the highlighted candidate with the preedit it was
\* computed for, and ends the conversion: one Enter cannot commit twice.
CommitsTheHighlighted ==
    [][commits' # commits =>
         /\ state = "CandidatesShown" /\ state' = "Idle"
         /\ commits' = Append(commits, items[highlight + 1])
         /\ preedit' = <<>> /\ items' = <<>>]_vars

\* The candidates left behind in Idle are on offer to nobody.
Offered == IF state = "Idle" THEN {} ELSE Range(items)

\* The engine keeps the promises of a ConversionSession.
Session == INSTANCE ConversionSession WITH
    SafeSurfaces <- Surfaces \ UnsafeSurfaces,
    phase <- state,
    text <- preedit,
    offered <- Offered,
    committed <- commits

\* Every step of engine and worker is one of the session, or none.
SessionSpec == Session!Spec

\* What a preedit can be.
Preedits == UNION {[1..n -> Kana] : n \in 0..MaxPreedit}

\* The engine is one that RankerPort gives the ranker worker.
Port == INSTANCE RankerPort WITH Readings <- Preedits, issued <- seed

\* Towards its worker the engine does nothing but what RankerPort says: what a
\* ranker is shown to keep there, it keeps with this engine.
KeepsItsSide == Port!PortSpec

-----------------------------------------------------------------------------
(***************************************************************************)
(* What must happen in the end, under FairSpec.                            *)
(***************************************************************************)

\* A request of which the engine has had no answer yet and still wants one.
AwaitsAnswer(id) ==
    /\ id = active
    /\ \/ \E i \in DOMAIN requests : requests[i].id = id
       \/ phase \in {"rank", "first"} /\ job.id = id

\* A request the engine waits for is answered, even if the ranker finds nothing
\* or stays silent: an answer reaches the head of the event channel, unless the
\* engine gives the request up or the worker thread ends.
ActiveIsAnswered ==
    \A id \in RequestIds :
        AwaitsAnswer(id)
            ~> \/ id # active
               \/ events # <<>> /\ NextOutput.id = id
               \/ phase = "exited"

\* Every request leaves the worker, the cancelled ones too: no sequence of
\* keys and cancellations makes the worker hang on one.
RequestsAreFinished ==
    \A id \in RequestIds : id \in PendingIds ~> id \notin PendingIds

-----------------------------------------------------------------------------
(***************************************************************************)
(* What comments and documents of the repository say and the code does not *)
(* do.  Each is refuted by a run of its own.                               *)
(***************************************************************************)

\* After the worker is lost the engine is Idle and disabled, and stays so.
DisabledIsIdle == ~enabled => state = "Idle"

\* Candidates of an earlier preedit are never on display.
NoStaleCandidates ==
    host.visible => \A c \in Range(host.table) : c.reading = preedit

\* An answer is drawn as soon as it is applied.
ShownIsHeld == state = "CandidatesShown" => host.table = items

\* No surface occurs twice among the candidates.
NoDuplicateSurfaces ==
    \A i, j \in DOMAIN items : items[i].surface = items[j].surface => i = j

=============================================================================
