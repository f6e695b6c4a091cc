--------------------------- MODULE RankerWorker ---------------------------
(***************************************************************************)
(* The kotoha-ranker-worker thread.  It takes one request at a time, calls  *)
(* Ranker::rank and collects what the ranker pushes into a sink during a    *)
(* coalescing window: one window for a Live request, two for a Commit one.  *)
(*                                                                         *)
(* rank() only starts the work, so pushes arrive at any time during the     *)
(* windows, or never; a window may close at any time (its deadline passes,  *)
(* or the ranker drops the sink).  A panic of the ranker or of the worker's *)
(* own code is caught and reported; PanicLimit of them in a row make the    *)
(* thread leave its loop and drop its receiver.  The exit on a dropped      *)
(* event receiver belongs to the shutdown of the process and is not        *)
(* modelled here.                                                          *)
(***************************************************************************)
EXTENDS EngineChannels

CONSTANTS
    Pushes,      \* the updates a ranker can push, with surfaces as rows
    MaxPushes,   \* bound: pushes received for one request
    PanicLimit   \* MAX_CONSECUTIVE_PANICS, 5 in the code

ASSUME PushAssumption ==
    \A push \in Pushes : /\ push.kind \in {"Replace", "Append", "Remove", "Clear"}
                         /\ push.rows \in Seq(Surfaces)
                         /\ push.from \in Nat
                         /\ push.to \in Nat

ASSUME LimitAssumption == PanicLimit \in Nat \ {0}

ASSUME MaxPushesAssumption == MaxPushes \in Nat

VARIABLES
    phase,    \* where the thread is
    job,      \* the request being handled
    buffer,   \* what the first window collected
    second,   \* what the second window collected
    pushes,   \* updates received for the job
    panics    \* consecutive_panics

workerVars == <<phase, job, buffer, second, pushes, panics>>

Working == phase \in {"rank", "first", "second"}

NoJob == [id |-> None, kana |-> <<>>, mode |-> "Live"]

WorkerTypeOK ==
    /\ phase \in {"recv", "rank", "first", "second", "leaving", "exited"}
    /\ IF Working THEN job \in RankRequest ELSE job = NoJob
    /\ buffer \in Seq(Candidate)
    /\ second \in Seq(Candidate)
    /\ pushes \in 0..MaxPushes
    /\ panics \in 0..PanicLimit

\* Ids of the requests the worker still has work to do for.
PendingIds == {requests[i].id : i \in DOMAIN requests} \cup
              (IF Working THEN {job.id} ELSE {})

WorkerInit ==
    /\ phase = "recv"
    /\ job = NoJob
    /\ buffer = <<>>
    /\ second = <<>>
    /\ pushes = 0
    /\ panics = 0

-----------------------------------------------------------------------------

\* The locals of handle_one_request are dropped when it returns.
DropJob ==
    /\ job' = NoJob
    /\ buffer' = <<>>
    /\ second' = <<>>
    /\ pushes' = 0

\* IterationOutcome::Clean.
Finish ==
    /\ DropJob
    /\ phase' = "recv"
    /\ panics' = 0

WorkerReceive ==
    /\ phase = "recv"
    /\ requests # <<>>
    /\ job' = Head(requests)
    /\ requests' = Tail(requests)
    /\ phase' = "rank"
    /\ UNCHANGED <<buffer, second, pushes, panics, connected, events, cancelled>>

RankReturns ==
    /\ phase = "rank"
    /\ phase' = "first"
    /\ UNCHANGED <<job, buffer, second, pushes, panics, channelVars>>

\* Mutant: the early return after the report is missing.
RankFailsAndGoesOn ==
    /\ phase = "rank"
    /\ events' = Append(events, ErrorEvent(job.id))
    /\ phase' = "first"
    /\ UNCHANGED <<job, buffer, second, pushes, panics, connected, requests, cancelled>>

\* rank() returned Err: reported, and counted as a clean iteration.
RankFails ==
    /\ phase = "rank"
    /\ events' = Append(events, ErrorEvent(job.id))
    /\ Finish
    /\ UNCHANGED <<connected, requests, cancelled>>

\* drain_window receives one update.  Once the token has fired an update only
\* ends the window, which the closing actions allow at any time.
TakePush ==
    /\ phase \in {"first", "second"}
    /\ pushes < MaxPushes
    /\ ~IsCancelled(job.id)
    /\ \E push \in Pushes :
         LET update == [kind |-> push.kind, from |-> push.from, to |-> push.to,
                        list |-> CandidatesFor(job.kana, push.rows)]
         IN  IF phase = "first"
             THEN buffer' = Applied(buffer, update) /\ UNCHANGED second
             ELSE second' = Applied(second, update) /\ UNCHANGED buffer
    /\ pushes' = pushes + 1
    /\ UNCHANGED <<phase, job, panics, channelVars>>

\* Mutant: a ranker that pushed nothing is not reported.
SilentWhenEmpty ==
    /\ phase = "first"
    /\ events' = IF IsCancelled(job.id) \/ buffer = <<>> THEN events
                 ELSE Append(events, CandidatesEvent(job.id, buffer))
    /\ IF job.mode = "Commit" /\ ~IsCancelled(job.id)
       THEN /\ phase' = "second"
            /\ UNCHANGED <<job, buffer, second, pushes, panics>>
       ELSE Finish
    /\ UNCHANGED <<connected, requests, cancelled>>

\* Mutant: the window has no deadline and waits for a first update.
WaitForAPush ==
    /\ phase = "first"
    /\ pushes > 0
    /\ events' = IF IsCancelled(job.id) THEN events
                 ELSE Append(events, CandidatesEvent(job.id, buffer))
    /\ IF job.mode = "Commit" /\ ~IsCancelled(job.id)
       THEN /\ phase' = "second"
            /\ UNCHANGED <<job, buffer, second, pushes, panics>>
       ELSE Finish
    /\ UNCHANGED <<connected, requests, cancelled>>

\* An empty buffer is sent as well.  The token is read twice, before the send
\* and before the second window; one that fires in between is as good as one
\* that fires in the second window, which then sends nothing.
CloseFirstWindow ==
    /\ phase = "first"
    /\ events' = IF IsCancelled(job.id) THEN events
                 ELSE Append(events, CandidatesEvent(job.id, buffer))
    /\ IF job.mode = "Commit" /\ ~IsCancelled(job.id)
       THEN /\ phase' = "second"
            /\ UNCHANGED <<job, buffer, second, pushes, panics>>
       ELSE Finish
    /\ UNCHANGED <<connected, requests, cancelled>>

\* Mutant: the second window is sent on its own.
SecondReplacesFirst ==
    /\ phase = "second"
    /\ events' = IF IsCancelled(job.id) \/ second = <<>> THEN events
                 ELSE Append(events, CandidatesEvent(job.id, second))
    /\ Finish
    /\ UNCHANGED <<connected, requests, cancelled>>

\* What the second window collected is added to what the first one sent.
CloseSecondWindow ==
    /\ phase = "second"
    /\ events' = IF IsCancelled(job.id) \/ second = <<>> THEN events
                 ELSE Append(events, CandidatesEvent(job.id, buffer \o second))
    /\ Finish
    /\ UNCHANGED <<connected, requests, cancelled>>

\* Mutant: one panic too many.
PanicsOnceMore ==
    /\ Working
    /\ events' = Append(events, ErrorEvent(job.id))
    /\ panics' = panics + 1
    /\ DropJob
    /\ phase' = IF panics + 1 > PanicLimit THEN "leaving" ELSE "recv"
    /\ UNCHANGED <<connected, requests, cancelled>>

\* A panic is reported before it is counted.
WorkerPanics ==
    /\ Working
    /\ events' = Append(events, ErrorEvent(job.id))
    /\ panics' = panics + 1
    /\ DropJob
    /\ phase' = IF panics + 1 >= PanicLimit THEN "leaving" ELSE "recv"
    /\ UNCHANGED <<connected, requests, cancelled>>

\* worker_loop returns: the receiver of requests goes, with all that is queued.
\* Until then requests are still accepted, and nobody will ever answer them.
WorkerExits ==
    /\ phase = "leaving"
    /\ phase' = "exited"
    /\ connected' = FALSE
    /\ requests' = <<>>
    /\ UNCHANGED <<job, buffer, second, pushes, panics, events, cancelled>>

-----------------------------------------------------------------------------

WorkerNext ==
    \/ WorkerReceive
    \/ RankReturns
    \/ RankFails
    \/ TakePush
    \/ CloseFirstWindow
    \/ CloseSecondWindow
    \/ WorkerPanics
    \/ WorkerExits

\* rank() comes to an end, one way or another.
LeaveRank == phase = "rank" /\ (RankReturns \/ RankFails \/ WorkerPanics)

\* The thread is scheduled, rank() ends, and every window has a deadline.
WorkerFairness ==
    /\ WF_workerVars(WorkerReceive)
    /\ WF_workerVars(LeaveRank)
    /\ WF_workerVars(CloseFirstWindow)
    /\ WF_workerVars(CloseSecondWindow)
    /\ WF_workerVars(WorkerExits)

=============================================================================
