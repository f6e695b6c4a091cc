-------------------------- MODULE ProcessLifecycle --------------------------
(***************************************************************************)
(* The threads of the kotoha-bin process and the channels between them: the *)
(* D-Bus service turns calls of the ibus daemon into events, the engine     *)
(* loop takes events from whichever channel has one, the ranker worker      *)
(* reports back, the handler of SIGTERM and SIGINT asks for the end, and    *)
(* the main thread joins the others.                                        *)
(*                                                                         *)
(* What the engine does with a key is KotohaEngine's subject; here a key is *)
(* consumed or forwarded, and may leave a request for the worker.  A call   *)
(* of the daemon that waits for an answer holds up the calls behind it: the *)
(* connection dispatches them in one background thread.                     *)
(***************************************************************************)
EXTENDS Naturals, Sequences, SequencesExt

CONSTANTS
    Keys,         \* the key events the daemon may send, each once
    None,         \* no key
    StartModes,   \* whether the engine was enabled and focused before the loop
                  \* started: main.rs does neither, the engine's tests do both
    MaxEvents,    \* bound: events that wait in the bridge channel
    MaxRequests,  \* bound: requests that wait for the worker
    MaxOutputs,   \* bound: outputs that wait in the worker channel
    PanicLimit    \* MAX_CONSECUTIVE_PANICS, 5 in the code

ASSUME KeysAssumption == None \notin Keys

ASSUME StartAssumption == StartModes \subseteq BOOLEAN

ASSUME BoundsAssumption ==
    /\ MaxEvents \in Nat \ {0}
    /\ MaxRequests \in Nat
    /\ MaxOutputs \in Nat \ {0}
    /\ PanicLimit \in Nat \ {0}

VARIABLES
    bridge,    \* events in bridge_rx, oldest first
    requests,  \* requests the worker has not taken yet
    outputs,   \* events in worker_rx
    stopSent,  \* a message has been put into shutdown_rx
    loop,      \* the engine loop: running, its reactor dropped, ended
    failed,    \* a call into the engine has panicked: what join will say
    enabled,   \* KotohaEngine.enabled
    focused,   \* KotohaEngine.focused
    worker,    \* the worker thread
    panics,    \* its consecutive_panics
    waiting,   \* the key whose process_key_event call has not returned
    reply,     \* what the channel of that call holds
    answer,    \* what each key's call returned to the daemon
    result,    \* what the engine did with each key
    wants,     \* what the daemon last asked for: IME enabled, engine focused
    unwanted,  \* keys sent while the daemon had the IME disabled or unfocused
    listener,  \* the dbus-listener thread
    flag,      \* ListenerShutdown's flag
    handler,   \* the thread that runs the signal handler
    main       \* the main thread

serviceVars == <<waiting, reply, answer, wants, unwanted>>
engineVars  == <<loop, failed, enabled, focused, result>>
workerVars  == <<worker, panics>>
mainVars    == <<listener, flag, handler, main>>
vars == <<bridge, requests, outputs, stopSent, serviceVars, engineVars, workerVars, mainVars>>

KeyEvent(k) == [kind |-> "IBusKey", key |-> k]

ResetEvent(kind) == [kind |-> kind, key |-> None]

Events == {KeyEvent(k) : k \in Keys} \cup
          {ResetEvent(kind) : kind \in {"FocusOut", "Reset", "Disable"}}

Results == {"Consumed", "Forwarded"}

\* The process exists until main returns, whatever other threads are doing.
Alive == main # "returned"

\* A handle of the connection is left: the listener's, or the host bridge's.
Connected == listener = "polling" \/ loop # "ended"

Init ==
    /\ bridge = <<>> /\ requests = 0 /\ outputs = 0 /\ stopSent = FALSE
    /\ loop = "running" /\ failed = FALSE
    /\ enabled \in StartModes
    /\ focused = enabled
    /\ worker = "idle" /\ panics = 0
    /\ waiting = None
    /\ reply = "none"
    /\ answer = [k \in Keys |-> "none"]
    /\ result = [k \in Keys |-> "none"]
    /\ wants = [enabled |-> enabled, focused |-> enabled]
    /\ unwanted = {}
    /\ listener = "polling" /\ flag = FALSE
    /\ handler = "idle"
    /\ main = "joinLoop"

-----------------------------------------------------------------------------
(***************************************************************************)
(* The D-Bus service.                                                      *)
(***************************************************************************)

Served == Alive /\ Connected /\ waiting = None

\* process_key_event up to its wait.  Without a reactor the send fails.
ProcessKeyEvent(k) ==
    /\ Served
    /\ answer[k] = "none"
    /\ Len(bridge) < MaxEvents
    /\ IF loop = "running"
       THEN /\ bridge' = Append(bridge, KeyEvent(k))
            /\ waiting' = k
            /\ UNCHANGED answer
       ELSE /\ answer' = [answer EXCEPT ![k] = "false"]
            /\ UNCHANGED <<bridge, waiting>>
    /\ unwanted' = IF wants.enabled /\ wants.focused THEN unwanted ELSE unwanted \cup {k}
    /\ UNCHANGED <<requests, outputs, stopSent, reply, wants, engineVars, workerVars, mainVars>>

\* recv_timeout ends: with a result, or because the sender of the call's
\* channel went with the queue of the reactor.
KeyEventReturns ==
    /\ Alive
    /\ waiting # None
    /\ reply # "none"
    /\ answer' = [answer EXCEPT ![waiting] = IF reply = "Consumed" THEN "true" ELSE "false"]
    /\ waiting' = None
    /\ reply' = "none"
    /\ UNCHANGED <<bridge, requests, outputs, stopSent, wants, unwanted, engineVars, workerVars, mainVars>>

\* PROCESS_KEY_EVENT_TIMEOUT passes; the event stays in the queue.
KeyEventTimesOut ==
    /\ Alive
    /\ waiting # None
    /\ reply = "none"
    /\ answer' = [answer EXCEPT ![waiting] = "false"]
    /\ waiting' = None
    /\ UNCHANGED <<bridge, requests, outputs, stopSent, reply, wants, unwanted, engineVars,
                   workerVars, mainVars>>

\* focus_out, reset and disable send an event and ignore whether it arrived.
SendReset(kind) ==
    /\ Served
    /\ Len(bridge) < MaxEvents
    /\ bridge' = IF loop = "running" THEN Append(bridge, ResetEvent(kind)) ELSE bridge
    /\ wants' = [enabled |-> wants.enabled /\ kind # "Disable",
                 focused |-> wants.focused /\ kind # "FocusOut"]
    /\ UNCHANGED <<requests, outputs, stopSent, waiting, reply, answer, unwanted, engineVars,
                   workerVars, mainVars>>

\* focus_in and enable only write a log line.
FocusInOrEnable ==
    /\ Served
    /\ \/ wants' = [wants EXCEPT !.enabled = TRUE]
       \/ wants' = [wants EXCEPT !.focused = TRUE]
    /\ UNCHANGED <<bridge, requests, outputs, stopSent, waiting, reply, answer, unwanted,
                   engineVars, workerVars, mainVars>>

ServiceStep ==
    \/ \E k \in Keys : ProcessKeyEvent(k)
    \/ KeyEventReturns
    \/ KeyEventTimesOut
    \/ \E kind \in {"FocusOut", "Reset", "Disable"} : SendReset(kind)
    \/ FocusInOrEnable

-----------------------------------------------------------------------------
(***************************************************************************)
(* The engine loop.  recv takes from any channel that is ready, and one     *)
(* that is empty without a sender left is ready to report just that.        *)
(***************************************************************************)

LoopRuns == Alive /\ loop = "running"

\* dispatch_rank_request: a failed send disables the engine.
Dispatch ==
    IF worker # "exited"
    THEN /\ requests < MaxRequests
         /\ requests' = requests + 1
         /\ UNCHANGED enabled
    ELSE /\ enabled' = FALSE
         /\ UNCHANGED requests

\* Mutant: one channel for the answers of all calls.
RespondToCaller(k, r) == reply' = IF waiting # None THEN r ELSE reply

\* respond.send: the channel belongs to the call that sent the event, and a
\* call that has returned no longer listens.
RespondTo(k, r) == reply' = IF waiting = k THEN r ELSE reply

\* A key is consumed only by an enabled and focused engine, and only a key
\* that is consumed can start a conversion.
HandleKey ==
    /\ LoopRuns
    /\ bridge # <<>>
    /\ Head(bridge).kind = "IBusKey"
    /\ bridge' = Tail(bridge)
    /\ \E r \in Results :
         /\ r = "Consumed" => enabled /\ focused
         /\ result' = [result EXCEPT ![Head(bridge).key] = r]
         /\ RespondTo(Head(bridge).key, r)
         /\ \/ UNCHANGED <<requests, enabled>>
            \/ r = "Consumed" /\ Dispatch
    /\ UNCHANGED <<outputs, stopSent, waiting, answer, wants, unwanted, loop, failed, focused,
                   workerVars, mainVars>>

\* Mutant: Disable is handled as a reset.
DisableResets ==
    /\ LoopRuns
    /\ bridge # <<>>
    /\ Head(bridge).kind # "IBusKey"
    /\ bridge' = Tail(bridge)
    /\ focused' = (focused /\ Head(bridge).kind # "FocusOut")
    /\ UNCHANGED <<requests, outputs, stopSent, serviceVars, loop, failed, enabled,
                   result, workerVars, mainVars>>

\* engine.focus_out, engine.reset or engine.disable.
HandleReset ==
    /\ LoopRuns
    /\ bridge # <<>>
    /\ Head(bridge).kind # "IBusKey"
    /\ bridge' = Tail(bridge)
    /\ focused' = (focused /\ Head(bridge).kind # "FocusOut")
    /\ enabled' = (enabled /\ Head(bridge).kind # "Disable")
    /\ UNCHANGED <<requests, outputs, stopSent, serviceVars, loop, failed, result,
                   workerVars, mainVars>>

HandleOutput ==
    /\ LoopRuns
    /\ outputs > 0
    /\ outputs' = outputs - 1
    /\ UNCHANGED <<bridge, requests, stopSent, serviceVars, engineVars, workerVars, mainVars>>

\* run returns.  The reactor is dropped first: what waits in its channels is
\* gone, and with a key event the sender its call is listening to.
LeaveLoop ==
    /\ loop' = "left"
    /\ bridge' = <<>>
    /\ outputs' = 0
    /\ reply' = IF waiting # None /\ KeyEvent(waiting) \in ToSet(bridge) THEN "dropped" ELSE reply
    /\ UNCHANGED <<requests, stopSent, waiting, answer, wants, unwanted, enabled, focused, result,
                   workerVars, mainVars>>

ReceiveShutdown ==
    /\ LoopRuns
    /\ stopSent
    /\ LeaveLoop
    /\ UNCHANGED failed

\* The worker has the only sender of its channel.  (The bridge's is kept by
\* the connection, which the engine's host bridge holds; shutdown_tx is kept by
\* the signal handler.)
ReceiveDisconnected ==
    /\ LoopRuns
    /\ outputs = 0
    /\ worker = "exited"
    /\ LeaveLoop
    /\ UNCHANGED failed

\* The engine panics over an event, which is gone like those behind it.  run
\* unwinds: its arguments are dropped in the order they are at a normal end.
LoopPanics ==
    /\ LoopRuns
    /\ bridge # <<>> \/ outputs > 0
    /\ LeaveLoop
    /\ failed' = TRUE

\* The engine is dropped: with it the sender of requests and a handle of the
\* connection.  Nobody joins the worker for it.
DropEngine ==
    /\ Alive
    /\ loop = "left"
    /\ loop' = "ended"
    /\ UNCHANGED <<bridge, requests, outputs, stopSent, serviceVars, failed, enabled, focused,
                   result, workerVars, mainVars>>

LoopStep ==
    \/ HandleKey
    \/ HandleReset
    \/ HandleOutput
    \/ ReceiveShutdown
    \/ ReceiveDisconnected
    \/ LoopPanics
    \/ DropEngine

-----------------------------------------------------------------------------
(***************************************************************************)
(* The ranker worker, as far as its thread and channels go.                *)
(***************************************************************************)

WorkerTakes ==
    /\ Alive
    /\ worker = "idle"
    /\ requests > 0
    /\ requests' = requests - 1
    /\ worker' = "busy"
    /\ UNCHANGED <<bridge, outputs, stopSent, panics, serviceVars, engineVars, mainVars>>

\* try_send_event: with nobody to receive, the thread returns.  Its senders
\* and its receiver are dropped.
ReportThen(next, count) ==
    IF loop = "running"
    THEN /\ outputs < MaxOutputs
         /\ outputs' = outputs + 1
         /\ worker' = next
         /\ panics' = count
         /\ requests' = IF next = "exited" THEN 0 ELSE requests
    ELSE /\ worker' = "exited"
         /\ requests' = 0
         /\ UNCHANGED <<outputs, panics>>

\* An answer; a commit request may have two.
WorkerReports ==
    /\ Alive
    /\ worker = "busy"
    /\ ReportThen("busy", panics)
    /\ UNCHANGED <<bridge, stopSent, serviceVars, engineVars, mainVars>>

\* The report of the panic comes before the count.
WorkerPanics ==
    /\ Alive
    /\ worker = "busy"
    /\ ReportThen(IF panics + 1 >= PanicLimit THEN "exited" ELSE "idle", panics + 1)
    /\ UNCHANGED <<bridge, stopSent, serviceVars, engineVars, mainVars>>

\* Mutant: a request that ends well takes one panic off the count.
CountsDown ==
    /\ Alive
    /\ worker = "busy"
    /\ worker' = "idle"
    /\ panics' = panics - 1
    /\ UNCHANGED <<bridge, requests, outputs, stopSent, serviceVars, engineVars, mainVars>>

WorkerFinishes ==
    /\ Alive
    /\ worker = "busy"
    /\ worker' = "idle"
    /\ panics' = 0
    /\ UNCHANGED <<bridge, requests, outputs, stopSent, serviceVars, engineVars, mainVars>>

\* rx_request.recv fails once the engine is gone and the queue is empty.
WorkerHangsUp ==
    /\ Alive
    /\ worker = "idle"
    /\ requests = 0
    /\ loop = "ended"
    /\ worker' = "exited"
    /\ UNCHANGED <<bridge, requests, outputs, stopSent, panics, serviceVars, engineVars, mainVars>>

WorkerStep ==
    \/ WorkerTakes
    \/ WorkerReports
    \/ WorkerPanics
    \/ WorkerFinishes
    \/ WorkerHangsUp

-----------------------------------------------------------------------------
(***************************************************************************)
(* Shutdown: the signal handler, the listener thread and main.             *)
(***************************************************************************)

\* A signal arrives, the first or a further one, and its handler begins.
Signal ==
    /\ Alive
    /\ handler = "idle"
    /\ flag' = TRUE
    /\ handler' = "sending"
    /\ UNCHANGED <<bridge, requests, outputs, stopSent, serviceVars, engineVars, workerVars,
                   listener, main>>

\* Mutant: the handler tells the listener only.
StopListenerOnly ==
    /\ Alive
    /\ handler = "sending"
    /\ handler' = "idle"
    /\ UNCHANGED <<bridge, requests, outputs, stopSent, serviceVars, engineVars, workerVars,
                   listener, flag, main>>

\* The send fails, and is ignored, when the reactor is gone.
SendShutdown ==
    /\ Alive
    /\ handler = "sending"
    /\ handler' = "idle"
    /\ stopSent' = (stopSent \/ loop = "running")
    /\ UNCHANGED <<bridge, requests, outputs, serviceVars, engineVars, workerVars,
                   listener, flag, main>>

\* The listener polls its flag every 50 ms and drops its handle of the connection.
ListenerReturns ==
    /\ Alive
    /\ listener = "polling"
    /\ flag
    /\ listener' = "returned"
    /\ UNCHANGED <<bridge, requests, outputs, stopSent, serviceVars, engineVars, workerVars,
                   flag, handler, main>>

\* Mutant: only a signal stops the listener.
JoinLoopOnly ==
    /\ main = "joinLoop"
    /\ loop = "ended"
    /\ ~failed
    /\ main' = "joinListener"
    /\ UNCHANGED <<bridge, requests, outputs, stopSent, serviceVars, engineVars, workerVars,
                   listener, flag, handler>>

\* The loop may have ended by itself: the listener is told again.
JoinLoop ==
    /\ main = "joinLoop"
    /\ loop = "ended"
    /\ ~failed
    /\ flag' = TRUE
    /\ main' = "joinListener"
    /\ UNCHANGED <<bridge, requests, outputs, stopSent, serviceVars, engineVars, workerVars,
                   listener, handler>>

\* join reports the panic, and main returns at once: nobody tells the listener.
JoinFailedLoop ==
    /\ main = "joinLoop"
    /\ loop = "ended"
    /\ failed
    /\ main' = "returned"
    /\ UNCHANGED <<bridge, requests, outputs, stopSent, serviceVars, engineVars, workerVars,
                   listener, flag, handler>>

JoinListener ==
    /\ main = "joinListener"
    /\ listener = "returned"
    /\ main' = "returned"
    /\ UNCHANGED <<bridge, requests, outputs, stopSent, serviceVars, engineVars, workerVars,
                   listener, flag, handler>>

MainStep ==
    \/ Signal
    \/ SendShutdown
    \/ ListenerReturns
    \/ JoinLoop
    \/ JoinFailedLoop
    \/ JoinListener

-----------------------------------------------------------------------------

Next == ServiceStep \/ LoopStep \/ WorkerStep \/ MainStep

Spec == Init /\ [][Next]_vars

\* The daemon, the user and the worker owe nothing.  The threads that end the
\* process run; a message in the shutdown channel stays ready until the loop
\* takes it, and recv chooses among the ready channels at random.
FairSpec ==
    /\ Spec
    /\ WF_vars(ReceiveShutdown)
    /\ WF_vars(DropEngine)
    /\ WF_vars(SendShutdown)
    /\ WF_vars(ListenerReturns)
    /\ WF_vars(JoinLoop)
    /\ WF_vars(JoinFailedLoop)
    /\ WF_vars(JoinListener)

-----------------------------------------------------------------------------
(***************************************************************************)
(* Properties.                                                             *)
(***************************************************************************)

\* Types; the breaker of the worker never counts past its limit.
TypeOK ==
    /\ bridge \in Seq(Events)
    /\ requests \in 0..MaxRequests
    /\ outputs \in 0..MaxOutputs
    /\ stopSent \in BOOLEAN
    /\ loop \in {"running", "left", "ended"} /\ failed \in BOOLEAN
    /\ enabled \in BOOLEAN /\ focused \in BOOLEAN
    /\ worker \in {"idle", "busy", "exited"}
    /\ panics \in 0..PanicLimit
    /\ waiting \in Keys \cup {None}
    /\ reply \in Results \cup {"none", "dropped"}
    /\ answer \in [Keys -> {"none", "true", "false"}]
    /\ result \in [Keys -> Results \cup {"none"}]
    /\ wants \in [enabled : BOOLEAN, focused : BOOLEAN]
    /\ unwanted \in SUBSET Keys
    /\ listener \in {"polling", "returned"}
    /\ flag \in BOOLEAN
    /\ handler \in {"idle", "sending"}
    /\ main \in {"joinLoop", "joinListener", "returned"}

\* The daemon withholds from the application only what the engine consumed: no
\* late answer to an earlier call, no timeout and no shutdown makes a key
\* disappear (process_key_event, and its bounded channel for each call).
ConsumedWasHandled == \A k \in Keys : answer[k] = "true" => result[k] = "Consumed"

\* A key the daemon sends after it has disabled the IME or taken the focus
\* away is never consumed, however long the queue in front of it was.
UnwantedKeysPass == \A k \in unwanted : result[k] # "Consumed"

\* SIGTERM or SIGINT ends the process, whatever the daemon still sends and
\* whatever the worker is doing.
SignalEndsProcess == handler = "sending" ~> main = "returned"

\* The end of the engine loop, for whatever reason, ends the process: main is
\* never left waiting for a thread that nobody stops.
LoopEndEndsProcess == loop = "left" ~> main = "returned"

\* The loop runs until it is told to stop, or every sender is gone (run's
\* postcondition, ReactorError::Disconnected): and of those, the signal
\* handler's and the connection's are there as long as the loop is.  (A panic is
\* another matter.)
LoopRunsUntilStopped == loop # "running" => stopSent \/ failed

=============================================================================
