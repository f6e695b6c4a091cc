--------------------------- MODULE ProcessProofs ---------------------------
(***************************************************************************)
(* For any number of keys, any bounds of the channels and any start of the  *)
(* engine: the daemon is told "consumed" only of keys that were, and a key  *)
(* sent while the daemon has the IME off is never consumed.                 *)
(***************************************************************************)
EXTENDS ProcessLifecycle, TLAPS

\* The worker leaves with the panic that reaches the limit.
Breaker == worker # "exited" => panics < PanicLimit

\* process_key_event was called with k.
Called(k) == answer[k] # "none" \/ waiting = k

\* A key has one event in the queue at most, and only until it is handled.
QueuedOnce ==
    /\ \A i \in 1..Len(bridge) : bridge[i].kind = "IBusKey" =>
          /\ bridge[i].key \in Keys
          /\ result[bridge[i].key] = "none"
          /\ answer[bridge[i].key] # "true"
          /\ Called(bridge[i].key)
    /\ \A i, j \in 1..Len(bridge) :
          bridge[i].kind = "IBusKey" /\ bridge[j] = bridge[i] => i = j

\* An answer on its way is the engine's result for the key that waits.
ReplyIsResult ==
    /\ waiting # None => answer[waiting] = "none"
    /\ waiting = None => reply = "none"
    /\ reply = "Consumed" => result[waiting] = "Consumed"
    /\ \A k \in Keys : result[k] # "none" => Called(k)

\* The engine takes no keys when it comes to the n-th event of the queue: it
\* is off already, or an event before the n-th turns it off.
OffBefore(n) ==
    \/ ~ (enabled /\ focused)
    \/ \E j \in 1..Len(bridge) : j < n /\ bridge[j].kind \in {"FocusOut", "Disable"}

OffWhenUnwanted ==
    /\ loop = "running" /\ ~ (wants.enabled /\ wants.focused) => OffBefore(Len(bridge) + 1)
    /\ \A i \in 1..Len(bridge) :
          bridge[i].kind = "IBusKey" /\ bridge[i].key \in unwanted => OffBefore(i)

UnwantedWereCalled == \A k \in unwanted : Called(k)

IInv ==
    /\ TypeOK
    /\ Breaker
    /\ QueuedOnce
    /\ ReplyIsResult
    /\ OffWhenUnwanted
    /\ UnwantedWereCalled
    /\ ConsumedWasHandled
    /\ UnwantedKeysPass

LEMMA InitInvariant == Init => IInv
<1> SUFFICES ASSUME Init PROVE IInv
  OBVIOUS
<1> USE StartAssumption, BoundsAssumption, KeysAssumption DEF Init
<1>1. bridge = <<>> /\ Len(bridge) = 0
  OBVIOUS
<1>2. TypeOK /\ Breaker
  <2>1. enabled \in BOOLEAN /\ focused \in BOOLEAN
    OBVIOUS
  <2>2. wants \in [enabled : BOOLEAN, focused : BOOLEAN]
    BY <2>1
  <2>3. bridge \in Seq(Events)
    BY <1>1
  <2>4. waiting \in Keys \cup {None} /\ reply \in Results \cup {"none", "dropped"}
    OBVIOUS
  <2>5. /\ answer \in [Keys -> {"none", "true", "false"}]
        /\ result \in [Keys -> Results \cup {"none"}]
    OBVIOUS
  <2>6. requests \in 0..MaxRequests /\ outputs \in 0..MaxOutputs /\ panics \in 0..PanicLimit
    OBVIOUS
  <2>7. stopSent \in BOOLEAN /\ flag \in BOOLEAN /\ unwanted \in SUBSET Keys
    OBVIOUS
  <2>8. /\ loop \in {"running", "left", "ended"}
        /\ worker \in {"idle", "busy", "exited"}
        /\ listener \in {"polling", "returned"}
        /\ handler \in {"idle", "sending"}
        /\ main \in {"joinLoop", "joinListener", "returned"}
    OBVIOUS
  <2>9. Breaker
    BY DEF Breaker
  <2>10. TypeOK
    BY ONLY <2>1, <2>2, <2>3, <2>4, <2>5, <2>6, <2>7, <2>8, failed \in BOOLEAN DEF TypeOK
  <2>11. QED
    BY <2>9, <2>10
<1>3. QueuedOnce /\ ReplyIsResult
  BY <1>1 DEF QueuedOnce, ReplyIsResult
<1>4. OffWhenUnwanted /\ UnwantedWereCalled
  BY <1>1 DEF OffWhenUnwanted, OffBefore, UnwantedWereCalled
<1>5. ConsumedWasHandled /\ UnwantedKeysPass
  BY DEF ConsumedWasHandled, UnwantedKeysPass
<1>6. QED
  BY <1>2, <1>3, <1>4, <1>5 DEF IInv

-----------------------------------------------------------------------------
(***************************************************************************)
(* Queues.                                                                 *)
(***************************************************************************)

LEMMA QueueGrows ==
    ASSUME NEW s \in Seq(Events), NEW e \in Events
    PROVE  /\ Append(s, e) \in Seq(Events)
           /\ Len(Append(s, e)) = Len(s) + 1
           /\ Len(s) \in Nat
           /\ \A i \in 1..Len(s) : Append(s, e)[i] = s[i]
           /\ Append(s, e)[Len(s) + 1] = e
  OBVIOUS

LEMMA QueueShrinks ==
    ASSUME NEW s \in Seq(Events), s # <<>>
    PROVE  /\ Tail(s) \in Seq(Events)
           /\ Len(Tail(s)) = Len(s) - 1
           /\ Len(s) \in Nat \ {0}
           /\ Head(s) = s[1]
           /\ s[1] \in Events
           /\ \A i \in 1..Len(Tail(s)) : Tail(s)[i] = s[i + 1]
  OBVIOUS

-----------------------------------------------------------------------------
(***************************************************************************)
(* Types.                                                                  *)
(***************************************************************************)

LEMMA TypeCorrect == TypeOK /\ Breaker /\ [Next]_vars => TypeOK'
<1> SUFFICES ASSUME TypeOK, Breaker, [Next]_vars PROVE TypeOK'
  OBVIOUS
<1> USE BoundsAssumption DEF TypeOK, serviceVars, engineVars, workerVars, mainVars
<1>1. CASE UNCHANGED vars
  BY <1>1 DEF vars
<1>2. CASE ServiceStep
  <2>1. ASSUME NEW k \in Keys, ProcessKeyEvent(k) PROVE TypeOK'
    <3>1. KeyEvent(k) \in Events
      BY DEF Events
    <3>2. bridge' \in Seq(Events)
      BY <2>1, <3>1 DEF ProcessKeyEvent
    <3>3. QED
      BY <2>1, <3>2 DEF ProcessKeyEvent
  <2>2. CASE KeyEventReturns \/ KeyEventTimesOut
    BY <2>2 DEF KeyEventReturns, KeyEventTimesOut, Results
  <2>3. ASSUME NEW kind \in {"FocusOut", "Reset", "Disable"}, SendReset(kind) PROVE TypeOK'
    <3>1. ResetEvent(kind) \in Events
      BY DEF Events
    <3>2. bridge' \in Seq(Events)
      BY <2>3, <3>1 DEF SendReset
    <3>3. QED
      BY <2>3, <3>2 DEF SendReset
  <2>4. CASE FocusInOrEnable
    <3>1. wants' \in [enabled : BOOLEAN, focused : BOOLEAN]
      <4>1. CASE wants' = [wants EXCEPT !.enabled = TRUE]
        BY <4>1
      <4>2. CASE wants' = [wants EXCEPT !.focused = TRUE]
        BY <4>2
      <4>3. QED
        BY <2>4, <4>1, <4>2 DEF FocusInOrEnable
    <3>2. QED
      BY <2>4, <3>1 DEF FocusInOrEnable
  <2>5. QED
    BY <1>2, <2>1, <2>2, <2>3, <2>4 DEF ServiceStep
<1>3. CASE LoopStep
  <2>1. CASE HandleKey
    <3>1. bridge' \in Seq(Events) /\ Head(bridge) \in Events
      BY <2>1, QueueShrinks DEF HandleKey
    <3>2. Head(bridge).key \in Keys
      BY <2>1, <3>1 DEF HandleKey, Events, KeyEvent, ResetEvent
    <3>3. PICK r \in Results :
             /\ result' = [result EXCEPT ![Head(bridge).key] = r]
             /\ RespondTo(Head(bridge).key, r)
             /\ UNCHANGED <<requests, enabled>> \/ Dispatch
      BY <2>1 DEF HandleKey
    <3>4. reply' \in Results \cup {"none", "dropped"}
      BY <3>3 DEF RespondTo
    <3>5. requests' \in 0..MaxRequests /\ enabled' \in BOOLEAN
      <4>1. CASE UNCHANGED <<requests, enabled>>
        BY <4>1
      <4>2. CASE Dispatch /\ worker # "exited"
        BY <4>2 DEF Dispatch
      <4>3. CASE Dispatch /\ worker = "exited"
        BY <4>3 DEF Dispatch
      <4>4. QED
        BY <3>3, <4>1, <4>2, <4>3
    <3>6. result' \in [Keys -> Results \cup {"none"}]
      BY <3>2, <3>3
    <3>7. QED
      BY <2>1, <3>1, <3>4, <3>5, <3>6 DEF HandleKey
  <2>2. CASE HandleReset
    <3>1. bridge' \in Seq(Events)
      BY <2>2, QueueShrinks DEF HandleReset
    <3>2. QED
      BY <2>2, <3>1 DEF HandleReset
  <2>3. CASE HandleOutput
    BY <2>3 DEF HandleOutput
  <2>4. CASE ReceiveShutdown \/ ReceiveDisconnected \/ LoopPanics
    <3>1. LeaveLoop
      BY <2>4 DEF ReceiveShutdown, ReceiveDisconnected, LoopPanics
    <3>2. bridge' \in Seq(Events)
      BY <3>1 DEF LeaveLoop
    <3>3. reply' \in Results \cup {"none", "dropped"}
      BY <3>1 DEF LeaveLoop
    <3>4. failed' \in BOOLEAN
      BY <2>4 DEF ReceiveShutdown, ReceiveDisconnected, LoopPanics
    <3>5. QED
      BY <3>1, <3>2, <3>3, <3>4 DEF LeaveLoop
  <2>5. CASE DropEngine
    BY <2>5 DEF DropEngine
  <2>6. QED
    BY <1>3, <2>1, <2>2, <2>3, <2>4, <2>5 DEF LoopStep
<1>4. CASE WorkerStep
  <2>1. CASE WorkerTakes \/ WorkerFinishes \/ WorkerHangsUp
    BY <2>1 DEF WorkerTakes, WorkerFinishes, WorkerHangsUp
  <2>2. CASE WorkerReports
    BY <2>2 DEF WorkerReports, ReportThen
  \* The breaker: a thread that is still busy has not reached the limit.
  <2>3. CASE WorkerPanics
    <3>1. panics + 1 \in 0..PanicLimit
      BY <2>3 DEF WorkerPanics, Breaker
    <3>2. QED
      BY <2>3, <3>1 DEF WorkerPanics, ReportThen
  <2>4. QED
    BY <1>4, <2>1, <2>2, <2>3 DEF WorkerStep
<1>5. CASE MainStep
  <2>1. CASE Signal \/ SendShutdown
    BY <2>1 DEF Signal, SendShutdown
  <2>2. CASE ListenerReturns
    BY <2>2 DEF ListenerReturns
  <2>3. CASE JoinLoop
    BY <2>3 DEF JoinLoop
  <2>4. CASE JoinFailedLoop
    BY <2>4 DEF JoinFailedLoop
  <2>5. CASE JoinListener
    BY <2>5 DEF JoinListener
  <2>6. QED
    BY <1>5, <2>1, <2>2, <2>3, <2>4, <2>5 DEF MainStep
<1>6. QED
  BY <1>1, <1>2, <1>3, <1>4, <1>5 DEF Next

-----------------------------------------------------------------------------
(***************************************************************************)
(* Steps that leave the queue and the calls alone, or end the loop.        *)
(***************************************************************************)

\* Everything the other parts of the invariant speak of.
CallVars == <<bridge, loop, enabled, focused, waiting, reply, answer, result, wants, unwanted>>

LEMMA OthersKeepCalls ==
    ASSUME WorkerStep \/ MainStep \/ HandleOutput \/ UNCHANGED vars
    PROVE  UNCHANGED CallVars
<1> USE DEF CallVars, vars, serviceVars, engineVars
<1>1. CASE WorkerStep
  BY <1>1 DEF WorkerStep, WorkerTakes, WorkerReports, WorkerPanics, WorkerFinishes, WorkerHangsUp
<1>2. CASE MainStep
  BY <1>2 DEF MainStep, Signal, SendShutdown, ListenerReturns, JoinLoop, JoinFailedLoop, JoinListener
<1>3. CASE HandleOutput
  BY <1>3 DEF HandleOutput
<1>4. CASE UNCHANGED vars
  BY <1>4
<1>5. QED
  BY <1>1, <1>2, <1>3, <1>4

LEMMA BreakerHolds == TypeOK /\ Breaker /\ [Next]_vars => Breaker'
<1> SUFFICES ASSUME TypeOK, Breaker, [Next]_vars PROVE Breaker'
  OBVIOUS
<1> USE BoundsAssumption DEF TypeOK, Breaker, workerVars
<1>1. CASE UNCHANGED vars
  BY <1>1 DEF vars
<1>2. CASE ServiceStep
  BY <1>2 DEF ServiceStep, ProcessKeyEvent, KeyEventReturns, KeyEventTimesOut, SendReset, FocusInOrEnable
<1>3. CASE LoopStep
  BY <1>3 DEF LoopStep, HandleKey, HandleReset, HandleOutput, ReceiveShutdown,
              ReceiveDisconnected, LoopPanics, LeaveLoop, DropEngine
<1>4. CASE WorkerStep
  BY <1>4 DEF WorkerStep, WorkerTakes, WorkerReports, WorkerPanics, WorkerFinishes,
              WorkerHangsUp, ReportThen
<1>5. CASE MainStep
  <2>1. CASE Signal \/ SendShutdown
    BY <2>1 DEF Signal, SendShutdown
  <2>2. CASE ListenerReturns
    BY <2>2 DEF ListenerReturns
  <2>3. CASE JoinLoop
    BY <2>3 DEF JoinLoop
  <2>4. CASE JoinFailedLoop
    BY <2>4 DEF JoinFailedLoop
  <2>5. CASE JoinListener
    BY <2>5 DEF JoinListener
  <2>6. QED
    BY <1>5, <2>1, <2>2, <2>3, <2>4, <2>5 DEF MainStep
<1>6. QED
  BY <1>1, <1>2, <1>3, <1>4, <1>5 DEF Next

-----------------------------------------------------------------------------
(***************************************************************************)
(* Answers belong to their keys.                                           *)
(***************************************************************************)

Answers == QueuedOnce /\ ReplyIsResult /\ ConsumedWasHandled

\* The first event of the queue is handled; the others move up.
LEMMA TailKeepsQueue ==
    ASSUME TypeOK, QueuedOnce, bridge # <<>>, bridge' = Tail(bridge)
    PROVE  \A i \in 1..Len(bridge') :
              /\ i + 1 \in 1..Len(bridge)
              /\ bridge'[i] = bridge[i + 1]
              /\ bridge[1].kind = "IBusKey" => bridge[i + 1] # bridge[1]
<1>1. /\ Len(bridge') = Len(bridge) - 1
      /\ Len(bridge) \in Nat \ {0}
      /\ \A i \in 1..Len(bridge') : bridge'[i] = bridge[i + 1]
  BY QueueShrinks DEF TypeOK
<1>2. QED
  BY <1>1 DEF QueuedOnce

LEMMA AnswersStay == TypeOK /\ Answers /\ [Next]_vars => Answers'
<1> SUFFICES ASSUME TypeOK, Answers, [Next]_vars PROVE Answers'
  OBVIOUS
<1> USE KeysAssumption DEF Answers
<1>1. ASSUME NEW k \in Keys, ProcessKeyEvent(k) PROVE Answers'
  <2> USE <1>1
  <2>1. answer[k] = "none" /\ waiting = None /\ ~ Called(k) /\ result[k] = "none"
    BY DEF ProcessKeyEvent, Served, Called, ReplyIsResult, TypeOK
  <2>2. CASE loop = "running"
    <3>1. bridge' = Append(bridge, KeyEvent(k)) /\ KeyEvent(k) \in Events
      BY <2>2 DEF ProcessKeyEvent, Events
    <3>2. /\ Len(bridge') = Len(bridge) + 1
          /\ Len(bridge) \in Nat
          /\ \A i \in 1..Len(bridge) : bridge'[i] = bridge[i]
          /\ bridge'[Len(bridge) + 1] = KeyEvent(k)
      BY <3>1, QueueGrows DEF TypeOK
    <3>3. /\ waiting' = k
          /\ UNCHANGED <<answer, reply, result>>
      BY <2>2 DEF ProcessKeyEvent, engineVars
    <3>4. \A i \in 1..Len(bridge) : bridge[i] # KeyEvent(k)
      BY <2>1 DEF QueuedOnce, KeyEvent
    <3>5. \A j \in Keys : Called(j) => Called(j)'
      BY <2>1, <3>3 DEF Called
    <3>6. QueuedOnce'
      <4>1. \A i \in 1..Len(bridge') : bridge'[i].kind = "IBusKey" =>
               /\ bridge'[i].key \in Keys
               /\ result'[bridge'[i].key] = "none"
               /\ answer'[bridge'[i].key] # "true"
               /\ Called(bridge[i].key)'
        BY <2>1, <3>2, <3>3, <3>5 DEF QueuedOnce, KeyEvent, Called
      <4>2. \A i, j \in 1..Len(bridge') :
               bridge'[i].kind = "IBusKey" /\ bridge'[j] = bridge'[i] => i = j
        BY <3>2, <3>4 DEF QueuedOnce
      <4>3. QED
        BY <4>1, <4>2 DEF QueuedOnce
    <3>7. ReplyIsResult' /\ ConsumedWasHandled'
      BY <2>1, <3>3, <3>5 DEF ReplyIsResult, ConsumedWasHandled
    <3>8. QED
      BY <3>6, <3>7
  \* The send fails: the call returns at once.
  <2>3. CASE loop # "running"
    <3>1. /\ answer' = [answer EXCEPT ![k] = "false"]
          /\ UNCHANGED <<bridge, waiting, reply, result>>
      BY <2>3 DEF ProcessKeyEvent, engineVars
    <3>2. \A j \in Keys : Called(j) => Called(j)'
      BY <3>1 DEF Called, TypeOK
    <3>3. QueuedOnce'
      BY <2>1, <3>1, <3>2 DEF QueuedOnce, TypeOK
    <3>4. ReplyIsResult' /\ ConsumedWasHandled'
      BY <2>1, <3>1, <3>2 DEF ReplyIsResult, ConsumedWasHandled, TypeOK
    <3>5. QED
      BY <3>3, <3>4
  <2>4. QED
    BY <2>2, <2>3
<1>2. CASE KeyEventReturns \/ KeyEventTimesOut
  <2>1. /\ waiting \in Keys
        /\ waiting' = None
        /\ reply' = "none"
        /\ UNCHANGED <<bridge, result>>
    BY <1>2 DEF KeyEventReturns, KeyEventTimesOut, TypeOK, engineVars
  <2>2. /\ answer' \in [Keys -> {"none", "true", "false"}]
        /\ \A j \in Keys \ {waiting} : answer'[j] = answer[j]
        /\ answer'[waiting] \in {"true", "false"}
        /\ answer'[waiting] = "true" => result[waiting] = "Consumed"
    BY <1>2, <2>1 DEF KeyEventReturns, KeyEventTimesOut, TypeOK, ReplyIsResult
  <2>3. \A j \in Keys : Called(j) => Called(j)'
    BY <2>1, <2>2 DEF Called
  <2>4. QueuedOnce'
    BY <2>1, <2>2, <2>3 DEF QueuedOnce
  <2>5. ReplyIsResult' /\ ConsumedWasHandled'
    BY <2>1, <2>2, <2>3 DEF ReplyIsResult, ConsumedWasHandled
  <2>6. QED
    BY <2>4, <2>5
<1>3. ASSUME NEW kind \in {"FocusOut", "Reset", "Disable"}, SendReset(kind) PROVE Answers'
  <2>1. UNCHANGED <<waiting, reply, answer, result>>
    BY <1>3 DEF SendReset, engineVars
  <2>2. CASE bridge' = bridge
    BY <2>1, <2>2 DEF QueuedOnce, ReplyIsResult, ConsumedWasHandled, Called
  <2>3. CASE bridge' = Append(bridge, ResetEvent(kind))
    <3>1. ResetEvent(kind) \in Events /\ ResetEvent(kind).kind # "IBusKey"
      BY DEF Events, ResetEvent
    <3>2. /\ Len(bridge') = Len(bridge) + 1
          /\ Len(bridge) \in Nat
          /\ \A i \in 1..Len(bridge) : bridge'[i] = bridge[i]
          /\ bridge'[Len(bridge) + 1] = ResetEvent(kind)
      BY <2>3, <3>1, QueueGrows DEF TypeOK
    <3>3. QueuedOnce'
      BY <2>1, <3>1, <3>2 DEF QueuedOnce, Called
    <3>4. QED
      BY <2>1, <3>3 DEF ReplyIsResult, ConsumedWasHandled, Called
  <2>4. QED
    BY <1>3, <2>2, <2>3 DEF SendReset
<1>4. CASE HandleKey
  <2> DEFINE k == bridge[1].key
  <2>1. /\ bridge # <<>>
        /\ bridge' = Tail(bridge)
        /\ Head(bridge) = bridge[1]
        /\ bridge[1].kind = "IBusKey"
        /\ 1 \in 1..Len(bridge)
        /\ UNCHANGED <<waiting, answer>>
    BY <1>4, QueueShrinks DEF HandleKey, TypeOK
  <2>2. /\ k \in Keys
        /\ result[k] = "none"
        /\ answer[k] # "true"
        /\ Called(k)
    BY <2>1 DEF QueuedOnce
  <2>3. PICK r \in Results :
           /\ result' = [result EXCEPT ![k] = r]
           /\ reply' = IF waiting = k THEN r ELSE reply
    BY <1>4, <2>1 DEF HandleKey, RespondTo
  <2>4. /\ result'[k] = r
        /\ \A j \in Keys \ {k} : result'[j] = result[j]
    BY <2>2, <2>3 DEF TypeOK
  <2>5. \A i \in 1..Len(bridge') :
           /\ i + 1 \in 1..Len(bridge)
           /\ bridge'[i] = bridge[i + 1]
           /\ bridge[i + 1] # bridge[1]
    BY <2>1, TailKeepsQueue
  <2>6. \A i \in 1..Len(bridge') : bridge'[i].kind = "IBusKey" => bridge'[i].key # k
    <3>1. \A e, f \in Events : e.kind = "IBusKey" /\ f.kind = "IBusKey" /\ e.key = f.key => e = f
      BY DEF Events, KeyEvent, ResetEvent
    <3>2. \A i \in 1..Len(bridge) : bridge[i] \in Events
      BY DEF TypeOK
    <3>3. QED
      BY <2>1, <2>5, <3>1, <3>2
  <2>7. QueuedOnce'
    <3>1. \A i \in 1..Len(bridge') : bridge'[i].kind = "IBusKey" =>
             /\ bridge'[i].key \in Keys
             /\ result'[bridge'[i].key] = "none"
             /\ answer'[bridge'[i].key] # "true"
             /\ Called(bridge[i].key)'
      BY <2>1, <2>4, <2>5, <2>6 DEF QueuedOnce, Called
    <3>2. \A i, j \in 1..Len(bridge') :
             bridge'[i].kind = "IBusKey" /\ bridge'[j] = bridge'[i] => i = j
      BY <2>5 DEF QueuedOnce
    <3>3. QED
      BY <3>1, <3>2 DEF QueuedOnce
  <2>8. ReplyIsResult'
    BY <2>1, <2>2, <2>3, <2>4 DEF ReplyIsResult, Called, TypeOK
  <2>9. ConsumedWasHandled'
    BY <2>1, <2>2, <2>4 DEF ConsumedWasHandled
  <2>10. QED
    BY <2>7, <2>8, <2>9
<1>5. CASE HandleReset
  <2>1. /\ bridge # <<>>
        /\ bridge' = Tail(bridge)
        /\ UNCHANGED <<waiting, reply, answer, result>>
    BY <1>5 DEF HandleReset, serviceVars
  <2>2. QueuedOnce'
    BY <2>1, TailKeepsQueue DEF QueuedOnce, Called
  <2>3. QED
    BY <2>1, <2>2 DEF ReplyIsResult, ConsumedWasHandled, Called
<1>6. CASE ReceiveShutdown \/ ReceiveDisconnected \/ LoopPanics
  <2>1. LeaveLoop
    BY <1>6 DEF ReceiveShutdown, ReceiveDisconnected, LoopPanics
  <2>2. /\ bridge' = <<>> /\ Len(bridge') = 0
        /\ reply' \in {reply, "dropped"}
        /\ waiting = None => reply' = reply
        /\ UNCHANGED <<waiting, answer, result>>
    BY <2>1 DEF LeaveLoop
  <2>3. QED
    BY <2>2 DEF QueuedOnce, ReplyIsResult, ConsumedWasHandled, Called
<1>7. CASE FocusInOrEnable \/ DropEngine
  <2>1. UNCHANGED <<bridge, waiting, reply, answer, result>>
    BY <1>7 DEF FocusInOrEnable, DropEngine, serviceVars, engineVars
  <2>2. QED
    BY <2>1 DEF QueuedOnce, ReplyIsResult, ConsumedWasHandled, Called
<1>8. CASE WorkerStep \/ MainStep \/ HandleOutput \/ UNCHANGED vars
  BY <1>8, OthersKeepCalls DEF CallVars, QueuedOnce, ReplyIsResult, ConsumedWasHandled, Called
<1>9. QED
  BY <1>1, <1>2, <1>3, <1>4, <1>5, <1>6, <1>7, <1>8 DEF Next, ServiceStep, LoopStep

-----------------------------------------------------------------------------
(***************************************************************************)
(* What the daemon turned off stays off.                                   *)
(***************************************************************************)

Off == OffWhenUnwanted /\ UnwantedWereCalled /\ UnwantedKeysPass

\* The n-th event stays behind the same events when the queue grows, and when
\* the engine is turned off further.
LEMMA OffBeforeStays ==
    ASSUME TypeOK, NEW n \in Nat, OffBefore(n),
           enabled' => enabled, focused' => focused,
           Len(bridge) <= Len(bridge'), Len(bridge') \in Nat,
           \A i \in 1..Len(bridge) : bridge'[i] = bridge[i]
    PROVE  OffBefore(n)'
<1>1. CASE ~ (enabled /\ focused)
  BY <1>1 DEF OffBefore
<1>2. ASSUME NEW j \in 1..Len(bridge), j < n, bridge[j].kind \in {"FocusOut", "Disable"}
      PROVE  OffBefore(n)'
  <2>1. Len(bridge) \in Nat
    BY DEF TypeOK
  <2>2. j \in 1..Len(bridge') /\ bridge'[j] = bridge[j]
    BY <2>1
  <2>3. QED
    BY <1>2, <2>2 DEF OffBefore
<1>3. QED
  BY <1>1, <1>2 DEF OffBefore

\* It moves up when the first event is taken; if that one turns the engine
\* off, the engine is off now.
LEMMA OffBeforeMovesUp ==
    ASSUME TypeOK, NEW n \in Nat, OffBefore(n + 1), bridge # <<>>, bridge' = Tail(bridge),
           enabled' => enabled, focused' => focused,
           bridge[1].kind \in {"FocusOut", "Disable"} => ~ (enabled' /\ focused')
    PROVE  OffBefore(n)'
<1>1. CASE ~ (enabled /\ focused)
  BY <1>1 DEF OffBefore
<1>2. ASSUME NEW j \in 1..Len(bridge), j < n + 1, bridge[j].kind \in {"FocusOut", "Disable"}
      PROVE  OffBefore(n)'
  <2>1. /\ Len(bridge') = Len(bridge) - 1
        /\ Len(bridge) \in Nat \ {0}
        /\ \A i \in 1..Len(bridge') : bridge'[i] = bridge[i + 1]
    BY QueueShrinks DEF TypeOK
  <2>2. CASE j = 1
    BY <1>2, <2>2 DEF OffBefore
  <2>3. CASE j # 1
    <3>1. j - 1 \in 1..Len(bridge') /\ j - 1 < n /\ bridge'[j - 1] = bridge[j]
      BY <1>2, <2>1, <2>3
    <3>2. QED
      BY <1>2, <3>1 DEF OffBefore
  <2>4. QED
    BY <2>2, <2>3
<1>3. QED
  BY <1>1, <1>2 DEF OffBefore

\* OffWhenUnwanted after the first event was taken.
LEMMA TakingKeepsOff ==
    ASSUME TypeOK, OffWhenUnwanted, bridge # <<>>, bridge' = Tail(bridge), loop = "running",
           enabled' => enabled, focused' => focused,
           bridge[1].kind \in {"FocusOut", "Disable"} => ~ (enabled' /\ focused'),
           UNCHANGED <<wants, unwanted>>
    PROVE  OffWhenUnwanted'
<1>1. /\ Len(bridge') = Len(bridge) - 1
      /\ Len(bridge) \in Nat \ {0}
      /\ \A i \in 1..Len(bridge') : bridge'[i] = bridge[i + 1]
  BY QueueShrinks DEF TypeOK
<1>2. \A n \in Nat : OffBefore(n + 1) => OffBefore(n)'
  BY OffBeforeMovesUp
<1>3. ~ (wants.enabled /\ wants.focused) => OffBefore(Len(bridge) + 1)'
  <2>1. SUFFICES ASSUME ~ (wants.enabled /\ wants.focused)
                 PROVE  OffBefore(Len(bridge) + 1)'
    OBVIOUS
  <2>2. OffBefore(Len(bridge) + 1)
    BY <2>1 DEF OffWhenUnwanted
  <2>3. PICK n \in Nat : n = Len(bridge)
    BY <1>1
  <2>4. OffBefore(n)'
    BY <1>2, <2>2, <2>3
  <2>5. QED
    BY <1>1, <2>3, <2>4 DEF OffBefore
<1>4. ASSUME NEW i \in 1..Len(bridge'), bridge'[i].kind = "IBusKey", bridge'[i].key \in unwanted
      PROVE  OffBefore(i)'
  <2>1. i + 1 \in 1..Len(bridge) /\ bridge[i + 1] = bridge'[i] /\ i \in Nat
    BY <1>1
  <2>2. OffBefore(i + 1)
    BY <1>4, <2>1 DEF OffWhenUnwanted
  <2>3. QED
    BY <1>2, <2>1, <2>2
<1>5. QED
  BY <1>3, <1>4 DEF OffWhenUnwanted

LEMMA OffStays == TypeOK /\ QueuedOnce /\ ReplyIsResult /\ Off /\ [Next]_vars => Off'
<1> SUFFICES ASSUME TypeOK, QueuedOnce, ReplyIsResult, Off, [Next]_vars PROVE Off'
  OBVIOUS
<1> USE KeysAssumption DEF Off
<1>0. Len(bridge) \in Nat
  BY DEF TypeOK
<1>1. ASSUME NEW k \in Keys, ProcessKeyEvent(k) PROVE Off'
  <2> USE <1>1
  <2>1. /\ ~ Called(k) /\ result[k] = "none"
        /\ UNCHANGED <<wants, loop, enabled, focused, result>>
        /\ unwanted' = IF wants.enabled /\ wants.focused THEN unwanted ELSE unwanted \cup {k}
    BY DEF ProcessKeyEvent, Served, Called, ReplyIsResult, TypeOK, engineVars
  <2>2. UnwantedKeysPass' /\ UnwantedWereCalled'
    <3>1. k \in {waiting'} \/ answer'[k] # "none"
      BY DEF ProcessKeyEvent, TypeOK
    <3>2. \A j \in Keys : Called(j) => Called(j)'
      BY DEF ProcessKeyEvent, Called, TypeOK, Served
    <3>3. QED
      BY <2>1, <3>1, <3>2 DEF UnwantedKeysPass, UnwantedWereCalled, Called, TypeOK
  <2>3. \A i \in 1..Len(bridge) : bridge[i].kind = "IBusKey" => bridge[i].key # k
    BY <2>1 DEF QueuedOnce
  <2>4. CASE loop = "running"
    <3>1. /\ Len(bridge') = Len(bridge) + 1
          /\ \A i \in 1..Len(bridge) : bridge'[i] = bridge[i]
          /\ bridge'[Len(bridge) + 1] = KeyEvent(k)
      BY <2>4, QueueGrows DEF ProcessKeyEvent, TypeOK, Events
    <3>2. \A n \in Nat : OffBefore(n) => OffBefore(n)'
      BY <1>0, <2>1, <3>1, OffBeforeStays
    <3>3. ~ (wants.enabled /\ wants.focused) => OffBefore(Len(bridge) + 1)
      BY <2>4 DEF OffWhenUnwanted
    <3>4. ~ (wants.enabled /\ wants.focused) => OffBefore(Len(bridge) + 1)'
      BY <1>0, <2>1, <3>1, <3>3 DEF OffBefore
    <3>5. ASSUME NEW i \in 1..Len(bridge'), bridge'[i].kind = "IBusKey",
                 bridge'[i].key \in unwanted'
          PROVE  OffBefore(i)'
      <4>1. CASE i \in 1..Len(bridge)
        <5>1. bridge[i].kind = "IBusKey" /\ bridge[i].key \in unwanted
          BY <2>1, <2>3, <3>1, <3>5, <4>1
        <5>2. OffBefore(i)
          BY <4>1, <5>1 DEF OffWhenUnwanted
        <5>3. QED
          BY <1>0, <3>2, <4>1, <5>2
      <4>2. CASE i = Len(bridge) + 1
        <5>1. k \in unwanted'
          BY <3>1, <3>5, <4>2 DEF KeyEvent
        <5>2. OffBefore(Len(bridge) + 1)
          <6>1. CASE ~ (wants.enabled /\ wants.focused)
            BY <3>3, <6>1
          \* Only a key that was called before can be unwanted already.
          <6>2. CASE wants.enabled /\ wants.focused /\ k \in unwanted
            BY <2>1, <6>2 DEF UnwantedWereCalled
          <6>3. QED
            BY <2>1, <5>1, <6>1, <6>2
        <5>3. QED
          BY <1>0, <3>2, <4>2, <5>2
      <4>3. QED
        BY <1>0, <3>1, <4>1, <4>2
    <3>6. OffWhenUnwanted'
      BY <2>1, <3>4, <3>5 DEF OffWhenUnwanted
    <3>7. QED
      BY <2>2, <3>6
  <2>5. CASE loop # "running"
    <3>1. UNCHANGED bridge
      BY <2>5 DEF ProcessKeyEvent
    <3>2. OffWhenUnwanted'
      BY <2>1, <2>3, <2>5, <3>1 DEF OffWhenUnwanted, OffBefore
    <3>3. QED
      BY <2>2, <3>2
  <2>6. QED
    BY <2>4, <2>5
<1>2. CASE KeyEventReturns \/ KeyEventTimesOut
  <2>1. UNCHANGED <<bridge, loop, enabled, focused, result, wants, unwanted>>
    BY <1>2 DEF KeyEventReturns, KeyEventTimesOut, engineVars
  <2>2. OffWhenUnwanted' /\ UnwantedKeysPass'
    BY <2>1 DEF OffWhenUnwanted, OffBefore, UnwantedKeysPass
  <2>3. \A j \in Keys : Called(j) => Called(j)'
    BY <1>2 DEF KeyEventReturns, KeyEventTimesOut, Called, TypeOK
  <2>4. QED
    BY <2>1, <2>2, <2>3 DEF UnwantedWereCalled, TypeOK
<1>3. ASSUME NEW kind \in {"FocusOut", "Reset", "Disable"}, SendReset(kind) PROVE Off'
  <2> USE <1>3
  <2>1. /\ UNCHANGED <<loop, enabled, focused, result, unwanted, waiting, answer>>
        /\ wants' = [enabled |-> wants.enabled /\ kind # "Disable",
                     focused |-> wants.focused /\ kind # "FocusOut"]
    BY DEF SendReset, engineVars
  <2>2. UnwantedKeysPass' /\ UnwantedWereCalled'
    BY <2>1 DEF UnwantedKeysPass, UnwantedWereCalled, Called
  <2>3. CASE loop = "running"
    <3>1. /\ Len(bridge') = Len(bridge) + 1
          /\ \A i \in 1..Len(bridge) : bridge'[i] = bridge[i]
          /\ bridge'[Len(bridge) + 1] = ResetEvent(kind)
      BY <2>3, QueueGrows DEF SendReset, TypeOK, Events
    <3>2. \A n \in Nat : OffBefore(n) => OffBefore(n)'
      BY <1>0, <2>1, <3>1, OffBeforeStays
    <3>3. ~ (wants'.enabled /\ wants'.focused) => OffBefore(Len(bridge) + 2)'
      <4>1. CASE ~ (wants.enabled /\ wants.focused)
        <5>1. OffBefore(Len(bridge) + 1)
          BY <2>3, <4>1 DEF OffWhenUnwanted
        <5>2. QED
          BY <1>0, <2>1, <3>1, <5>1 DEF OffBefore
      <4>2. CASE kind \in {"FocusOut", "Disable"}
        BY <1>0, <3>1, <4>2 DEF OffBefore, ResetEvent
      <4>3. QED
        BY <2>1, <4>1, <4>2
    <3>4. ASSUME NEW i \in 1..Len(bridge'), bridge'[i].kind = "IBusKey",
                 bridge'[i].key \in unwanted'
          PROVE  OffBefore(i)'
      <4>1. i \in 1..Len(bridge)
        BY <1>0, <3>1, <3>4 DEF ResetEvent
      <4>2. OffBefore(i)
        BY <2>1, <3>1, <3>4, <4>1 DEF OffWhenUnwanted
      <4>3. QED
        BY <1>0, <3>2, <4>1, <4>2
    <3>5. OffWhenUnwanted'
      BY <1>0, <3>1, <3>3, <3>4 DEF OffWhenUnwanted, OffBefore
    <3>6. QED
      BY <2>2, <3>5
  <2>4. CASE loop # "running"
    <3>1. UNCHANGED bridge
      BY <2>4 DEF SendReset
    <3>2. OffWhenUnwanted'
      BY <2>1, <2>4, <3>1 DEF OffWhenUnwanted, OffBefore
    <3>3. QED
      BY <2>2, <3>2
  <2>5. QED
    BY <2>3, <2>4
<1>4. CASE FocusInOrEnable
  <2>1. /\ UNCHANGED <<bridge, loop, enabled, focused, result, unwanted, waiting, answer>>
        /\ ~ (wants'.enabled /\ wants'.focused) => ~ (wants.enabled /\ wants.focused)
    BY <1>4 DEF FocusInOrEnable, engineVars, TypeOK
  <2>2. QED
    BY <2>1 DEF OffWhenUnwanted, OffBefore, UnwantedKeysPass, UnwantedWereCalled, Called
<1>5. CASE HandleKey
  <2>1. /\ loop = "running" /\ bridge # <<>> /\ bridge' = Tail(bridge)
        /\ Head(bridge) = bridge[1] /\ bridge[1].kind = "IBusKey" /\ 1 \in 1..Len(bridge)
        /\ UNCHANGED <<focused, wants, unwanted, waiting, answer>>
    BY <1>5, QueueShrinks DEF HandleKey, LoopRuns, TypeOK
  <2>2. PICK r \in Results :
           /\ r = "Consumed" => enabled /\ focused
           /\ result' = [result EXCEPT ![bridge[1].key] = r]
           /\ UNCHANGED enabled \/ Dispatch
    BY <1>5, <2>1 DEF HandleKey
  <2>3. enabled' => enabled
    BY <2>2 DEF Dispatch
  <2>4. OffWhenUnwanted'
    BY <2>1, <2>3, TakingKeepsOff
  <2>5. bridge[1].key \in unwanted => r # "Consumed"
    \* No event comes before the first one.
    <3>1. OffBefore(1) => ~ (enabled /\ focused)
      BY <1>0 DEF OffBefore
    <3>2. QED
      BY <2>1, <2>2, <3>1 DEF OffWhenUnwanted
  <2>6. UnwantedKeysPass'
    BY <2>1, <2>2, <2>5 DEF UnwantedKeysPass, TypeOK
  <2>7. QED
    BY <2>1, <2>4, <2>6 DEF UnwantedWereCalled, Called
<1>6. CASE HandleReset
  <2>1. /\ loop = "running" /\ bridge # <<>> /\ bridge' = Tail(bridge)
        /\ Head(bridge) = bridge[1]
        /\ UNCHANGED <<wants, unwanted, waiting, answer, result>>
    BY <1>6, QueueShrinks DEF HandleReset, LoopRuns, TypeOK, serviceVars
  <2>2. /\ enabled' => enabled
        /\ focused' => focused
        /\ bridge[1].kind \in {"FocusOut", "Disable"} => ~ (enabled' /\ focused')
    BY <1>6, <2>1 DEF HandleReset
  <2>3. OffWhenUnwanted'
    BY <2>1, <2>2, TakingKeepsOff
  <2>4. QED
    BY <2>1, <2>3 DEF UnwantedKeysPass, UnwantedWereCalled, Called
<1>7. CASE ReceiveShutdown \/ ReceiveDisconnected \/ LoopPanics
  <2>1. LeaveLoop
    BY <1>7 DEF ReceiveShutdown, ReceiveDisconnected, LoopPanics
  <2>2. /\ bridge' = <<>> /\ Len(bridge') = 0 /\ loop' # "running"
        /\ UNCHANGED <<result, unwanted, waiting, answer>>
    BY <2>1 DEF LeaveLoop
  <2>3. QED
    BY <2>2 DEF OffWhenUnwanted, UnwantedKeysPass, UnwantedWereCalled, Called
<1>8. CASE DropEngine
  <2>1. /\ loop # "running" /\ loop' # "running"
        /\ UNCHANGED <<bridge, enabled, focused, result, wants, unwanted, waiting, answer>>
    BY <1>8 DEF DropEngine, serviceVars
  <2>2. QED
    BY <2>1 DEF OffWhenUnwanted, OffBefore, UnwantedKeysPass, UnwantedWereCalled, Called
<1>9. CASE WorkerStep \/ MainStep \/ HandleOutput \/ UNCHANGED vars
  BY <1>9, OthersKeepCalls DEF CallVars, OffWhenUnwanted, OffBefore, UnwantedKeysPass,
                               UnwantedWereCalled, Called
<1>10. QED
  BY <1>1, <1>2, <1>3, <1>4, <1>5, <1>6, <1>7, <1>8, <1>9 DEF Next, ServiceStep, LoopStep

-----------------------------------------------------------------------------

\* The inductive invariant of the process: a queued key is unhandled and its
\* caller waits or has timed out, the answer on its way is the engine's result,
\* and whatever the daemon turned off is off by the time a later key is handled.
THEOREM ProcessInvariance == Spec => []IInv
<1>1. IInv /\ [Next]_vars => IInv'
  BY TypeCorrect, BreakerHolds, AnswersStay, OffStays DEF IInv, Answers, Off
<1>2. QED
  BY <1>1, InitInvariant, PTL DEF Spec

\* Types are kept and the breaker of the worker stops at its limit, for every
\* size of the channels.
THEOREM ProcessTypes == Spec => []TypeOK
<1>1. IInv => TypeOK
  BY DEF IInv
<1>2. QED
  BY <1>1, ProcessInvariance, PTL

\* The daemon is told that a key was consumed only if the engine consumed it:
\* an answer never reaches the call of another key, late as it may be.
THEOREM NoKeyIsLost == Spec => []ConsumedWasHandled
<1>1. IInv => ConsumedWasHandled
  BY DEF IInv
<1>2. QED
  BY <1>1, ProcessInvariance, PTL

\* No key sent while the daemon has the engine disabled or unfocused is
\* consumed, whatever is queued in front of it.
THEOREM NoUnwantedKeyIsConsumed == Spec => []UnwantedKeysPass
<1>1. IInv => UnwantedKeysPass
  BY DEF IInv
<1>2. QED
  BY <1>1, ProcessInvariance, PTL

=============================================================================
