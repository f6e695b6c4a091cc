----------------------------- MODULE RankerPort -----------------------------
(***************************************************************************)
(* The ranker worker in an open system: what it may do with any ranker that *)
(* keeps the port's contract, while an engine sends requests, fires their   *)
(* tokens and takes the answers at any time.  The engine is reduced to what *)
(* its proofs establish (EngineKeepsItsSide of ConversionProofs): ids grow, *)
(* and a request that replaces one still pending fires its token.           *)
(***************************************************************************)
EXTENDS RankerWorker

CONSTANT Readings   \* the preedits requests are sent for

ASSUME ReadingAssumption == Readings \subseteq KanaString

VARIABLE issued     \* requests sent so far

portVars == <<workerVars, channelVars, issued>>

PortTypeOK ==
    /\ ChannelsTypeOK
    /\ WorkerTypeOK
    /\ issued \in 0..MaxRequests

PortInit ==
    /\ ChannelsInit
    /\ WorkerInit
    /\ issued = 0

-----------------------------------------------------------------------------

\* cancel_active comes first: the last request is told to stop, unless it has
\* been given up already, and then the worker is done with it.
SendRequest ==
    /\ issued < MaxRequests
    /\ connected
    /\ issued' = issued + 1
    /\ \/ issued # 0 /\ cancelled' = cancelled \cup {issued}
       \/ issued \notin PendingIds /\ UNCHANGED cancelled
    /\ \E kana \in Readings, mode \in Modes :
         requests' = Append(requests, [id |-> issued + 1, kana |-> kana, mode |-> mode])
    /\ UNCHANGED <<connected, events, workerVars>>

\* The worker is gone: the request is lost, and its token fires with the last.
SendFails ==
    /\ issued < MaxRequests
    /\ ~connected
    /\ issued' = issued + 1
    /\ \E dropped \in SUBSET ({issued} \ {None}) :
         cancelled' = cancelled \cup dropped \cup {issued + 1}
    /\ UNCHANGED <<connected, requests, events, workerVars>>

\* Focus, reset, disable or a commit: the token fires without a new request.
FireToken ==
    /\ issued # 0
    /\ issued \notin cancelled
    /\ cancelled' = cancelled \cup {issued}
    /\ UNCHANGED <<connected, requests, events, issued, workerVars>>

TakeEvent ==
    /\ events # <<>>
    /\ events' = Tail(events)
    /\ UNCHANGED <<connected, requests, cancelled, issued, workerVars>>

EngineSide == SendRequest \/ SendFails \/ FireToken \/ TakeEvent

PortNext ==
    \/ EngineSide
    \/ WorkerNext /\ UNCHANGED issued

PortSpec == PortInit /\ [][PortNext]_portVars

=============================================================================
