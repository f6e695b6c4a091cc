---------------------------- MODULE RankerProofs ----------------------------
(***************************************************************************)
(* The hybrid ranker below the worker, for any number of requests and of    *)
(* threads that run on beside each other, any backends and any limits: the  *)
(* worker never learns that its ranker is not an ideal one.  The invariant  *)
(* says of every thread what it has found and pushed where it stands, and   *)
(* that only the job's own sink is in use.                                  *)
(***************************************************************************)
EXTENDS RankedWorker, FiniteSetTheorems, SequenceTheorems, TLAPS

\* What a thread may have collected, before and after the model's answer.
FirstRows == {DictionaryRows(dict, user) : dict \in Answers["sudachi"], user \in Answers["vocab"]}

AllRows == {WithModelRows(rows, llm) : rows \in FirstRows, llm \in Answers["model"]}

Lists == {MergeRows(rows, hits, TopK) : rows \in FirstRows \cup AllRows, hits \in HitSets}

Ranking == [kana : KanaString, list : Lists]

Finding == [kana : KanaString,
            rows : {{}} \cup FirstRows \cup AllRows,
            hits : {{}} \cup HitSets]

\* The breaker has not tripped while the thread of the worker runs.
PortInv ==
    /\ PortTypeOK
    /\ phase \notin {"leaving", "exited"} => panics < PanicLimit

\* Requests are queued in the order of their ids, behind the job.
QueueInv ==
    /\ \A i \in DOMAIN requests : requests[i].id \leq issued
    /\ \A i, j \in DOMAIN requests : i < j => requests[i].id < requests[j].id
    /\ Working => job.id \leq issued /\ \A i \in DOMAIN requests : job.id < requests[i].id

ThreadTypes ==
    /\ thread \in [RequestIds -> ThreadStates]
    /\ found \in [RequestIds -> Finding]
    /\ sent \in [RequestIds -> Seq(Ranking)]
    /\ hasLlm \in BOOLEAN
    /\ late \in [RequestIds -> Nat]

\* No thread before its request has been received and rank() called.
StartInv ==
    /\ \A id \in RequestIds : id > issued => thread[id] = "none"
    /\ \A i \in DOMAIN requests : thread[requests[i].id] = "none"
    /\ phase = "rank" => thread[job.id] = "none"

\* What a thread holds is what its place says, for the reading of its request.
FoundAt(id) ==
    /\ thread[id] \in {"asked", "merged", "push", "pushed", "model"}
         => found[id].rows \in FirstRows /\ found[id].hits \in HitSets
    /\ thread[id] \in {"answered", "pushAgain"}
         => found[id].rows \in AllRows /\ found[id].hits \in HitSets
    /\ Working /\ job.id = id /\ thread[id] \notin {"none", "ended"}
         => found[id].kana = job.kana

\* Only the sink of the job holds anything, and only for the job's reading.
SinkAt(id) ==
    sent[id] # <<>> => /\ Working /\ job.id = id
                       /\ \A i \in DOMAIN sent[id] : sent[id][i].kana = job.kana

BeforeFirst == {"none", "entry", "dictionaries", "asked", "merged", "push"}

\* How many pushes, and how many of them late, have come from each place.  A
\* late push leaves a token behind that has fired, which the next look sees.
PushAt(id) ==
    /\ thread[id] \in BeforeFirst => sent[id] = <<>> /\ late[id] = 0
    /\ thread[id] = "pushed" => /\ Len(sent[id]) \leq 1 /\ late[id] \leq 1
                                /\ late[id] = 1 => IsCancelled(id)
    /\ thread[id] \in {"model", "answered", "pushAgain"} => Len(sent[id]) \leq 1 /\ late[id] = 0
    /\ thread[id] = "ended" => Len(sent[id]) \leq 2 /\ late[id] \leq 1

FoundInv == \A id \in RequestIds : FoundAt(id)

SinkInv == \A id \in RequestIds : SinkAt(id)

PushInv == \A id \in RequestIds : PushAt(id)

\* The worker has received the first `pushes` rankings of the job's sink.
WindowInv ==
    /\ phase \in {"first", "second"} => pushes \leq Len(sent[job.id])
    /\ phase \notin {"first", "second"} => pushes = 0 /\ buffer = <<>> /\ second = <<>>
    /\ phase = "first" => second = <<>> /\ (pushes = 0 => buffer = <<>>)
    /\ phase = "second" /\ pushes = 0 => buffer = <<>> /\ second = <<>>
    /\ WindowHoldsOwn

RInv ==
    /\ PortInv
    /\ QueueInv
    /\ ThreadTypes
    /\ StartInv
    /\ FoundInv
    /\ SinkInv
    /\ PushInv
    /\ WindowInv

-----------------------------------------------------------------------------

\* Every ranking a thread can push is a push of the port.
LEMMA ListsArePushes == \A list \in Lists : Replacement(list) \in Pushes
<1> SUFFICES ASSUME NEW rows \in FirstRows \cup AllRows, NEW hits \in HitSets
             PROVE  Replacement(MergeRows(rows, hits, TopK)) \in Pushes
  BY DEF Lists
<1>1. CASE rows \in FirstRows
  BY <1>1, PortAssumption DEF FirstRows
<1>2. CASE rows \in AllRows
  BY <1>2, PortAssumption DEF FirstRows, AllRows
<1>3. QED
  BY <1>1, <1>2

\* The rows the worker makes of a ranking.
LEMMA RowsTyped ==
    ASSUME NEW ranking \in Ranking
    PROVE  /\ RowsOf(ranking) \in Seq(Candidate)
           /\ \A i \in DOMAIN RowsOf(ranking) : RowsOf(ranking)[i].reading = ranking.kana
<1> DEFINE rows == Replacement(ranking.list).rows
<1>1. ranking.kana \in KanaString /\ ranking.list \in Lists
  BY DEF Ranking
<1>2. Replacement(ranking.list) \in Pushes
  BY <1>1, ListsArePushes
<1>3. rows \in Seq(Surfaces)
  BY <1>2, PushAssumption
<1>4. RowsOf(ranking) = [i \in DOMAIN rows |-> [reading |-> ranking.kana, surface |-> rows[i]]]
  BY DEF RowsOf, CandidatesFor
<1> HIDE DEF rows
<1>5. RowsOf(ranking) = [i \in 1..Len(rows) |-> [reading |-> ranking.kana, surface |-> rows[i]]]
  BY <1>3, <1>4
<1>6. \A i \in 1..Len(rows) : [reading |-> ranking.kana, surface |-> rows[i]] \in Candidate
  BY <1>1, <1>3 DEF Candidate
<1>7. RowsOf(ranking) \in Seq(Candidate)
  BY <1>3, <1>5, <1>6
<1>8. QED
  BY <1>3, <1>5, <1>7

\* An id of a request is no id of none.
LEMMA NoJobHasNoId == RInv => (Working => job # NoJob /\ job.id \in RequestIds)
<1> SUFFICES ASSUME RInv, Working PROVE job # NoJob /\ job.id \in RequestIds
  OBVIOUS
<1>1. job \in RankRequest
  BY DEF RInv, PortInv, PortTypeOK, WorkerTypeOK
<1>2. job.id \in RequestIds
  BY <1>1 DEF RankRequest
<1>3. QED
  BY <1>2, RequestBound DEF NoJob, None, RequestIds

\* In the initial state nothing has happened.
LEMMA InitRInv == Init => RInv
<1> SUFFICES ASSUME Init PROVE RInv
  OBVIOUS
<1> USE RequestBound, LimitAssumption, MaxPushesAssumption
    DEF Init, PortInit, ChannelsInit, WorkerInit, RankerInit
<1>1. ~ Working
  BY DEF Working
<1>2. PortInv
  <2>1. ChannelsTypeOK
    BY DEF ChannelsTypeOK
  <2>2. WorkerTypeOK
    BY <1>1 DEF WorkerTypeOK
  <2>3. QED
    BY <2>1, <2>2 DEF PortInv, PortTypeOK
<1>3. QueueInv
  BY <1>1 DEF QueueInv
<1>4. ThreadTypes
  <2>1. NothingFound \in Finding
    BY DEF NothingFound, Finding, KanaString
  <2>2. QED
    BY <2>1 DEF ThreadTypes, ThreadStates, Continue
<1>5. StartInv
  BY <1>1 DEF StartInv
<1>6. FoundInv /\ SinkInv
  BY DEF FoundInv, SinkInv, FoundAt, SinkAt
<1>7. PushInv
  BY DEF PushInv, PushAt, BeforeFirst
<1>8. WindowInv
  BY DEF WindowInv, WindowHoldsOwn
<1>9. QED
  BY <1>2, <1>3, <1>4, <1>5, <1>6, <1>7, <1>8 DEF RInv

-----------------------------------------------------------------------------
(***************************************************************************)
(* The engine's side: requests and tokens.                                  *)
(***************************************************************************)

\* Tokens may fire at any time: no part of the invariant minds.
LEMMA TokensFire ==
    ASSUME RInv, UNCHANGED <<workerVars, rankerVars>>, cancelled \subseteq cancelled'
    PROVE  ThreadTypes' /\ FoundInv' /\ SinkInv' /\ PushInv' /\ WindowInv'
<1> USE DEF RInv, workerVars, rankerVars
<1>1. Working' = Working
  BY DEF Working
<1>2. ThreadTypes'
  BY DEF ThreadTypes
<1>3. FoundInv' /\ SinkInv'
  BY <1>1 DEF FoundInv, SinkInv, FoundAt, SinkAt
<1>4. PushInv'
  BY DEF PushInv, PushAt, IsCancelled
<1>5. WindowInv'
  BY DEF WindowInv, WindowHoldsOwn
<1>6. QED
  BY <1>2, <1>3, <1>4, <1>5

LEMMA EngineSideRInv ==
    ASSUME RInv, EngineSide, UNCHANGED rankerVars
    PROVE  RInv'
<1> USE RequestBound DEF RInv
<1>0. /\ requests \in Seq(RankRequest) /\ issued \in 0..MaxRequests
      /\ cancelled \subseteq RequestIds /\ events \in Seq(WorkerOutput) /\ connected \in BOOLEAN
      /\ WorkerTypeOK
  BY DEF PortInv, PortTypeOK, ChannelsTypeOK
<1>00. issued # 0 => issued \in RequestIds
  BY <1>0 DEF RequestIds
<1>1. UNCHANGED workerVars
  BY DEF EngineSide, SendRequest, SendFails, FireToken, TakeEvent
<1>2. Working' = Working
  BY <1>1 DEF Working, workerVars
<1>3. WorkerTypeOK'
  BY <1>0, <1>1, <1>2 DEF WorkerTypeOK, workerVars
<1>4. cancelled \subseteq cancelled'
  BY DEF EngineSide, SendRequest, SendFails, FireToken, TakeEvent
<1>5. ThreadTypes' /\ FoundInv' /\ SinkInv' /\ PushInv' /\ WindowInv'
  BY <1>1, <1>4, TokensFire
<1>6. CASE SendRequest
  <2>1. PICK kana \in Readings, mode \in Modes :
          requests' = Append(requests, [id |-> issued + 1, kana |-> kana, mode |-> mode])
    BY <1>6 DEF SendRequest
  <2> DEFINE request == [id |-> issued + 1, kana |-> kana, mode |-> mode]
  <2>2. issued + 1 \in RequestIds /\ issued' = issued + 1
    BY <1>0, <1>6 DEF SendRequest, RequestIds
  <2>3. request \in RankRequest
    BY <2>2, ReadingAssumption DEF RankRequest
  <2>4. requests' = Append(requests, request)
    BY <2>1
  <2>5. request.id = issued + 1
    OBVIOUS
  <2> HIDE DEF request
  <2>6. /\ requests' \in Seq(RankRequest)
        /\ DOMAIN requests' = 1..(Len(requests) + 1) /\ DOMAIN requests = 1..Len(requests)
        /\ requests'[Len(requests) + 1] = request
        /\ \A i \in DOMAIN requests : requests'[i] = requests[i]
    BY <1>0, <2>3, <2>4
  <2>7. cancelled' \subseteq RequestIds
    <3>1. cancelled' \in {cancelled, cancelled \cup {issued}} /\ (cancelled' # cancelled => issued # 0)
      BY <1>6 DEF SendRequest
    <3>2. QED
      BY <1>0, <1>00, <3>1
  <2>8. PortInv'
    <3>1. ChannelsTypeOK'
      BY <1>0, <1>6, <2>6, <2>7 DEF ChannelsTypeOK, SendRequest
    <3>2. issued' \in 0..MaxRequests
      BY <2>2 DEF RequestIds
    <3>3. QED
      BY <1>1, <1>3, <3>1, <3>2 DEF PortInv, PortTypeOK, workerVars
  <2>9. \A i \in DOMAIN requests : requests[i] \in RankRequest /\ requests[i].id \in RequestIds
    <3>1. \A i \in DOMAIN requests : requests[i] \in RankRequest
      BY <1>0
    <3>2. QED
      BY <3>1 DEF RankRequest
  <2>10. QueueInv'
    <3>1. \A i \in DOMAIN requests' : requests'[i].id \leq issued'
      BY <1>0, <2>2, <2>5, <2>6, <2>9 DEF QueueInv, RequestIds
    <3>2. \A i, j \in DOMAIN requests' : i < j => requests'[i].id < requests'[j].id
      <4> SUFFICES ASSUME NEW i \in DOMAIN requests', NEW j \in DOMAIN requests', i < j
                   PROVE  requests'[i].id < requests'[j].id
        OBVIOUS
      <4>1. i \in DOMAIN requests
        BY <1>0, <2>6
      <4>2. CASE j \in DOMAIN requests
        BY <4>1, <4>2, <2>6 DEF QueueInv
      <4>3. CASE j = Len(requests) + 1
        BY <1>0, <4>1, <4>3, <2>5, <2>6, <2>9 DEF QueueInv, RequestIds
      <4>4. QED
        BY <1>0, <2>6, <4>2, <4>3
    <3>3. Working => job.id \in RequestIds
      BY NoJobHasNoId
    <3>4. Working' => job'.id \leq issued' /\ \A i \in DOMAIN requests' : job'.id < requests'[i].id
      BY <1>0, <1>1, <1>2, <2>2, <2>5, <2>6, <2>9, <3>3 DEF QueueInv, RequestIds, workerVars
    <3>5. QED
      BY <3>1, <3>2, <3>4 DEF QueueInv
  <2>11. StartInv'
    <3>1. thread' = thread /\ phase' = phase /\ job' = job
      BY <1>1 DEF workerVars, rankerVars
    <3>2. thread[issued + 1] = "none"
      BY <1>0, <2>2 DEF StartInv
    <3>3. \A id \in RequestIds : id > issued' => thread'[id] = "none"
      BY <1>0, <2>2, <3>1 DEF StartInv, RequestIds
    <3>4. \A i \in DOMAIN requests' : thread'[requests'[i].id] = "none"
      BY <1>0, <2>5, <2>6, <3>1, <3>2 DEF StartInv
    <3>5. QED
      BY <3>1, <3>3, <3>4 DEF StartInv
  <2>12. QED
    BY <1>5, <2>8, <2>10, <2>11
<1>7. CASE FireToken \/ TakeEvent
  <2>1. UNCHANGED <<requests, issued, connected>>
    BY <1>7 DEF FireToken, TakeEvent
  <2>2. cancelled' \subseteq RequestIds
    <3>1. cancelled' \in {cancelled, cancelled \cup {issued}} /\ (cancelled' # cancelled => issued # 0)
      BY <1>7 DEF FireToken, TakeEvent
    <3>2. QED
      BY <1>0, <1>00, <3>1
  <2>3. events' \in Seq(WorkerOutput)
    <3>1. CASE FireToken
      BY <1>0, <3>1 DEF FireToken
    <3>2. CASE TakeEvent
      BY <1>0, <3>2 DEF TakeEvent
    <3>3. QED
      BY <1>7, <3>1, <3>2
  <2>4. PortInv'
    BY <1>0, <1>1, <1>3, <2>1, <2>2, <2>3 DEF PortInv, PortTypeOK, ChannelsTypeOK, workerVars
  <2>5. QueueInv' /\ StartInv'
    BY <1>1, <1>2, <2>1 DEF QueueInv, StartInv, workerVars, rankerVars
  <2>6. QED
    BY <1>5, <2>4, <2>5
<1>8. CASE SendFails
  <2>1. UNCHANGED <<requests, events, connected>> /\ issued' = issued + 1
    BY <1>8 DEF SendFails
  <2>2. issued + 1 \in RequestIds /\ issued' \in 0..MaxRequests
    BY <1>0, <1>8, <2>1 DEF SendFails, RequestIds
  <2>3. cancelled' \subseteq cancelled \cup {issued + 1} \cup ({issued} \ {0})
    BY <1>8 DEF SendFails, None
  <2>4. cancelled' \subseteq RequestIds
    BY <1>0, <1>00, <2>2, <2>3
  <2>5. PortInv'
    BY <1>0, <1>1, <1>3, <2>1, <2>2, <2>4 DEF PortInv, PortTypeOK, ChannelsTypeOK, workerVars
  <2>6. \A i \in DOMAIN requests : requests[i].id \in RequestIds
    <3>1. \A i \in DOMAIN requests : requests[i] \in RankRequest
      BY <1>0
    <3>2. QED
      BY <3>1 DEF RankRequest
  <2>7. Working => job.id \in RequestIds
    BY NoJobHasNoId
  <2>8. QueueInv'
    BY <1>0, <1>1, <1>2, <2>1, <2>6, <2>7 DEF QueueInv, RequestIds, workerVars
  <2>9. StartInv'
    BY <1>0, <1>1, <2>1 DEF StartInv, RequestIds, workerVars, rankerVars
  <2>10. QED
    BY <1>5, <2>5, <2>8, <2>9
<1>9. QED
  BY <1>6, <1>7, <1>8 DEF EngineSide

-----------------------------------------------------------------------------
(***************************************************************************)
(* The threads.                                                             *)
(***************************************************************************)

\* A thread that runs is that of a request which rank() was called for.
LEMMA ThreadMoves ==
    ASSUME RInv, NEW id \in RequestIds, NEW where \in ThreadStates, thread[id] # "none",
           thread' = [thread EXCEPT ![id] = where], UNCHANGED portVars
    PROVE  /\ PortInv' /\ QueueInv' /\ StartInv' /\ Working' = Working
           /\ thread' \in [RequestIds -> ThreadStates] /\ thread'[id] = where
           /\ \A x \in RequestIds : x # id => thread'[x] = thread[x]
<1> USE DEF RInv, portVars, workerVars, channelVars
<1>1. Working' = Working
  BY DEF Working
<1>2. PortInv' /\ QueueInv'
  BY <1>1 DEF PortInv, PortTypeOK, ChannelsTypeOK, WorkerTypeOK, QueueInv
<1>3. thread \in [RequestIds -> ThreadStates]
  BY DEF ThreadTypes
<1>4. /\ thread' \in [RequestIds -> ThreadStates] /\ thread'[id] = where
      /\ \A x \in RequestIds : x # id => thread'[x] = thread[x]
  BY <1>3
<1>5. \A i \in DOMAIN requests : requests[i].id \in RequestIds
  <2>1. requests \in Seq(RankRequest)
    BY DEF PortInv, PortTypeOK, ChannelsTypeOK
  <2>2. \A i \in DOMAIN requests : requests[i] \in RankRequest
    BY <2>1
  <2>3. QED
    BY <2>2 DEF RankRequest
<1>6. phase = "rank" => job.id \in RequestIds
  BY NoJobHasNoId DEF Working
<1>7. StartInv'
  BY <1>4, <1>5, <1>6 DEF StartInv
<1>8. QED
  BY <1>1, <1>2, <1>4, <1>7

\* A step that pushes nothing leaves the sinks and the window alone.
LEMMA QuietThread ==
    ASSUME RInv, NEW id \in RequestIds, NEW where \in ThreadStates, thread[id] # "none",
           thread' = [thread EXCEPT ![id] = where], UNCHANGED <<portVars, sent, hasLlm, late>>,
           NEW finding \in Finding, found' = [found EXCEPT ![id] = finding],
           FoundAt(id)', PushAt(id)'
    PROVE  RInv'
<1> USE DEF RInv
<1>1. /\ PortInv' /\ QueueInv' /\ StartInv' /\ Working' = Working
      /\ thread' \in [RequestIds -> ThreadStates]
      /\ \A x \in RequestIds : x # id => thread'[x] = thread[x]
  BY ThreadMoves
<1>2. /\ found' \in [RequestIds -> Finding]
      /\ \A x \in RequestIds : x # id => found'[x] = found[x]
  BY DEF ThreadTypes
<1>3. ThreadTypes'
  BY <1>1, <1>2 DEF ThreadTypes
<1>4. UNCHANGED <<job, phase, buffer, second, pushes, cancelled>>
  BY DEF portVars, workerVars, channelVars
<1>5. FoundInv'
  BY <1>1, <1>2, <1>4 DEF FoundInv, FoundAt
<1>6. SinkInv'
  BY <1>1, <1>4 DEF SinkInv, SinkAt
<1>7. PushInv'
  BY <1>1, <1>4 DEF PushInv, PushAt, IsCancelled
<1>8. WindowInv'
  BY <1>4 DEF WindowInv, WindowHoldsOwn
<1>9. QED
  BY <1>1, <1>3, <1>5, <1>6, <1>7, <1>8

\* A thread that ends holds nothing.
LEMMA NothingIsAFinding == NothingFound \in Finding
  BY DEF NothingFound, Finding, KanaString

\* The look at the token: no push follows one that finds it fired.
LEMMA CheckTokenRInv ==
    ASSUME RInv, NEW id \in RequestIds, CheckToken(id)
    PROVE  RInv'
<1> USE DEF CheckToken
<1>0. thread[id] \in ThreadStates /\ found[id] \in Finding /\ late[id] \in Nat /\ found \in [RequestIds -> Finding]
  BY DEF RInv, ThreadTypes
<1>1. thread[id] \in {"entry", "asked", "merged", "pushed", "answered"}
  BY DEF Continue
<1>2. FoundAt(id) /\ PushAt(id)
  BY DEF RInv, FoundInv, PushInv
<1>3. UNCHANGED <<portVars, sent, hasLlm, late, job, phase, cancelled>> /\ Working' = Working
  BY DEF portVars, workerVars, channelVars, Working
<1>4. CASE IsCancelled(id)
  <2>1. thread' = [thread EXCEPT ![id] = "ended"] /\ found' = [found EXCEPT ![id] = NothingFound]
    BY <1>4 DEF Leave
  <2>2. thread'[id] = "ended"
    BY <2>1 DEF RInv, ThreadTypes
  <2>3. FoundAt(id)'
    BY <2>2 DEF FoundAt
  <2>4. PushAt(id)'
    BY <1>0, <1>1, <1>2, <1>3, <2>2 DEF PushAt, BeforeFirst
  <2>5. QED
    BY <1>1, <1>3, <2>1, <2>3, <2>4, NothingIsAFinding, QuietThread DEF ThreadStates
<1>5. CASE ~ IsCancelled(id)
  <2> DEFINE where == Continue[thread[id]]
  <2>1. thread' = [thread EXCEPT ![id] = where] /\ found' = found
    BY <1>5 DEF GoOn
  <2>2. /\ thread[id] = "entry" => where = "dictionaries"
        /\ thread[id] = "asked" => where = "merged"
        /\ thread[id] = "merged" => where = "push"
        /\ thread[id] = "pushed" => where = "model"
        /\ thread[id] = "answered" => where = "pushAgain"
    BY DEF Continue
  <2> HIDE DEF where
  <2>3. where \in ThreadStates /\ thread'[id] = where
    BY <1>1, <2>1, <2>2 DEF ThreadStates, RInv, ThreadTypes
  <2>4. found' = [found EXCEPT ![id] = found[id]]
    BY <1>0, <2>1
  <2>5. FoundAt(id)'
    BY <1>1, <1>2, <1>3, <2>1, <2>2, <2>3 DEF FoundAt
  <2>6. PushAt(id)'
    BY <1>0, <1>1, <1>2, <1>3, <1>5, <2>2, <2>3 DEF PushAt, BeforeFirst
  <2>7. QED
    BY <1>0, <1>1, <1>3, <2>1, <2>3, <2>4, <2>5, <2>6, QuietThread
<1>6. QED
  BY <1>4, <1>5

\* The answers of the backends, and the ends of a thread without a push.
LEMMA AskRInv ==
    ASSUME RInv, NEW id \in RequestIds,
           AskDictionaries(id) \/ AskModel(id) \/ ModelFails(id) \/ ThreadPanics(id)
    PROVE  RInv'
<1>0. thread[id] \in ThreadStates /\ found[id] \in Finding /\ late[id] \in Nat /\ found \in [RequestIds -> Finding]
  BY DEF RInv, ThreadTypes
<1>1. FoundAt(id) /\ PushAt(id)
  BY DEF RInv, FoundInv, PushInv
<1>2. /\ UNCHANGED <<portVars, sent, hasLlm, late, job, phase, cancelled>> /\ Working' = Working
      /\ thread[id] \in {"dictionaries", "model"}
  BY DEF portVars, workerVars, channelVars, Working, AskDictionaries, AskModel, ModelFails, ThreadPanics
<1>3. CASE AskDictionaries(id)
  <2>1. PICK dict \in Answers["sudachi"], user \in Answers["vocab"], hits \in HitSets :
          found' = [found EXCEPT ![id] = [kana |-> found[id].kana, rows |-> DictionaryRows(dict, user),
                                          hits |-> hits]]
    BY <1>3 DEF AskDictionaries
  <2> DEFINE rows == DictionaryRows(dict, user)
             finding == [kana |-> found[id].kana, rows |-> rows, hits |-> hits]
  <2>2. rows \in FirstRows
    BY DEF FirstRows
  <2>3. found' = [found EXCEPT ![id] = finding]
    BY <2>1
  <2> HIDE DEF rows
  <2>5. finding \in Finding /\ finding.kana = found[id].kana /\ finding.rows = rows /\ finding.hits = hits
    BY <1>0, <2>2 DEF Finding
  <2> HIDE DEF finding
  <2>6. found' = [found EXCEPT ![id] = finding] /\ thread' = [thread EXCEPT ![id] = "asked"]
    BY <1>3, <2>3 DEF AskDictionaries
  <2>7. found'[id] = finding /\ thread'[id] = "asked" /\ thread[id] = "dictionaries"
    BY <1>0, <1>3, <2>6 DEF RInv, ThreadTypes, AskDictionaries
  <2>8. FoundAt(id)'
    BY <1>1, <1>2, <2>2, <2>5, <2>7 DEF FoundAt
  <2>9. PushAt(id)'
    BY <1>1, <1>2, <2>7 DEF PushAt, BeforeFirst
  <2>10. QED
    BY <1>2, <2>5, <2>6, <2>8, <2>9, QuietThread DEF ThreadStates, Continue
<1>4. CASE AskModel(id)
  <2>1. PICK llm \in Answers["model"] :
          found' = [found EXCEPT ![id].rows = WithModelRows(@, llm)]
    BY <1>4 DEF AskModel
  <2> DEFINE rows == WithModelRows(found[id].rows, llm)
             finding == [kana |-> found[id].kana, rows |-> rows, hits |-> found[id].hits]
  <2>2. found[id].rows \in FirstRows /\ found[id].hits \in HitSets /\ thread[id] = "model"
    BY <1>1, <1>4 DEF FoundAt, AskModel
  <2>3. rows \in AllRows
    BY <2>2 DEF AllRows
  <2>4. found' = [found EXCEPT ![id] = [found[id] EXCEPT !.rows = rows]]
    BY <2>1
  <2> HIDE DEF rows
  <2>5. [found[id] EXCEPT !.rows = rows] = finding
    BY <1>0 DEF Finding
  <2>6. /\ finding \in Finding /\ finding.kana = found[id].kana /\ finding.rows = rows
        /\ finding.hits = found[id].hits
    BY <1>0, <2>3 DEF Finding
  <2> HIDE DEF finding
  <2>7. found' = [found EXCEPT ![id] = finding] /\ thread' = [thread EXCEPT ![id] = "answered"]
    BY <1>4, <2>4, <2>5 DEF AskModel
  <2>8. found'[id] = finding /\ thread'[id] = "answered"
    BY <1>0, <2>7 DEF RInv, ThreadTypes
  <2>9. FoundAt(id)'
    BY <1>1, <1>2, <2>2, <2>3, <2>6, <2>8 DEF FoundAt
  <2>10. PushAt(id)'
    BY <1>1, <1>2, <2>2, <2>8 DEF PushAt, BeforeFirst
  <2>11. QED
    BY <1>2, <2>6, <2>7, <2>9, <2>10, QuietThread DEF ThreadStates, Continue
<1>5. CASE ModelFails(id) \/ ThreadPanics(id)
  <2>1. thread' = [thread EXCEPT ![id] = "ended"] /\ found' = [found EXCEPT ![id] = NothingFound]
    BY <1>5 DEF ModelFails, ThreadPanics, Leave
  <2>2. thread'[id] = "ended"
    BY <2>1 DEF RInv, ThreadTypes
  <2>3. FoundAt(id)'
    BY <2>2 DEF FoundAt
  <2>4. PushAt(id)'
    BY <1>0, <1>1, <1>2, <2>2 DEF PushAt, BeforeFirst
  <2>5. QED
    BY <1>2, <2>1, <2>3, <2>4, NothingIsAFinding, QuietThread DEF ThreadStates
<1>6. QED
  BY <1>3, <1>4, <1>5

\* A push: into the sink of the thread's own request, while the job is that one.
LEMMA PushRInv ==
    ASSUME RInv, NEW id \in RequestIds, PushDictionaries(id) \/ PushCombined(id)
    PROVE  RInv'
<1>0. /\ thread \in [RequestIds -> ThreadStates] /\ found \in [RequestIds -> Finding]
      /\ sent \in [RequestIds -> Seq(Ranking)] /\ late \in [RequestIds -> Nat]
  BY DEF RInv, ThreadTypes
<1>1. FoundAt(id) /\ PushAt(id) /\ SinkAt(id)
  BY DEF RInv, FoundInv, PushInv, SinkInv
<1>2. /\ UNCHANGED <<portVars, hasLlm, job, phase, buffer, second, pushes, cancelled>>
      /\ Working' = Working /\ thread[id] \in {"push", "pushAgain"}
  BY DEF portVars, workerVars, channelVars, Working, PushDictionaries, PushCombined
<1>3. PICK where \in {"pushed", "ended"} :
        /\ thread' = [thread EXCEPT ![id] = where]
        /\ where = "pushed" => thread[id] = "push"
        /\ found' = [found EXCEPT ![id] = IF where = "ended" THEN NothingFound ELSE found[id]]
        /\ where = "pushed" => SinkOpen(id)
  <2>1. CASE Leave(id)
    BY <2>1 DEF Leave
  <2>2. CASE GoOn(id, "pushed") /\ thread[id] = "push" /\ SinkOpen(id)
    BY <1>0, <2>2 DEF GoOn
  <2>3. QED
    BY <2>1, <2>2 DEF PushDictionaries, PushCombined
<1>4. where \in ThreadStates /\ (IF where = "ended" THEN NothingFound ELSE found[id]) \in Finding
  BY <1>0, NothingIsAFinding DEF ThreadStates, Continue
<1>5. /\ PortInv' /\ QueueInv' /\ StartInv'
      /\ thread' \in [RequestIds -> ThreadStates] /\ thread'[id] = where
      /\ \A x \in RequestIds : x # id => thread'[x] = thread[x]
  <2>1. thread[id] # "none"
    BY <1>2
  <2>2. thread' = [thread EXCEPT ![id] = where] /\ UNCHANGED portVars
    BY <1>2, <1>3
  <2>3. QED
    BY <1>4, <2>1, <2>2, ThreadMoves
<1>6. /\ found' \in [RequestIds -> Finding]
      /\ where = "pushed" => found'[id] = found[id]
      /\ \A x \in RequestIds : x # id => found'[x] = found[x]
  BY <1>0, <1>3, <1>4
<1>7. FoundInv'
  <2>1. FoundAt(id)'
    BY <1>1, <1>2, <1>3, <1>5, <1>6 DEF FoundAt
  <2>2. \A x \in RequestIds : x # id => FoundAt(x)'
    BY <1>2, <1>5, <1>6 DEF RInv, FoundInv, FoundAt
  <2>3. QED
    BY <2>1, <2>2 DEF FoundInv
<1>8. CASE SinkOpen(id)
  <2> DEFINE ranking == [kana |-> found[id].kana,
                         list |-> MergeRows(found[id].rows, found[id].hits, TopK)]
  <2>1. ranking \in Ranking
    <3>1. found[id].rows \in FirstRows \cup AllRows /\ found[id].hits \in HitSets
      BY <1>1, <1>2 DEF FoundAt
    <3>2. found[id].kana \in KanaString
      BY <1>0 DEF Finding
    <3>3. QED
      BY <3>1, <3>2 DEF Ranking, Lists
  <2>2. ranking.kana = job.kana /\ Working /\ job.id = id
    BY <1>1, <1>2, <1>8 DEF FoundAt, SinkOpen, SinkOf
  <2>3. /\ sent' = [sent EXCEPT ![id] = Append(sent[id], ranking)]
        /\ late' = [late EXCEPT ![id] = IF IsCancelled(id) THEN late[id] + 1 ELSE late[id]]
    BY <1>0, <1>8 DEF PushDictionaries, PushCombined, Push, SinkOf
  <2> HIDE DEF ranking
  <2>4. /\ sent[id] \in Seq(Ranking) /\ Len(sent[id]) \in Nat
        /\ sent'[id] = Append(sent[id], ranking) /\ Append(sent[id], ranking) \in Seq(Ranking)
        /\ \A x \in RequestIds : x # id => sent'[x] = sent[x]
    BY <1>0, <2>1, <2>3
  <2>5. /\ Len(sent'[id]) = Len(sent[id]) + 1 /\ DOMAIN sent'[id] = 1..(Len(sent[id]) + 1)
        /\ sent'[id][Len(sent[id]) + 1] = ranking
        /\ \A i \in 1..Len(sent[id]) : sent'[id][i] = sent[id][i]
    BY <2>1, <2>4
  <2>6. /\ late[id] \in Nat /\ late' \in [RequestIds -> Nat]
        /\ late'[id] = IF IsCancelled(id) THEN late[id] + 1 ELSE late[id]
        /\ \A x \in RequestIds : x # id => late'[x] = late[x]
    BY <1>0, <2>3
  <2>7. ThreadTypes'
    <3>1. sent' \in [RequestIds -> Seq(Ranking)]
      BY <1>0, <2>3, <2>4
    <3>2. QED
      BY <1>2, <1>5, <1>6, <2>6, <3>1 DEF RInv, ThreadTypes
  <2>8. SinkInv'
    <3>1. SinkAt(id)'
      BY <1>1, <1>2, <2>2, <2>4, <2>5 DEF SinkAt
    <3>2. \A x \in RequestIds : x # id => SinkAt(x)'
      BY <1>2, <2>4 DEF RInv, SinkInv, SinkAt
    <3>3. QED
      BY <3>1, <3>2 DEF SinkInv
  <2>9. PushInv'
    <3>1. PushAt(id)'
      <4>1. CASE thread[id] = "push"
        <5>1. sent[id] = <<>> /\ late[id] = 0
          BY <1>1, <4>1 DEF PushAt, BeforeFirst
        <5>2. Len(sent'[id]) = 1 /\ late'[id] \leq 1 /\ (late'[id] = 1 => IsCancelled(id)')
          BY <1>2, <2>5, <2>6, <5>1 DEF IsCancelled
        <5>3. QED
          BY <1>5, <5>2 DEF PushAt, BeforeFirst
      <4>2. CASE thread[id] = "pushAgain"
        <5>1. Len(sent[id]) \leq 1 /\ late[id] = 0
          BY <1>1, <4>2 DEF PushAt
        <5>2. where = "ended" /\ Len(sent'[id]) \leq 2 /\ late'[id] \leq 1
          BY <1>3, <2>4, <2>5, <2>6, <4>2, <5>1
        <5>3. QED
          BY <1>5, <5>2 DEF PushAt, BeforeFirst
      <4>3. QED
        BY <1>2, <4>1, <4>2
    <3>2. \A x \in RequestIds : x # id => PushAt(x)'
      BY <1>2, <1>5, <2>4, <2>6 DEF RInv, PushInv, PushAt, IsCancelled
    <3>3. QED
      BY <3>1, <3>2 DEF PushInv
  <2>10. WindowInv'
    <3>1. WindowInv /\ pushes \in Nat
      BY MaxPushesAssumption DEF RInv, PortInv, PortTypeOK, WorkerTypeOK
    <3>2. phase \in {"first", "second"} => pushes \leq Len(sent'[job.id])
      BY <1>2, <2>2, <2>4, <2>5, <3>1 DEF WindowInv
    <3>3. /\ pushes > 0 /\ phase \in {"first", "second"} => sent'[job.id][pushes] = sent[job.id][pushes]
          /\ phase \notin {"first", "second"} => pushes = 0
      BY <2>2, <2>4, <2>5, <3>1 DEF WindowInv
    <3>4. WindowHoldsOwn'
      BY <1>2, <3>1, <3>3 DEF WindowInv, WindowHoldsOwn
    <3>5. QED
      BY <1>2, <3>1, <3>2, <3>4 DEF WindowInv
  <2>11. QED
    BY <1>5, <1>7, <2>7, <2>8, <2>9, <2>10 DEF RInv
<1>9. CASE ~ SinkOpen(id)
  <2>1. UNCHANGED <<sent, late>> /\ where = "ended"
    BY <1>3, <1>9 DEF PushDictionaries, PushCombined
  <2>2. PushAt(id)'
    BY <1>0, <1>1, <1>2, <1>5, <2>1 DEF PushAt, BeforeFirst
  <2>3. FoundAt(id)'
    BY <1>7 DEF FoundInv
  <2>4. thread[id] # "none" /\ "ended" \in ThreadStates
    BY <1>2 DEF ThreadStates
  <2>5. thread' = [thread EXCEPT ![id] = "ended"] /\ found' = [found EXCEPT ![id] = NothingFound]
    BY <1>3, <2>1
  <2>6. QED
    BY <1>2, <2>1, <2>2, <2>3, <2>4, <2>5, NothingIsAFinding, QuietThread
<1>10. QED
  BY <1>8, <1>9

-----------------------------------------------------------------------------
(***************************************************************************)
(* The worker.                                                              *)
(***************************************************************************)

\* What the type invariant says of the queue, of the job and of the windows.
LEMMA PortFacts ==
    ASSUME RInv
    PROVE  /\ requests \in Seq(RankRequest) /\ events \in Seq(WorkerOutput)
           /\ connected \in BOOLEAN /\ cancelled \subseteq RequestIds /\ issued \in 0..MaxRequests
           /\ phase \in {"recv", "rank", "first", "second", "leaving", "exited"}
           /\ buffer \in Seq(Candidate) /\ second \in Seq(Candidate)
           /\ pushes \in 0..MaxPushes /\ panics \in 0..PanicLimit
           /\ Working => job \in RankRequest
           /\ \A i \in DOMAIN requests : requests[i] \in RankRequest /\ requests[i].id \in RequestIds
<1>1. /\ requests \in Seq(RankRequest) /\ events \in Seq(WorkerOutput)
      /\ connected \in BOOLEAN /\ cancelled \subseteq RequestIds /\ issued \in 0..MaxRequests
      /\ phase \in {"recv", "rank", "first", "second", "leaving", "exited"}
      /\ buffer \in Seq(Candidate) /\ second \in Seq(Candidate)
      /\ pushes \in 0..MaxPushes /\ panics \in 0..PanicLimit
      /\ Working => job \in RankRequest
  BY DEF RInv, PortInv, PortTypeOK, ChannelsTypeOK, WorkerTypeOK
<1>2. \A i \in DOMAIN requests : requests[i] \in RankRequest
  BY <1>1
<1>3. QED
  BY <1>1, <1>2 DEF RankRequest

LEMMA ReceiveRInv ==
    ASSUME RInv, WorkerReceive, CloseSink, UNCHANGED <<issued, thread, found, hasLlm, late>>
    PROVE  RInv'
<1> USE PortFacts
<1>1. /\ requests # <<>> /\ job' = Head(requests) /\ requests' = Tail(requests)
      /\ phase = "recv" /\ phase' = "rank"
      /\ UNCHANGED <<buffer, second, pushes, panics, connected, events, cancelled, issued, thread,
                     found, hasLlm, late>>
  BY DEF WorkerReceive
<1>2. ~ Working /\ Working'
  BY <1>1 DEF Working
<1>3. sent' = sent
  BY <1>2 DEF CloseSink
<1>4. /\ 1 \in DOMAIN requests /\ job' = requests[1] /\ job' \in RankRequest /\ job'.id \in RequestIds
      /\ requests' \in Seq(RankRequest)
      /\ \A i \in DOMAIN requests' : i + 1 \in DOMAIN requests /\ requests'[i] = requests[i + 1] /\ i \in Nat /\ i \geq 1
  BY <1>1
<1>5. PortInv'
  BY <1>1, <1>2, <1>4 DEF RInv, PortInv, PortTypeOK, ChannelsTypeOK, WorkerTypeOK
<1>6. QueueInv'
  <2>1. \A i \in DOMAIN requests' : requests'[i].id \leq issued' /\ job'.id < requests'[i].id
    BY <1>1, <1>4 DEF RInv, QueueInv
  <2>2. \A i, j \in DOMAIN requests' : i < j => requests'[i].id < requests'[j].id
    <3> SUFFICES ASSUME NEW i \in DOMAIN requests', NEW j \in DOMAIN requests', i < j
                 PROVE  requests'[i].id < requests'[j].id
      OBVIOUS
    <3>1. /\ i + 1 \in DOMAIN requests /\ j + 1 \in DOMAIN requests /\ i + 1 < j + 1
          /\ requests'[i] = requests[i + 1] /\ requests'[j] = requests[j + 1]
      BY <1>4
    <3>2. QED
      BY <3>1 DEF RInv, QueueInv
  <2>3. job'.id \leq issued'
    BY <1>1, <1>4 DEF RInv, QueueInv
  <2>4. QED
    BY <2>1, <2>2, <2>3 DEF QueueInv
<1>7. ThreadTypes'
  BY <1>1, <1>3 DEF RInv, ThreadTypes
<1>8. StartInv'
  BY <1>1, <1>4 DEF RInv, StartInv
<1>9. thread[job'.id] = "none"
  BY <1>1, <1>4 DEF RInv, StartInv
<1>10. FoundInv'
  BY <1>1, <1>9 DEF RInv, FoundInv, FoundAt
<1>11. \A id \in RequestIds : sent[id] = <<>>
  BY <1>2 DEF RInv, SinkInv, SinkAt
<1>12. SinkInv' /\ PushInv'
  BY <1>1, <1>3, <1>11 DEF RInv, SinkInv, SinkAt, PushInv, PushAt, IsCancelled
<1>13. WindowInv'
  BY <1>1 DEF RInv, WindowInv, WindowHoldsOwn
<1>14. QED
  BY <1>5, <1>6, <1>7, <1>8, <1>10, <1>12, <1>13 DEF RInv

\* rank() starts the thread of the job and returns.
LEMMA SpawnRInv ==
    ASSUME RInv, RankSpawns
    PROVE  RInv'
<1> USE PortFacts
<1>1. /\ phase = "rank" /\ phase' = "first" /\ job.id \in RequestIds /\ Working /\ Working'
      /\ UNCHANGED <<job, buffer, second, pushes, panics, channelVars, sent, hasLlm, late, issued>>
  BY NoJobHasNoId DEF RankSpawns, RankReturns, Working
<1>2. UNCHANGED <<requests, events, connected, cancelled>>
  BY <1>1 DEF channelVars
<1>3. /\ thread \in [RequestIds -> ThreadStates] /\ found \in [RequestIds -> Finding]
      /\ sent \in [RequestIds -> Seq(Ranking)]
  BY DEF RInv, ThreadTypes
<1>4. /\ thread' \in [RequestIds -> ThreadStates] /\ thread'[job.id] = "entry"
      /\ \A id \in RequestIds : id # job.id => thread'[id] = thread[id]
  BY <1>1, <1>3 DEF RankSpawns, ThreadStates, Continue
<1>5. /\ found' \in [RequestIds -> Finding] /\ found'[job.id].kana = job.kana
      /\ \A id \in RequestIds : id # job.id => found'[id] = found[id]
  <2> DEFINE finding == [found[job.id] EXCEPT !.kana = job.kana]
  <2>1. found' = [found EXCEPT ![job.id] = finding]
    BY DEF RankSpawns
  <2>2. job.kana \in KanaString
    BY <1>1 DEF RankRequest
  <2>3. finding \in Finding /\ finding.kana = job.kana
    BY <1>1, <1>3, <2>2 DEF Finding
  <2> HIDE DEF finding
  <2>4. QED
    BY <1>1, <1>3, <2>1, <2>3
<1>6. PortInv'
  BY <1>1, <1>2 DEF RInv, PortInv, PortTypeOK, ChannelsTypeOK, WorkerTypeOK
<1>7. QueueInv'
  BY <1>1, <1>2 DEF RInv, QueueInv
<1>8. ThreadTypes'
  BY <1>1, <1>4, <1>5 DEF RInv, ThreadTypes
<1>9. StartInv'
  <2>1. job.id \leq issued /\ \A i \in DOMAIN requests : requests[i].id # job.id
    BY <1>1 DEF RInv, QueueInv, RequestIds
  <2>2. \A id \in RequestIds : id > issued' => thread'[id] = "none"
    BY <1>1, <1>4, <2>1, RequestBound DEF RInv, StartInv, RequestIds
  <2>3. \A i \in DOMAIN requests' : thread'[requests'[i].id] = "none"
    BY <1>2, <1>4, <2>1 DEF RInv, StartInv
  <2>4. QED
    BY <1>1, <2>2, <2>3 DEF StartInv
<1>10. FoundInv'
  BY <1>1, <1>4, <1>5 DEF RInv, FoundInv, FoundAt
<1>11. SinkInv'
  BY <1>1 DEF RInv, SinkInv, SinkAt
<1>12. PushInv'
  <2>1. thread[job.id] = "none"
    BY <1>1 DEF RInv, StartInv
  <2>2. QED
    BY <1>1, <1>2, <1>4, <2>1 DEF RInv, PushInv, PushAt, BeforeFirst, IsCancelled
<1>13. WindowInv'
  <2>1. pushes = 0 /\ buffer = <<>> /\ second = <<>>
    BY <1>1 DEF RInv, WindowInv
  <2>2. Len(sent[job.id]) \in Nat
    BY <1>1, <1>3
  <2>3. QED
    BY <1>1, <2>1, <2>2 DEF WindowInv, WindowHoldsOwn
<1>14. QED
  BY <1>6, <1>7, <1>8, <1>9, <1>10, <1>11, <1>12, <1>13 DEF RInv

\* A window takes the next ranking of the job's sink.
LEMMA DrainRInv ==
    ASSUME RInv, DrainSink
    PROVE  RInv' /\ TakePush
<1> USE PortFacts
<1>0. /\ Working /\ job.id \in RequestIds /\ phase \in {"first", "second"} /\ pushes' = pushes + 1
      /\ pushes < Len(sent[job.id]) /\ ~ IsCancelled(job.id)
      /\ UNCHANGED <<phase, job, panics, connected, requests, events, cancelled, issued,
                     thread, found, sent, hasLlm, late>>
  BY NoJobHasNoId DEF DrainSink, Working, channelVars, rankerVars
<1>1. sent[job.id] \in Seq(Ranking) /\ Len(sent[job.id]) \in Nat /\ pushes \in Nat
  BY <1>0, MaxPushesAssumption DEF RInv, ThreadTypes
<1>2. Len(sent[job.id]) \leq 2
  BY <1>0, <1>1 DEF RInv, ThreadTypes, PushInv, PushAt, BeforeFirst, ThreadStates, Continue
<1>3. pushes < MaxPushes
  BY <1>0, <1>1, <1>2, MaxPushesAssumption, PortAssumption
<1>4. PICK ranking \in Ranking : ranking = sent[job.id][pushes + 1] /\ ranking.kana = job.kana
  <2>1. pushes + 1 \in 1..Len(sent[job.id])
    BY <1>0, <1>1
  <2>2. sent[job.id][pushes + 1] \in Ranking
    BY <1>1, <2>1
  <2>3. sent[job.id] # <<>> /\ pushes + 1 \in DOMAIN sent[job.id]
    BY <1>1, <2>1
  <2>4. sent[job.id][pushes + 1].kana = job.kana
    BY <1>0, <2>3 DEF RInv, SinkInv, SinkAt
  <2>5. QED
    BY <2>2, <2>4
<1> DEFINE rows == RowsOf(ranking)
<1>5. rows \in Seq(Candidate) /\ \A i \in DOMAIN rows : rows[i].reading = job.kana
  BY <1>4, RowsTyped
<1>6. /\ phase = "first" => buffer' = rows /\ second' = second
      /\ phase = "second" => second' = rows /\ buffer' = buffer
  BY <1>4 DEF DrainSink
<1>7. TakePush
  <2> DEFINE push == Replacement(ranking.list)
             update == [kind |-> push.kind, from |-> push.from, to |-> push.to,
                        list |-> CandidatesFor(job.kana, push.rows)]
  <2>1. push \in Pushes
    BY ListsArePushes DEF Ranking
  <2>2. push.kind = "Replace"
    BY DEF Replacement
  <2>3. update.kind = "Replace" /\ update.list = rows
    BY <1>4, <2>2 DEF RowsOf
  <2> HIDE DEF update
  <2>4. Applied(buffer, update) = rows /\ Applied(second, update) = rows
    BY <2>3 DEF Applied
  <2>5. \E q \in Pushes :
          LET u == [kind |-> q.kind, from |-> q.from, to |-> q.to,
                    list |-> CandidatesFor(job.kana, q.rows)]
          IN  IF phase = "first"
              THEN buffer' = Applied(buffer, u) /\ UNCHANGED second
              ELSE second' = Applied(second, u) /\ UNCHANGED buffer
    <3>1. IF phase = "first"
          THEN buffer' = Applied(buffer, update) /\ UNCHANGED second
          ELSE second' = Applied(second, update) /\ UNCHANGED buffer
      BY <1>0, <1>6, <2>4
    <3>2. QED
      BY <2>1, <3>1 DEF update
  <2>6. QED
    BY <1>0, <1>3, <2>5 DEF TakePush, channelVars
<1> HIDE DEF rows
<1>8. buffer' \in Seq(Candidate) /\ second' \in Seq(Candidate) /\ pushes' \in 0..MaxPushes
  BY <1>0, <1>1, <1>3, <1>5, <1>6, MaxPushesAssumption
<1>9. Working' = Working
  BY <1>0 DEF Working
<1>10. PortInv'
  BY <1>0, <1>8, <1>9 DEF RInv, PortInv, PortTypeOK, ChannelsTypeOK, WorkerTypeOK
<1>11. QueueInv' /\ StartInv'
  BY <1>0, <1>9 DEF RInv, QueueInv, StartInv
<1>12. ThreadTypes'
  BY <1>0 DEF RInv, ThreadTypes
<1>13. FoundInv' /\ SinkInv' /\ PushInv'
  BY <1>0, <1>9 DEF RInv, FoundInv, FoundAt, SinkInv, SinkAt, PushInv, PushAt, IsCancelled
<1>14. WindowInv'
  <2>1. rows = RowsOf(sent[job.id][pushes + 1])
    BY <1>4 DEF rows
  <2>2. /\ \A i \in DOMAIN buffer : buffer[i].reading = job.kana
        /\ phase = "first" => second = <<>>
    BY <1>0 DEF RInv, WindowInv, WindowHoldsOwn
  <2>3. WindowHoldsOwn'
    <3>1. sent'[job'.id][pushes'] = sent[job.id][pushes + 1]
      BY <1>0
    <3>2. CASE phase = "first"
      <4>1. phase' = "first" /\ job' = job /\ buffer' = rows /\ second' = <<>>
        BY <1>0, <1>6, <2>2, <3>2
      <4>2. QED
        BY <1>5, <2>1, <3>1, <4>1 DEF WindowHoldsOwn
    <3>3. CASE phase = "second"
      <4>1. phase' = "second" /\ job' = job /\ buffer' = buffer /\ second' = rows
        BY <1>0, <1>6, <3>3
      <4>2. QED
        BY <1>5, <2>1, <2>2, <3>1, <4>1 DEF WindowHoldsOwn
    <3>4. QED
      BY <1>0, <3>2, <3>3
  <2>4. QED
    BY <1>0, <1>1, <1>6, <2>2, <2>3 DEF WindowInv
<1>15. QED
  BY <1>7, <1>10, <1>11, <1>12, <1>13, <1>14 DEF RInv

\* The request is done with: its job, its windows and its sink go.
LEMMA DropRInv ==
    ASSUME RInv, Working, DropJob, CloseSink, UNCHANGED <<issued, thread, found, hasLlm, late>>,
           UNCHANGED <<connected, requests, cancelled>>, events' \in Seq(WorkerOutput),
           phase' \in {"recv", "leaving"}, panics' \in 0..PanicLimit,
           phase' = "recv" => panics' < PanicLimit
    PROVE  RInv'
<1> USE PortFacts
<1>1. job # NoJob /\ job.id \in RequestIds /\ ~ Working'
  BY NoJobHasNoId DEF Working
<1>2. /\ job' = NoJob /\ buffer' = <<>> /\ second' = <<>> /\ pushes' = 0
      /\ sent' = [sent EXCEPT ![job.id] = <<>>]
  BY DEF DropJob, CloseSink
<1>3. sent \in [RequestIds -> Seq(Ranking)]
  BY DEF RInv, ThreadTypes
<1>4. /\ sent' \in [RequestIds -> Seq(Ranking)] /\ sent'[job.id] = <<>>
      /\ \A id \in RequestIds : id # job.id => sent'[id] = sent[id]
  BY <1>1, <1>2, <1>3
<1>5. \A id \in RequestIds : sent'[id] = <<>>
  BY <1>4 DEF RInv, SinkInv, SinkAt
<1>6. PortInv'
  BY <1>1, <1>2, MaxPushesAssumption DEF RInv, PortInv, PortTypeOK, ChannelsTypeOK, WorkerTypeOK
<1>7. QueueInv' /\ StartInv'
  BY <1>1 DEF RInv, QueueInv, StartInv
<1>8. ThreadTypes'
  BY <1>4 DEF RInv, ThreadTypes
<1>9. FoundInv'
  BY <1>1 DEF RInv, FoundInv, FoundAt
<1>10. SinkInv'
  BY <1>5 DEF SinkInv, SinkAt
<1>11. PushInv'
  BY <1>5, EmptySeq DEF RInv, PushInv, PushAt, IsCancelled
<1>12. WindowInv'
  BY <1>2 DEF WindowInv, WindowHoldsOwn
<1>13. QED
  BY <1>6, <1>7, <1>8, <1>9, <1>10, <1>11, <1>12 DEF RInv

\* The worker without the ranker: it receives, closes a window, panics, ends.
LEMMA RunsOnRInv ==
    ASSUME RInv, WorkerRunsOn
    PROVE  RInv'
<1> USE PortFacts, LimitAssumption
<1>0. CloseSink /\ UNCHANGED <<issued, thread, found, hasLlm, late>>
  BY DEF WorkerRunsOn
<1>1. CASE WorkerReceive
  BY <1>0, <1>1, ReceiveRInv
<1>2. ASSUME Working PROVE ErrorEvent(job.id) \in WorkerOutput
  BY <1>2, NoJobHasNoId DEF ErrorEvent, WorkerOutput
<1>3. ASSUME Working, NEW list \in Seq(Candidate) PROVE CandidatesEvent(job.id, list) \in WorkerOutput
  BY <1>3, NoJobHasNoId DEF CandidatesEvent, WorkerOutput
<1>9. events \in Seq(WorkerOutput) /\ buffer \in Seq(Candidate) /\ second \in Seq(Candidate)
  BY DEF RInv, PortInv, PortTypeOK, ChannelsTypeOK, WorkerTypeOK
<1>4. CASE CloseFirstWindow
  <2>1. Working /\ phase = "first" /\ UNCHANGED <<connected, requests, cancelled>>
    BY <1>4 DEF CloseFirstWindow, Working
  <2>2. events' \in Seq(WorkerOutput)
    <3>1. events' \in {events, Append(events, CandidatesEvent(job.id, buffer))}
      BY <1>4 DEF CloseFirstWindow
    <3>2. events \in Seq(WorkerOutput) /\ buffer \in Seq(Candidate)
      BY <1>9
    <3>3. CandidatesEvent(job.id, buffer) \in WorkerOutput
      BY <1>3, <2>1, <3>2
    <3>4. Append(events, CandidatesEvent(job.id, buffer)) \in Seq(WorkerOutput)
      BY <3>2, <3>3
    <3>5. QED
      BY <3>1, <3>2, <3>4
  <2>3. CASE Finish
    BY <1>0, <2>1, <2>2, <2>3, DropRInv DEF Finish
  <2>4. CASE phase' = "second" /\ UNCHANGED <<job, buffer, second, pushes, panics>>
    <3>1. Working' /\ sent' = sent
      BY <1>0, <2>1, <2>4, NoJobHasNoId DEF Working, CloseSink
    <3>2. PortInv'
      BY <1>0, <2>1, <2>2, <2>4, <3>1 DEF RInv, PortInv, PortTypeOK, ChannelsTypeOK, WorkerTypeOK
    <3>3. QueueInv' /\ StartInv' /\ ThreadTypes'
      BY <1>0, <2>1, <2>4, <3>1 DEF RInv, QueueInv, StartInv, ThreadTypes
    <3>4. FoundInv' /\ SinkInv' /\ PushInv'
      BY <1>0, <2>1, <2>4, <3>1
      DEF RInv, FoundInv, FoundAt, SinkInv, SinkAt, PushInv, PushAt, IsCancelled
    <3>5. WindowInv'
      BY <2>1, <2>4, <3>1 DEF RInv, WindowInv, WindowHoldsOwn
    <3>6. QED
      BY <3>2, <3>3, <3>4, <3>5 DEF RInv
  <2>5. QED
    BY <1>4, <2>3, <2>4 DEF CloseFirstWindow
<1>5. CASE CloseSecondWindow
  <2>1. Working /\ Finish /\ UNCHANGED <<connected, requests, cancelled>>
    BY <1>5 DEF CloseSecondWindow, Working
  <2>2. events' \in {events, Append(events, CandidatesEvent(job.id, buffer \o second))}
    BY <1>5 DEF CloseSecondWindow
  <2>3. events' \in Seq(WorkerOutput)
    <3>1. events \in Seq(WorkerOutput) /\ buffer \o second \in Seq(Candidate)
      BY <1>9
    <3>2. CandidatesEvent(job.id, buffer \o second) \in WorkerOutput
      BY <1>3, <2>1, <3>1
    <3>3. Append(events, CandidatesEvent(job.id, buffer \o second)) \in Seq(WorkerOutput)
      BY <3>1, <3>2
    <3>4. QED
      BY <2>2, <3>1, <3>3
  <2>4. QED
    BY <1>0, <2>1, <2>3, DropRInv DEF Finish
<1>6. CASE WorkerPanics
  <2>1. /\ Working /\ DropJob /\ UNCHANGED <<connected, requests, cancelled>>
        /\ phase' \in {"recv", "leaving"} /\ panics' = panics + 1
        /\ phase' = "recv" => panics + 1 < PanicLimit
    BY <1>6 DEF WorkerPanics
  <2>2. panics < PanicLimit
    BY <2>1 DEF RInv, PortInv, Working
  <2>3. events' \in Seq(WorkerOutput)
    BY <1>2, <1>6, <2>1 DEF WorkerPanics
  <2>4. QED
    BY <1>0, <2>1, <2>2, <2>3, DropRInv
<1>7. CASE WorkerExits
  <2>1. /\ phase = "leaving" /\ phase' = "exited" /\ connected' = FALSE /\ requests' = <<>>
        /\ UNCHANGED <<job, buffer, second, pushes, panics, events, cancelled>>
        /\ ~ Working /\ ~ Working'
    BY <1>7 DEF WorkerExits, Working
  <2>2. sent' = sent
    BY <1>0, <2>1 DEF CloseSink
  <2>3. PortInv'
    <3>0. connected' \in BOOLEAN
      BY <2>1
    <3>1. ChannelsTypeOK'
      BY <2>1, <3>0, EmptySeq DEF RInv, PortInv, PortTypeOK, ChannelsTypeOK
    <3>2. job = NoJob
      BY <2>1 DEF RInv, PortInv, PortTypeOK, WorkerTypeOK
    <3>3. WorkerTypeOK'
      BY <2>1, <3>2 DEF RInv, PortInv, PortTypeOK, WorkerTypeOK
    <3>4. QED
      BY <1>0, <2>1, <3>1, <3>3 DEF RInv, PortInv, PortTypeOK
  <2>4. QueueInv' /\ StartInv' /\ ThreadTypes'
    BY <1>0, <2>1, <2>2 DEF RInv, QueueInv, StartInv, ThreadTypes
  <2>5. FoundInv' /\ SinkInv' /\ PushInv'
    BY <1>0, <2>1, <2>2 DEF RInv, FoundInv, FoundAt, SinkInv, SinkAt, PushInv, PushAt, IsCancelled
  <2>6. WindowInv'
    BY <2>1, <2>2 DEF RInv, WindowInv, WindowHoldsOwn
  <2>7. QED
    BY <2>3, <2>4, <2>5, <2>6 DEF RInv
<1>8. QED
  BY <1>1, <1>4, <1>5, <1>6, <1>7 DEF WorkerRunsOn

LEMMA StepRInv == RInv /\ [Next]_vars => RInv'
<1> SUFFICES ASSUME RInv, [Next]_vars PROVE RInv'
  OBVIOUS
<1>1. CASE EngineSide /\ UNCHANGED rankerVars
  BY <1>1, EngineSideRInv
<1>2. CASE WorkerRunsOn
  BY <1>2, RunsOnRInv
<1>3. CASE RankSpawns
  BY <1>3, SpawnRInv
<1>4. CASE DrainSink
  BY <1>4, DrainRInv
<1>5. ASSUME NEW id \in RequestIds, ThreadStep(id) PROVE RInv'
  BY <1>5, CheckTokenRInv, AskRInv, PushRInv DEF ThreadStep
<1>6. CASE UNCHANGED vars
  <2>1. UNCHANGED <<portVars, rankerVars, workerVars, channelVars>>
    BY <1>6 DEF vars, portVars
  <2>2. PortInv' /\ QueueInv' /\ StartInv'
    BY <2>1 DEF RInv, PortInv, PortTypeOK, ChannelsTypeOK, WorkerTypeOK, QueueInv, StartInv, Working,
                portVars, workerVars, channelVars, rankerVars
  <2>3. ThreadTypes' /\ FoundInv' /\ SinkInv' /\ PushInv' /\ WindowInv'
    BY <2>1, TokensFire DEF channelVars
  <2>4. QED
    BY <2>2, <2>3 DEF RInv
<1>7. QED
  BY <1>1, <1>2, <1>3, <1>4, <1>5, <1>6 DEF Next

-----------------------------------------------------------------------------
(***************************************************************************)
(* Theorems.                                                                *)
(***************************************************************************)

\* The inductive invariant holds.
THEOREM RankerInvariance == Spec => []RInv
  BY InitRInv, StepRInv, PTL DEF Spec

\* Types, the bounds of the sinks among them.
THEOREM RankerTypes == Spec => []TypeOK
<1>1. RInv => TypeOK
  <2> SUFFICES ASSUME RInv PROVE TypeOK
    OBVIOUS
  <2>1. /\ thread \in [RequestIds -> ThreadStates] /\ sent \in [RequestIds -> Seq(Ranking)]
        /\ late \in [RequestIds -> Nat]
    BY DEF RInv, ThreadTypes
  <2>2. ASSUME NEW id \in RequestIds PROVE Len(sent[id]) \in 0..2 /\ late[id] \in 0..2
    <3>1. Len(sent[id]) \in Nat /\ late[id] \in Nat /\ thread[id] \in ThreadStates /\ Len(<<>>) = 0
      BY <2>1
    <3>2. PushAt(id)
      BY DEF RInv, PushInv
    <3>3. CASE thread[id] \in BeforeFirst
      BY <3>1, <3>2, <3>3 DEF PushAt
    <3>4. CASE thread[id] \notin BeforeFirst
      <4>1. thread[id] \in {"pushed", "model", "answered", "pushAgain", "ended"}
        BY <3>1, <3>4 DEF BeforeFirst, ThreadStates, Continue
      <4>2. Len(sent[id]) \leq 2 /\ late[id] \leq 1
        BY <3>1, <3>2, <4>1 DEF PushAt
      <4>3. ASSUME NEW n \in Nat, n \leq 2 PROVE n \in 0..2
        BY <4>3
      <4>4. ASSUME NEW n \in Nat, n \leq 1 PROVE n \in 0..2
        BY <4>4
      <4>5. QED
        BY <3>1, <4>2, <4>3, <4>4
    <3>5. QED
      BY <3>3, <3>4
  <2>3. QED
    BY <2>1, <2>2 DEF RInv, PortInv, ThreadTypes, TypeOK
<1>2. QED
  BY <1>1, RankerInvariance, PTL

\* A window holds the last ranking of its own request's thread, whichever other
\* threads run on.
THEOREM WindowsHoldTheirOwn == Spec => []WindowHoldsOwn
<1>1. RInv => WindowHoldsOwn
  BY DEF RInv, WindowInv
<1>2. QED
  BY <1>1, RankerInvariance, PTL

\* A fired token stops its thread within one push.
THEOREM OneLatePush == Spec => []AtMostOneLatePush
<1>1. RInv => AtMostOneLatePush
  <2> SUFFICES ASSUME RInv, NEW id \in RequestIds PROVE late[id] \leq 1
    BY DEF AtMostOneLatePush
  <2>1. thread[id] \in ThreadStates /\ PushAt(id)
    BY DEF RInv, ThreadTypes, PushInv
  <2>2. QED
    BY <2>1 DEF PushAt, BeforeFirst, ThreadStates, Continue
<1>2. QED
  BY <1>1, RankerInvariance, PTL

\* Whatever the threads of the hybrid ranker do, the worker above it behaves as
\* one above a ranker that keeps the port's contract.
THEOREM RankerKeepsThePort == Spec => KeepsThePort
<1>1. Init => PortInit
  BY DEF Init
<1>2. RInv /\ [Next]_vars => [PortNext]_portVars
  <2> SUFFICES ASSUME RInv, [Next]_vars PROVE [PortNext]_portVars
    OBVIOUS
  <2>1. CASE EngineSide
    BY <2>1 DEF PortNext
  <2>2. CASE WorkerRunsOn
    BY <2>2 DEF WorkerRunsOn, WorkerNext, PortNext
  <2>3. CASE RankSpawns
    BY <2>3 DEF RankSpawns, WorkerNext, PortNext
  <2>4. CASE DrainSink
    <3>1. TakePush /\ issued' = issued
      BY <2>4, DrainRInv DEF DrainSink
    <3>2. QED
      BY <3>1 DEF WorkerNext, PortNext
  <2>5. ASSUME NEW id \in RequestIds, ThreadStep(id) PROVE UNCHANGED portVars
    BY <2>5 DEF ThreadStep, CheckToken, AskDictionaries, PushDictionaries, AskModel, ModelFails,
                PushCombined, ThreadPanics
  <2>6. CASE UNCHANGED vars
    BY <2>6 DEF vars
  <2>7. QED
    BY <2>1, <2>2, <2>3, <2>4, <2>5, <2>6 DEF Next
<1>3. QED
  BY <1>1, <1>2, RankerInvariance, PTL DEF Spec, KeepsThePort, PortSpec

-----------------------------------------------------------------------------
(***************************************************************************)
(* What merge_candidates returns.  The rank of a surface is the number of   *)
(* those ahead of it; the ranks of a total order are 0, 1, 2 and so on, so  *)
(* the CHOOSE of TopRows has one surface for each place.                    *)
(***************************************************************************)

\* A relation that puts the elements of a set in a row.
TotalOn(S, R) ==
    /\ \A s \in S : <<s, s>> \notin R
    /\ \A s, t \in S : s # t => <<s, t>> \in R \/ <<t, s>> \in R
    /\ \A s, t, u \in S : <<s, t>> \in R /\ <<t, u>> \in R => <<s, u>> \in R

RankIn(S, R, s) == Cardinality({t \in S : <<t, s>> \in R})

\* Ranks tell elements apart and leave no gap.
LEMMA RanksAreAnInterval ==
    ASSUME NEW S, IsFiniteSet(S), NEW R, TotalOn(S, R)
    PROVE  /\ Cardinality(S) \in Nat
           /\ \A s \in S : RankIn(S, R, s) \in 0..(Cardinality(S) - 1)
           /\ \A s, t \in S : <<s, t>> \in R => RankIn(S, R, s) < RankIn(S, R, t)
           /\ \A i \in 0..(Cardinality(S) - 1) : \E s \in S : RankIn(S, R, s) = i
<1> DEFINE N == Cardinality(S)
           ahead(s) == {t \in S : <<t, s>> \in R}
           rank == [s \in S |-> RankIn(S, R, s)]
           places == 0..(N - 1)
<1>1. N \in Nat
  BY FS_CardinalityType
<1>2. ASSUME NEW s \in S
      PROVE  IsFiniteSet(ahead(s)) /\ Cardinality(ahead(s)) \in Nat
             /\ RankIn(S, R, s) = Cardinality(ahead(s))
  <2>1. ahead(s) \subseteq S /\ RankIn(S, R, s) = Cardinality(ahead(s))
    BY DEF RankIn
  <2> HIDE DEF ahead
  <2>2. IsFiniteSet(ahead(s))
    BY <2>1, FS_Subset
  <2>3. QED
    BY <2>1, <2>2, FS_CardinalityType
<1>3. ASSUME NEW s \in S PROVE rank[s] \in places
  <2>1. ahead(s) \subseteq S \ {s}
    BY DEF TotalOn
  <2>2. IsFiniteSet(S \ {s}) /\ Cardinality(S \ {s}) = N - 1
    BY FS_RemoveElement
  <2> HIDE DEF ahead, N
  <2>3. Cardinality(ahead(s)) <= N - 1
    BY <2>1, <2>2, FS_Subset
  <2>4. QED
    BY <1>1, <1>2, <2>3
<1>4. ASSUME NEW s \in S, NEW t \in S, <<s, t>> \in R
      PROVE  RankIn(S, R, s) < RankIn(S, R, t)
  <2>1. s \notin ahead(s) /\ ahead(s) \cup {s} \subseteq ahead(t)
    BY <1>4 DEF TotalOn
  <2> HIDE DEF ahead
  <2>2. Cardinality(ahead(s) \cup {s}) = Cardinality(ahead(s)) + 1
    BY <1>2, <2>1, FS_AddElement
  <2>3. Cardinality(ahead(s) \cup {s}) <= Cardinality(ahead(t))
    BY <1>2, <2>1, FS_Subset
  <2>4. QED
    BY <1>2, <2>2, <2>3
<1>5. rank \in Injection(S, places)
  <2>1. ASSUME NEW s \in S, NEW t \in S, rank[s] = rank[t] PROVE s = t
    <3>1. RankIn(S, R, s) \in Nat /\ RankIn(S, R, s) = RankIn(S, R, t)
      BY <1>2, <2>1
    <3>2. <<s, t>> \notin R /\ <<t, s>> \notin R
      BY <1>4, <3>1
    <3>3. QED
      BY <3>2 DEF TotalOn
  <2>2. rank \in [S -> places]
    BY <1>3
  <2> HIDE DEF rank, places
  <2>3. QED
    BY <2>1, <2>2 DEF Injection, IsInjective
<1>6. rank \in Surjection(S, places)
  <2>1. IsFiniteSet(places) /\ Cardinality(places) = N
    <3>1. 0 \in Int /\ N - 1 \in Int
      BY <1>1
    <3> HIDE DEF N
    <3>2. /\ IsFiniteSet(0..(N - 1))
          /\ Cardinality(0..(N - 1)) = IF 0 > N - 1 THEN 0 ELSE (N - 1) - 0 + 1
      BY <3>1, FS_Interval
    <3>3. QED
      BY <1>1, <3>2
  <2>2. Cardinality(S) = Cardinality(places)
    BY <2>1
  <2> HIDE DEF rank, places
  <2>3. QED
    BY <1>5, <2>1, <2>2, FS_Injection
<1>7. \A i \in places : \E s \in S : rank[s] = i
  <2> HIDE DEF rank, places
  <2> QED
    BY <1>6 DEF Surjection
<1>8. \A s \in S : RankIn(S, R, s) \in 0..(Cardinality(S) - 1)
  <2> SUFFICES ASSUME NEW s \in S PROVE RankIn(S, R, s) \in 0..(Cardinality(S) - 1)
    OBVIOUS
  <2>1. rank[s] = RankIn(S, R, s)
    OBVIOUS
  <2>2. QED
    BY <1>3, <2>1
<1>9. \A i \in 0..(Cardinality(S) - 1) : \E s \in S : RankIn(S, R, s) = i
  <2> SUFFICES ASSUME NEW i \in 0..(Cardinality(S) - 1)
               PROVE  \E s \in S : RankIn(S, R, s) = i
    OBVIOUS
  <2>1. PICK s \in S : rank[s] = i
    BY <1>7
  <2>2. QED
    BY <2>1
<1>10. QED
  BY <1>1, <1>4, <1>8, <1>9

\* A finite set of integers has a greatest element, which Max returns.
LEMMA MaxExists ==
    ASSUME NEW S \in SUBSET Int, IsFiniteSet(S), S # {}
    PROVE  Max(S) \in S /\ \A x \in S : Max(S) \geq x
<1> DEFINE R == {p \in S \X S : p[1] > p[2]}
<1>1. \A x, y \in S : <<x, y>> \in R <=> x > y
  OBVIOUS
<1>2. \A x \in S : x \in Int
  OBVIOUS
<1> HIDE DEF R
<1>3. TotalOn(S, R)
  BY <1>1, <1>2 DEF TotalOn
<1>4. Cardinality(S) \in Nat /\ Cardinality(S) # 0
  BY FS_CardinalityType, FS_EmptySet
<1>5. PICK m \in S : RankIn(S, R, m) = 0
  <2>1. 0 \in 0..(Cardinality(S) - 1)
    BY <1>4
  <2>2. QED
    BY <1>3, <2>1, RanksAreAnInterval
<1>6. {t \in S : <<t, m>> \in R} = {}
  <2>1. IsFiniteSet({t \in S : <<t, m>> \in R})
    BY FS_Subset
  <2>2. QED
    BY <1>5, <2>1, FS_EmptySet DEF RankIn
<1>7. ASSUME NEW x \in S PROVE m \geq x
  <2>1. <<x, m>> \notin R
    BY <1>6
  <2>2. ~ (x > m) /\ x \in Int /\ m \in Int
    BY <1>1, <1>2, <2>1
  <2>3. QED
    BY <2>2
<1>8. QED
  BY <1>7 DEF Max

\* Scores for surfaces that the order knows.
Scores == UNION {[S -> Int] : S \in {T \in SUBSET Surfaces : IsFiniteSet(T)}}

LEMMA ScoresTyped ==
    ASSUME NEW best \in Scores
    PROVE  /\ IsFiniteSet(DOMAIN best)
           /\ \A s \in DOMAIN best : s \in DOMAIN Order /\ Order[s] \in Nat /\ best[s] \in Int
<1>1. PICK S \in SUBSET Surfaces : IsFiniteSet(S) /\ best \in [S -> Int]
  BY DEF Scores
<1>2. DOMAIN best = S
  BY <1>1
<1>3. DOMAIN Order = Surfaces /\ \A s \in DOMAIN Order : Order[s] \in Nat
  <2>1. DOMAIN Order = Surfaces
    BY AnswerAssumption
  <2>2. \A s \in DOMAIN Order : Order[s] \in Nat
    BY OrderAssumption
  <2>3. QED
    BY <2>1, <2>2
<1>4. QED
  BY <1>1, <1>2, <1>3

\* The ranking order is total on any part of what is ranked.
LEMMA RankingIsTotal ==
    ASSUME NEW best \in Scores, NEW S \in SUBSET DOMAIN best
    PROVE  TotalOn(S, {p \in S \X S : RanksBefore(best, p[1], p[2])})
<1> DEFINE R == {p \in S \X S : RanksBefore(best, p[1], p[2])}
<1>1. \A s, t \in S : <<s, t>> \in R <=> RanksBefore(best, s, t)
  OBVIOUS
<1>2. \A s \in S : s \in DOMAIN Order /\ Order[s] \in Nat /\ best[s] \in Int
  BY ScoresTyped
<1>3. \A s, t \in S : Order[s] = Order[t] => s = t
  BY <1>2, OrderAssumption
<1> HIDE DEF R
<1>4. \A s \in S : <<s, s>> \notin R
  BY <1>1, <1>2 DEF RanksBefore
<1>5. \A s, t \in S : s # t => <<s, t>> \in R \/ <<t, s>> \in R
  BY <1>1, <1>2, <1>3 DEF RanksBefore
<1>6. \A s, t, u \in S : <<s, t>> \in R /\ <<t, u>> \in R => <<s, u>> \in R
  BY <1>1, <1>2 DEF RanksBefore
<1>7. QED
  BY <1>4, <1>5, <1>6 DEF TotalOn, R

\* Ranks among all that is ranked.
LEMMA AheadCounts ==
    ASSUME NEW best \in Scores
    PROVE  /\ Cardinality(DOMAIN best) \in Nat
           /\ \A s \in DOMAIN best : Cardinality(Ahead(best, s)) \in 0..(Cardinality(DOMAIN best) - 1)
           /\ \A s, t \in DOMAIN best :
                RanksBefore(best, s, t) => Cardinality(Ahead(best, s)) < Cardinality(Ahead(best, t))
           /\ \A i \in 0..(Cardinality(DOMAIN best) - 1) :
                \E s \in DOMAIN best : Cardinality(Ahead(best, s)) = i
<1> DEFINE S == DOMAIN best
           R == {p \in S \X S : RanksBefore(best, p[1], p[2])}
<1>1. TotalOn(S, R) /\ IsFiniteSet(S)
  BY RankingIsTotal, ScoresTyped
<1>2. \A s \in S : RankIn(S, R, s) = Cardinality(Ahead(best, s))
  <2> SUFFICES ASSUME NEW s \in S
               PROVE  {t \in S : <<t, s>> \in R} = Ahead(best, s)
    BY DEF RankIn
  <2> QED
    BY DEF Ahead
<1>3. \A s, t \in S : RanksBefore(best, s, t) => <<s, t>> \in R
  OBVIOUS
<1> HIDE DEF S, R
<1>4. /\ Cardinality(S) \in Nat
      /\ \A s \in S : RankIn(S, R, s) \in 0..(Cardinality(S) - 1)
      /\ \A s, t \in S : <<s, t>> \in R => RankIn(S, R, s) < RankIn(S, R, t)
      /\ \A i \in 0..(Cardinality(S) - 1) : \E s \in S : RankIn(S, R, s) = i
  BY <1>1, RanksAreAnInterval
<1>5. QED
  BY <1>2, <1>3, <1>4 DEF S

\* The surfaces TopRows keeps.
Kept(best, topK) == {s \in DOMAIN best : Cardinality(Ahead(best, s)) < topK}

\* The rows of a ranking: one for each surface kept, in the order of the ranks.
LEMMA TopRowsRanked ==
    ASSUME NEW best \in Scores, NEW topK \in Nat
    PROVE  LET list == TopRows(best, topK)
               kept == Kept(best, topK)
           IN  /\ IsFiniteSet(kept) /\ Cardinality(kept) \in Nat /\ Cardinality(kept) <= topK
               /\ DOMAIN list = 1..Cardinality(kept) /\ Len(list) = Cardinality(kept)
               /\ \A i \in DOMAIN list :
                    /\ list[i].surface \in kept
                    /\ list[i].score = best[list[i].surface]
                    /\ Cardinality(Ahead(best, list[i].surface)) = i - 1
               /\ \A s \in kept : \E i \in DOMAIN list : list[i].surface = s
<1> DEFINE list == TopRows(best, topK)
           kept == Kept(best, topK)
           rank(s) == Cardinality(Ahead(best, s))
           at(i) == CHOOSE s \in kept : rank(s) = i - 1
           n == Cardinality(kept)
           R == {p \in kept \X kept : RanksBefore(best, p[1], p[2])}
<1>1. kept \in SUBSET DOMAIN best /\ IsFiniteSet(DOMAIN best)
  BY ScoresTyped DEF Kept
<1>2. IsFiniteSet(kept) /\ n \in Nat
  <2> HIDE DEF kept
  <2> QED
    BY <1>1, FS_Subset, FS_CardinalityType
<1>3. TotalOn(kept, R)
  <2> HIDE DEF kept
  <2> QED
    BY <1>1, RankingIsTotal
<1>4. ASSUME NEW s \in kept PROVE RankIn(kept, R, s) = rank(s) /\ rank(s) \in Nat /\ rank(s) < topK
  <2>1. s \in DOMAIN best /\ rank(s) < topK
    BY DEF Kept
  <2>2. rank(s) \in Nat
    BY <2>1, AheadCounts
  <2>3. ASSUME NEW t \in Ahead(best, s) PROVE t \in kept
    <3>1. t \in DOMAIN best /\ RanksBefore(best, t, s)
      BY DEF Ahead
    <3>2. rank(t) < rank(s) /\ rank(t) \in Nat
      BY <2>1, <3>1, AheadCounts
    <3>3. rank(t) < topK
      BY <2>1, <2>2, <3>2
    <3>4. QED
      BY <3>1, <3>3 DEF Kept
  <2>4. {t \in kept : <<t, s>> \in R} = Ahead(best, s)
    BY <1>1, <2>3 DEF Ahead
  <2>5. QED
    BY <2>1, <2>2, <2>4 DEF RankIn
<1>5. /\ \A s \in kept : RankIn(kept, R, s) \in 0..(n - 1)
      /\ \A i \in 0..(n - 1) : \E s \in kept : RankIn(kept, R, s) = i
  <2> HIDE DEF kept, R
  <2> QED
    BY <1>2, <1>3, RanksAreAnInterval
<1>6. \A s \in kept : rank(s) \in 0..(n - 1)
  BY <1>4, <1>5
<1>7. \A i \in 0..(n - 1) : \E s \in kept : rank(s) = i
  BY <1>4, <1>5
<1>8. n <= topK
  <2>1. ASSUME n > topK PROVE FALSE
    <3>1. topK \in 0..(n - 1)
      BY <1>2, <2>1
    <3>2. PICK s \in kept : rank(s) = topK
      BY <1>7, <3>1
    <3>3. rank(s) < topK
      BY <1>4
    <3> HIDE DEF rank
    <3>4. QED
      BY <3>2, <3>3
  <2>2. QED
    BY <1>2, <2>1
<1>9. list = [i \in 1..n |-> [surface |-> at(i), score |-> best[at(i)]]]
  BY DEF TopRows, Kept
<1>10. ASSUME NEW i \in 1..n PROVE at(i) \in kept /\ rank(at(i)) = i - 1
  <2>1. i - 1 \in 0..(n - 1)
    BY <1>2
  <2>2. \E s \in kept : rank(s) = i - 1
    BY <1>7, <2>1
  <2> HIDE DEF kept, rank
  <2>3. QED
    BY <2>2
<1> HIDE DEF at, n, kept, list
<1>11. DOMAIN list = 1..n /\ Len(list) = n
  BY <1>2, <1>9
<1>12. ASSUME NEW i \in DOMAIN list
       PROVE  /\ list[i].surface \in kept
              /\ list[i].score = best[list[i].surface]
              /\ rank(list[i].surface) = i - 1
  <2>1. i \in 1..n /\ list[i] = [surface |-> at(i), score |-> best[at(i)]]
    BY <1>9, <1>11
  <2>2. list[i].surface = at(i) /\ list[i].score = best[at(i)]
    BY <2>1
  <2>3. QED
    BY <1>10, <2>1, <2>2
<1>13. ASSUME NEW s \in kept PROVE \E i \in DOMAIN list : list[i].surface = s
  <2>1. rank(s) + 1 \in 1..n /\ rank(s) \in Nat
    BY <1>2, <1>6
  <2>2. list[rank(s) + 1].surface \in kept /\ rank(list[rank(s) + 1].surface) = rank(s)
    <3>1. rank(s) + 1 \in DOMAIN list
      BY <1>11, <2>1
    <3>2. rank(list[rank(s) + 1].surface) = (rank(s) + 1) - 1
      BY <1>12, <3>1
    <3> HIDE DEF rank
    <3>3. QED
      BY <1>12, <2>1, <3>1, <3>2
  <2>3. \A t \in kept : rank(t) = rank(s) => t = s
    <3> SUFFICES ASSUME NEW t \in kept, rank(t) = rank(s) PROVE t = s
      OBVIOUS
    <3>1. s \in DOMAIN best /\ t \in DOMAIN best
      BY <1>1
    <3>2. ~ RanksBefore(best, s, t) /\ ~ RanksBefore(best, t, s)
      BY <2>1, <3>1, AheadCounts
    <3>3. <<s, t>> \notin R /\ <<t, s>> \notin R
      BY <3>2
    <3>4. QED
      BY <1>3, <3>3 DEF TotalOn
  <2> HIDE DEF rank
  <2>4. QED
    BY <1>11, <2>1, <2>2, <2>3
<1>14. QED
  BY <1>2, <1>8, <1>11, <1>12, <1>13 DEF list, kept, n

\* A ranking is in order and without a surface twice.
LEMMA TopRowsInOrder ==
    ASSUME NEW best \in Scores, NEW topK \in Nat,
           NEW i \in DOMAIN TopRows(best, topK), NEW j \in DOMAIN TopRows(best, topK), i < j
    PROVE  /\ TopRows(best, topK)[i].surface # TopRows(best, topK)[j].surface
           /\ TopRows(best, topK)[i].score \geq TopRows(best, topK)[j].score
<1> DEFINE list == TopRows(best, topK)
           s == list[i].surface
           t == list[j].surface
<1>1. /\ s \in DOMAIN best /\ t \in DOMAIN best
      /\ list[i].score = best[s] /\ list[j].score = best[t]
      /\ Cardinality(Ahead(best, s)) = i - 1 /\ Cardinality(Ahead(best, t)) = j - 1
      /\ i \in Nat /\ j \in Nat
  <2>1. /\ DOMAIN list = 1..Cardinality(Kept(best, topK))
        /\ \A k \in DOMAIN list :
             /\ list[k].surface \in Kept(best, topK)
             /\ list[k].score = best[list[k].surface]
             /\ Cardinality(Ahead(best, list[k].surface)) = k - 1
    BY TopRowsRanked
  <2> HIDE DEF list
  <2>2. i \in DOMAIN list /\ j \in DOMAIN list
    BY DEF list
  <2>3. /\ s \in Kept(best, topK) /\ t \in Kept(best, topK)
        /\ list[i].score = best[s] /\ list[j].score = best[t]
        /\ Cardinality(Ahead(best, s)) = i - 1 /\ Cardinality(Ahead(best, t)) = j - 1
    BY <2>1, <2>2
  <2>4. i \in Nat /\ j \in Nat
    <3>1. i \in 1..Cardinality(Kept(best, topK)) /\ j \in 1..Cardinality(Kept(best, topK))
      BY <2>1, <2>2
    <3> HIDE DEF s, t
    <3>2. QED
      BY <3>1
  <2>5. QED
    BY <2>3, <2>4 DEF Kept
<1> HIDE DEF list, s, t
<1>2. s # t
  BY <1>1
<1>3. ~ RanksBefore(best, t, s)
  BY <1>1, AheadCounts
<1>4. best[s] \in Int /\ best[t] \in Int
  BY <1>1, ScoresTyped
<1>5. best[s] \geq best[t]
  BY <1>3, <1>4 DEF RanksBefore
<1>6. QED
  BY <1>1, <1>2, <1>5 DEF list, s, t

\* Rows as backends answer them, and as a thread collects them.
IsRows(rows) ==
    /\ IsFiniteSet(rows)
    /\ \A r \in rows : r.surface \in Surfaces /\ r.score \in Int

LEMMA WeightedRows ==
    ASSUME NEW rows, IsRows(rows), NEW weight \in Int
    PROVE  IsRows(Weighted(rows, weight))
<1> DEFINE raised(r) == [surface |-> r.surface, score |-> r.score + weight]
           f == [r \in rows |-> raised(r)]
<1>1. f \in Surjection(rows, Weighted(rows, weight))
  <2>1. f \in [rows -> Weighted(rows, weight)]
    BY DEF Weighted
  <2>2. \A q \in Weighted(rows, weight) : \E r \in rows : f[r] = q
    BY DEF Weighted
  <2> HIDE DEF f
  <2>3. QED
    BY <2>1, <2>2 DEF Surjection
<1>2. IsFiniteSet(Weighted(rows, weight))
  <2> HIDE DEF f
  <2> QED
    BY <1>1, FS_Surjection DEF IsRows
<1>3. ASSUME NEW q \in Weighted(rows, weight) PROVE q.surface \in Surfaces /\ q.score \in Int
  <2>1. PICK r \in rows : q = raised(r)
    BY DEF Weighted
  <2>2. q.surface = r.surface /\ q.score = r.score + weight
    BY <2>1
  <2>3. QED
    BY <2>2 DEF IsRows
<1>4. QED
  BY <1>2, <1>3 DEF IsRows

LEMMA UnionOfRows ==
    ASSUME NEW rows, IsRows(rows), NEW others, IsRows(others)
    PROVE  IsRows(rows \cup others)
  BY FS_Union DEF IsRows

\* What threads collect are rows, and the model's answer only adds some.
LEMMA CollectedRows ==
    /\ \A rows \in FirstRows \cup AllRows : IsRows(rows)
    /\ \A rows \in FirstRows, llm \in Answers["model"] : rows \subseteq WithModelRows(rows, llm)
<1>1. ASSUME NEW source \in {"sudachi", "vocab", "model"}, NEW answer \in Answers[source],
             NEW weight \in Int
      PROVE  IsRows(Weighted(answer, weight))
  <2>1. IsRows(answer)
    BY AnswerAssumption DEF IsRows
  <2>2. QED
    BY <2>1, WeightedRows
<1>2. WeightDict \in Int /\ WeightLlm \in Int
  BY DEF WeightDict, WeightLlm
<1>3. ASSUME NEW rows \in FirstRows PROVE IsRows(rows)
  <2>1. PICK dict \in Answers["sudachi"], user \in Answers["vocab"] : rows = DictionaryRows(dict, user)
    BY DEF FirstRows
  <2>2. IsRows(Weighted(dict, WeightDict)) /\ IsRows(Weighted(user, WeightDict))
    BY <1>1, <1>2
  <2>3. QED
    BY <2>1, <2>2, UnionOfRows DEF DictionaryRows
<1>4. ASSUME NEW rows \in AllRows PROVE IsRows(rows)
  <2>1. PICK first \in FirstRows, llm \in Answers["model"] : rows = WithModelRows(first, llm)
    BY DEF AllRows
  <2>2. IsRows(Weighted(llm, WeightLlm))
    BY <1>1, <1>2
  <2>3. QED
    BY <1>3, <2>1, <2>2, UnionOfRows DEF WithModelRows
<1>5. QED
  BY <1>3, <1>4 DEF WithModelRows

\* Each surface of the rows with its best score.
LEMMA BestScores ==
    ASSUME NEW rows, IsRows(rows), NEW hits
    PROVE  /\ BestPerSurface(rows) \in Scores /\ Boosted(BestPerSurface(rows), hits) \in Scores
           /\ DOMAIN Boosted(BestPerSurface(rows), hits) = SurfacesOf(rows)
           /\ DOMAIN BestPerSurface(rows) = SurfacesOf(rows)
           /\ \A r \in rows : BestPerSurface(rows)[r.surface] \geq r.score
           /\ \A s \in SurfacesOf(rows) : \E r \in rows :
                r.surface = s /\ BestPerSurface(rows)[s] = r.score
<1> DEFINE best == BestPerSurface(rows)
           scores(s) == {r.score : r \in {q \in rows : q.surface = s}}
           f == [r \in rows |-> r.surface]
<1>1. SurfacesOf(rows) \in SUBSET Surfaces /\ IsFiniteSet(SurfacesOf(rows))
  <2>1. f \in Surjection(rows, SurfacesOf(rows))
    BY DEF Surjection, SurfacesOf
  <2> HIDE DEF f
  <2>2. IsFiniteSet(SurfacesOf(rows))
    BY <2>1, FS_Surjection DEF IsRows
  <2>3. QED
    BY <2>2 DEF IsRows, SurfacesOf
<1>2. ASSUME NEW s \in SurfacesOf(rows)
      PROVE  Max(scores(s)) \in scores(s) /\ \A x \in scores(s) : Max(scores(s)) \geq x
  <2>1. scores(s) \in SUBSET Int
    BY DEF IsRows
  <2>2. scores(s) # {}
    BY DEF SurfacesOf
  <2>3. IsFiniteSet(scores(s))
    <3> DEFINE here == {q \in rows : q.surface = s}
               g == [r \in here |-> r.score]
    <3>1. g \in Surjection(here, scores(s))
      BY DEF Surjection
    <3>2. IsFiniteSet(here)
      BY FS_Subset DEF IsRows
    <3> HIDE DEF here, g, scores
    <3>3. QED
      BY <3>1, <3>2, FS_Surjection
  <2> HIDE DEF scores
  <2>4. QED
    BY <2>1, <2>2, <2>3, MaxExists
<1>3. best = [s \in SurfacesOf(rows) |-> Max(scores(s))]
  BY DEF BestPerSurface
<1>4. \A s \in SurfacesOf(rows) : scores(s) \subseteq Int
  BY DEF IsRows
<1>5. best \in [SurfacesOf(rows) -> Int]
  <2> HIDE DEF scores, best
  <2> QED
    BY <1>2, <1>3, <1>4
<1>6. ASSUME NEW r \in rows PROVE best[r.surface] \geq r.score
  <2>1. r.surface \in SurfacesOf(rows) /\ r.score \in scores(r.surface)
    BY DEF SurfacesOf
  <2> HIDE DEF scores, best
  <2>2. QED
    BY <1>2, <1>3, <2>1
<1>7. ASSUME NEW s \in SurfacesOf(rows)
      PROVE  \E r \in rows : r.surface = s /\ best[s] = r.score
  <2>1. best[s] \in scores(s)
    <3> HIDE DEF scores, best
    <3> QED
      BY <1>2, <1>3
  <2>2. QED
    BY <2>1
<1> HIDE DEF best
<1>8. Boosted(best, hits) \in [SurfacesOf(rows) -> Int]
  BY <1>5 DEF Boosted, BonusCacheHit
<1>9. best \in Scores /\ Boosted(best, hits) \in Scores
  BY <1>1, <1>5, <1>8 DEF Scores
<1>10. QED
  BY <1>5, <1>6, <1>7, <1>8, <1>9 DEF best

\* Whatever the backends answer and the cache knows, a ranking is one.
LEMMA ListsAreRankings ==
    ASSUME NEW list \in Lists
    PROVE  /\ OneRanking(list) /\ Len(list) \in Nat /\ DOMAIN list = 1..Len(list)
           /\ \A i, j \in DOMAIN list : i < j => list[i].score \geq list[j].score
<1>1. PICK rows \in FirstRows \cup AllRows, hits \in HitSets : list = MergeRows(rows, hits, TopK)
  BY DEF Lists
<1> DEFINE best == Boosted(BestPerSurface(rows), hits)
<1>2. IsRows(rows) /\ TopK \in Nat
  BY CollectedRows, AnswerAssumption
<1>3. best \in Scores
  BY <1>2, BestScores
<1>4. list = TopRows(best, TopK)
  BY <1>1 DEF MergeRows
<1> HIDE DEF best
<1>5. Len(list) \leq TopK /\ Len(list) \in Nat /\ DOMAIN list = 1..Len(list)
  <2>1. /\ Cardinality(Kept(best, TopK)) <= TopK /\ Len(list) = Cardinality(Kept(best, TopK))
        /\ Cardinality(Kept(best, TopK)) \in Nat
        /\ DOMAIN list = 1..Cardinality(Kept(best, TopK))
    BY <1>2, <1>3, <1>4, TopRowsRanked
  <2>2. QED
    BY <2>1
<1>6. ASSUME NEW i \in DOMAIN list, NEW j \in DOMAIN list, i < j
      PROVE  list[i].surface # list[j].surface /\ list[i].score \geq list[j].score
  BY <1>2, <1>3, <1>4, <1>6, TopRowsInOrder
<1>7. QED
  BY <1>5, <1>6 DEF OneRanking

\* ... and so are the rows a window makes of it.
LEMMA RowsAreRanking ==
    ASSUME NEW ranking \in Ranking
    PROVE  OneRanking(RowsOf(ranking))
<1>1. ranking.list \in Lists
  BY DEF Ranking
<1>2. OneRanking(ranking.list)
  BY <1>1, ListsAreRankings
<1>3. /\ DOMAIN RowsOf(ranking) = DOMAIN ranking.list
      /\ \A i \in DOMAIN ranking.list : RowsOf(ranking)[i].surface = ranking.list[i].surface
  BY DEF RowsOf, CandidatesFor, Replacement
<1>4. Len(RowsOf(ranking)) = Len(ranking.list)
  <2>1. RowsOf(ranking) \in Seq(Candidate)
    BY RowsTyped
  <2>2. Len(ranking.list) \in Nat /\ DOMAIN ranking.list = 1..Len(ranking.list)
    BY <1>1, ListsAreRankings
  <2>3. QED
    BY <1>3, <2>1, <2>2
<1>5. QED
  BY <1>2, <1>3, <1>4 DEF OneRanking

\* No list is one ranking twice over.
LEMMA AnswerShapes ==
    ASSUME NEW s \in Seq(Candidate), OneRanking(s), NEW t \in Seq(Candidate), OneRanking(t)
    PROVE  OneRanking(<<>>) /\ TwoRankings(<<>>) /\ TwoRankings(s) /\ TwoRankings(s \o t)
<1>1. OneRanking(<<>>)
  BY AnswerAssumption DEF OneRanking
<1>2. ASSUME NEW u \in Seq(Candidate), OneRanking(u) PROVE TwoRankings(s \o u)
  <2>1. /\ Len(s) \in Nat /\ Len(u) \in Nat
        /\ s \o u \in Seq(Candidate) /\ Len(s \o u) = Len(s) + Len(u)
        /\ \A i \in 1..Len(s) : (s \o u)[i] = s[i]
        /\ \A i \in 1..Len(u) : (s \o u)[Len(s) + i] = u[i]
    BY ConcatProperties
  <2> DEFINE whole == s \o u
  <2> HIDE DEF whole
  <2>2. SubSeq(whole, 1, Len(s)) = s /\ SubSeq(whole, Len(s) + 1, Len(whole)) = u
    BY <2>1 DEF whole
  <2>3. Len(s) \in 0..Len(whole)
    BY <2>1 DEF whole
  <2>4. QED
    BY <1>2, <2>2, <2>3 DEF TwoRankings, whole
<1>3. <<>> \in Seq(Candidate) /\ s \o <<>> = s
  OBVIOUS
<1>4. TwoRankings(s)
  BY <1>1, <1>2, <1>3
<1>5. TwoRankings(<<>>)
  <2>1. <<>> \o <<>> = <<>> /\ <<>> \in Seq(Candidate)
    OBVIOUS
  <2>2. SubSeq(<<>>, 1, 0) = <<>> /\ SubSeq(<<>>, 0 + 1, 0) = <<>>
        /\ Len(<<>>) = 0 /\ 0 \in 0..0
    BY <2>1
  <2>3. \E n \in 0..Len(<<>>) : /\ OneRanking(SubSeq(<<>>, 1, n))
                                /\ OneRanking(SubSeq(<<>>, n + 1, Len(<<>>)))
    BY <1>1, <2>2
  <2>4. QED
    BY <2>3 DEF TwoRankings
<1>6. QED
  BY <1>1, <1>2, <1>4, <1>5

AnswerInv ==
    /\ OneRanking(buffer) /\ OneRanking(second)
    /\ \A k \in DOMAIN events : TwoRankings(events[k].list)

\* What is sent is what the windows took, and an error carries nothing.
LEMMA StepAnswers == RInv /\ AnswerInv /\ [Next]_vars => AnswerInv'
<1> SUFFICES ASSUME RInv, AnswerInv, [Next]_vars PROVE AnswerInv'
  OBVIOUS
<1>0. /\ events \in Seq(WorkerOutput) /\ buffer \in Seq(Candidate) /\ second \in Seq(Candidate)
  BY PortFacts
<1>1. OneRanking(buffer) /\ OneRanking(second) /\ OneRanking(<<>>) /\ TwoRankings(<<>>)
      /\ TwoRankings(buffer) /\ TwoRankings(buffer \o second)
  BY <1>0, AnswerShapes DEF AnswerInv
<1>2. ASSUME NEW event, TwoRankings(event.list), events' = Append(events, event)
      PROVE  \A k \in DOMAIN events' : TwoRankings(events'[k].list)
  <2>1. \A k \in DOMAIN events' : \/ k \in DOMAIN events /\ events'[k] = events[k]
                                  \/ events'[k] = event
    BY <1>0, <1>2
  <2>2. QED
    BY <1>2, <2>1 DEF AnswerInv
<1>3. ASSUME UNCHANGED <<buffer, second, events>> PROVE AnswerInv'
  BY <1>3 DEF AnswerInv
<1>4. CASE EngineSide
  <2>1. UNCHANGED workerVars /\ (events' = events \/ (events # <<>> /\ events' = Tail(events)))
    BY <1>4 DEF EngineSide, SendRequest, SendFails, FireToken, TakeEvent
  <2>2. UNCHANGED <<buffer, second>>
    BY <2>1 DEF workerVars
  <2>3. CASE events' = events
    BY <1>3, <2>2, <2>3
  <2>4. CASE events # <<>> /\ events' = Tail(events)
    <3>1. \A k \in DOMAIN events' : k + 1 \in DOMAIN events /\ events'[k] = events[k + 1]
      BY <1>0, <2>4
    <3>2. QED
      BY <2>2, <3>1 DEF AnswerInv
  <2>5. QED
    BY <2>1, <2>3, <2>4
<1>5. CASE WorkerRunsOn
  <2>1. CASE WorkerReceive \/ WorkerExits
    BY <1>3, <2>1 DEF WorkerReceive, WorkerExits
  <2>2. CASE CloseFirstWindow
    <3>1. events' = events \/ events' = Append(events, CandidatesEvent(job.id, buffer))
      BY <2>2 DEF CloseFirstWindow
    <3>2. CandidatesEvent(job.id, buffer).list = buffer
      BY DEF CandidatesEvent
    <3>3. \A k \in DOMAIN events' : TwoRankings(events'[k].list)
      BY <1>1, <1>2, <3>1, <3>2 DEF AnswerInv
    <3>4. OneRanking(buffer') /\ OneRanking(second')
      BY <1>1, <2>2 DEF CloseFirstWindow, Finish, DropJob
    <3>5. QED
      BY <3>3, <3>4 DEF AnswerInv
  <2>3. CASE CloseSecondWindow
    <3>1. events' = events \/ events' = Append(events, CandidatesEvent(job.id, buffer \o second))
      BY <2>3 DEF CloseSecondWindow
    <3>2. CandidatesEvent(job.id, buffer \o second).list = buffer \o second
      BY DEF CandidatesEvent
    <3>3. \A k \in DOMAIN events' : TwoRankings(events'[k].list)
      BY <1>1, <1>2, <3>1, <3>2 DEF AnswerInv
    <3>4. OneRanking(buffer') /\ OneRanking(second')
      BY <1>1, <2>3 DEF CloseSecondWindow, Finish, DropJob
    <3>5. QED
      BY <3>3, <3>4 DEF AnswerInv
  <2>4. CASE WorkerPanics
    <3>1. events' = Append(events, ErrorEvent(job.id)) /\ ErrorEvent(job.id).list = <<>>
      BY <2>4 DEF WorkerPanics, ErrorEvent
    <3>2. \A k \in DOMAIN events' : TwoRankings(events'[k].list)
      BY <1>1, <1>2, <3>1
    <3>3. OneRanking(buffer') /\ OneRanking(second')
      BY <1>1, <2>4 DEF WorkerPanics, DropJob
    <3>4. QED
      BY <3>2, <3>3 DEF AnswerInv
  <2>5. QED
    BY <1>5, <2>1, <2>2, <2>3, <2>4 DEF WorkerRunsOn
<1>6. CASE RankSpawns
  BY <1>3, <1>6 DEF RankSpawns, RankReturns, channelVars
<1>7. CASE DrainSink
  <2> DEFINE ranking == sent[job.id][pushes + 1]
  <2>1. ranking \in Ranking
    <3>1. /\ phase \in {"first", "second"} /\ pushes < Len(sent[job.id])
          /\ pushes \in Nat /\ job.id \in RequestIds
      BY <1>7, PortFacts, NoJobHasNoId, MaxPushesAssumption DEF DrainSink, Working
    <3>2. sent[job.id] \in Seq(Ranking)
      BY <3>1 DEF RInv, ThreadTypes
    <3>3. pushes + 1 \in 1..Len(sent[job.id])
      BY <3>1, <3>2
    <3>4. QED
      BY <3>2, <3>3
  <2>2. OneRanking(RowsOf(ranking))
    BY <2>1, RowsAreRanking
  <2>3. /\ UNCHANGED events
        /\ \/ buffer' = RowsOf(ranking) /\ second' = second
           \/ second' = RowsOf(ranking) /\ buffer' = buffer
    BY <1>7 DEF DrainSink, channelVars
  <2> HIDE DEF ranking
  <2>4. QED
    BY <2>2, <2>3 DEF AnswerInv
<1>8. ASSUME NEW id \in RequestIds, ThreadStep(id) PROVE AnswerInv'
  <2>1. UNCHANGED portVars
    BY <1>8 DEF ThreadStep, CheckToken, AskDictionaries, PushDictionaries, AskModel, ModelFails,
                PushCombined, ThreadPanics
  <2>2. QED
    BY <1>3, <2>1 DEF portVars, workerVars, channelVars
<1>9. CASE UNCHANGED vars
  BY <1>3, <1>9 DEF vars, portVars, workerVars, channelVars
<1>10. QED
  BY <1>4, <1>5, <1>6, <1>7, <1>8, <1>9 DEF Next

\* What reaches the engine are rankings, at most two in a row: never more rows
\* than that, and a surface twice only where the second window repeats one.
THEOREM RankingsAreInOrder == Spec => []RankingsAreRankings
<1>1. RInv /\ AnswerInv => RankingsAreRankings
  <2> SUFFICES ASSUME RInv, AnswerInv, NEW list \in Rankings PROVE list \in Lists
    BY ListsAreRankings DEF RankingsAreRankings, AnswerInv
  <2>1. PICK id \in RequestIds : \E i \in DOMAIN sent[id] : list = sent[id][i].list
    BY DEF Rankings
  <2>2. sent[id] \in Seq(Ranking)
    BY DEF RInv, ThreadTypes
  <2>3. \A i \in DOMAIN sent[id] : sent[id][i] \in Ranking
    BY <2>2
  <2>4. QED
    BY <2>1, <2>3 DEF Ranking
<1>2. Init => AnswerInv
  <2>1. OneRanking(<<>>)
    BY AnswerAssumption DEF OneRanking
  <2>2. QED
    BY <2>1 DEF Init, PortInit, ChannelsInit, WorkerInit, AnswerInv
<1>3. QED
  BY <1>1, <1>2, StepAnswers, RankerInvariance, PTL DEF Spec

\* Every surface scores at least as much with more rows.
LEMMA MoreRowsScoreMore ==
    ASSUME NEW wider, IsRows(wider), NEW rows \in SUBSET wider, IsRows(rows), NEW hits,
           NEW s \in SurfacesOf(rows)
    PROVE  /\ s \in SurfacesOf(wider)
           /\ Boosted(BestPerSurface(wider), hits)[s] \geq Boosted(BestPerSurface(rows), hits)[s]
<1> DEFINE few == BestPerSurface(rows)
           many == BestPerSurface(wider)
<1>1. PICK r \in rows : r.surface = s /\ few[s] = r.score
  BY BestScores
<1>2. r \in wider /\ s \in SurfacesOf(wider)
  BY <1>1 DEF SurfacesOf
<1>3. many[s] \geq r.score
  BY <1>1, <1>2, BestScores
<1>4. /\ DOMAIN few = SurfacesOf(rows) /\ DOMAIN many = SurfacesOf(wider)
      /\ few \in Scores /\ many \in Scores
  BY BestScores
<1> HIDE DEF few, many
<1>5. few[s] \in Int /\ many[s] \in Int
  BY <1>2, <1>4, ScoresTyped
<1>6. /\ Boosted(few, hits)[s] = few[s] + (IF s \in hits THEN BonusCacheHit ELSE 0)
      /\ Boosted(many, hits)[s] = many[s] + (IF s \in hits THEN BonusCacheHit ELSE 0)
  BY <1>2, <1>4 DEF Boosted
<1>7. Boosted(many, hits)[s] \geq Boosted(few, hits)[s]
  BY <1>1, <1>3, <1>5, <1>6 DEF BonusCacheHit
<1>8. QED
  BY <1>2, <1>7 DEF few, many

\* A surface that is ranked but not kept leaves a ranking that is full of
\* better ones.
LEMMA FullWithoutIt ==
    ASSUME NEW best \in Scores, NEW topK \in Nat, NEW s \in DOMAIN best, s \notin Kept(best, topK)
    PROVE  /\ Cardinality({TopRows(best, topK)[i] : i \in DOMAIN TopRows(best, topK)}) = topK
           /\ \A i \in DOMAIN TopRows(best, topK) : TopRows(best, topK)[i].score \geq best[s]
<1> DEFINE list == TopRows(best, topK)
           kept == Kept(best, topK)
           rank(t) == Cardinality(Ahead(best, t))
           n == Cardinality(kept)
           N == Cardinality(DOMAIN best)
<1>1. /\ IsFiniteSet(kept) /\ n \in Nat /\ n <= topK /\ DOMAIN list = 1..n /\ Len(list) = n
      /\ \A i \in DOMAIN list : list[i].surface \in kept /\ list[i].score = best[list[i].surface]
                                /\ rank(list[i].surface) = i - 1
      /\ \A t \in kept : \E i \in DOMAIN list : list[i].surface = t
  BY TopRowsRanked
<1>2. N \in Nat /\ rank(s) \in 0..(N - 1) /\ ~ (rank(s) < topK)
  BY AheadCounts DEF Kept
<1>3. ASSUME n < topK PROVE FALSE
  <2>1. n \in 0..(N - 1)
    BY <1>1, <1>2, <1>3
  <2>2. PICK t \in DOMAIN best : rank(t) = n
    BY <2>1, AheadCounts
  <2>3. t \in kept
    BY <1>3, <2>2 DEF Kept
  <2>4. PICK i \in DOMAIN list : list[i].surface = t
    BY <1>1, <2>3
  <2>5. i \in 1..n /\ rank(t) = i - 1
    BY <1>1, <2>4
  <2> HIDE DEF rank, n, list
  <2>6. QED
    BY <1>1, <2>2, <2>5
<1>4. n = topK
  BY <1>1, <1>3
<1> DEFINE rows == {list[i] : i \in DOMAIN list}
           place == [i \in 1..n |-> list[i]]
<1> HIDE DEF list
<1>5. place \in Bijection(1..n, rows)
  <2>1. place \in Surjection(1..n, rows)
    BY <1>1 DEF Surjection
  <2>2. ASSUME NEW i \in 1..n, NEW j \in 1..n, place[i] = place[j] PROVE i = j
    <3>1. list[i] = list[j] /\ i \in DOMAIN list /\ j \in DOMAIN list
      BY <1>1, <2>2
    <3>2. i - 1 = rank(list[i].surface) /\ j - 1 = rank(list[j].surface)
      BY <1>1, <3>1
    <3> HIDE DEF rank
    <3>3. QED
      BY <3>1, <3>2
  <2> HIDE DEF place, rows
  <2>3. QED
    BY <2>1, <2>2 DEF Bijection, Injection, Surjection, IsInjective
<1>6. Cardinality(rows) = n
  <2>1. ExistsBijection(1..n, rows)
    BY <1>5 DEF ExistsBijection
  <2>2. IsFiniteSet(1..n) /\ Cardinality(1..n) = n
    BY <1>1, FS_Interval
  <2> HIDE DEF rows, n
  <2>3. QED
    BY <2>1, <2>2, FS_Bijection
<1>7. ASSUME NEW i \in DOMAIN list PROVE list[i].score \geq best[s]
  <2> DEFINE t == list[i].surface
  <2>1. t \in DOMAIN best /\ rank(t) < topK /\ list[i].score = best[t]
    BY <1>1 DEF Kept
  <2> HIDE DEF t
  <2>2. rank(t) \in Nat
    BY <2>1, AheadCounts
  <2>3. ~ RanksBefore(best, s, t)
    BY <1>2, <2>1, <2>2, AheadCounts
  <2>4. best[t] \in Int /\ best[s] \in Int
    BY <2>1, ScoresTyped
  <2>5. QED
    BY <2>1, <2>3, <2>4 DEF RanksBefore
<1>8. QED
  BY <1>4, <1>6, <1>7 DEF list

\* What NothingVanishes says of two rankings.
Outlasts(first, then) ==
    LET before == {first[i] : i \in DOMAIN first}
        after  == {then[i] : i \in DOMAIN then}
    IN  \A row \in before :
          \/ \E r \in after : r.surface = row.surface /\ r.score \geq row.score
          \/ Cardinality(after) = TopK /\ \A r \in after : r.score \geq row.score

\* The ranking of more rows takes nothing away.
LEMMA MoreRowsOutlast ==
    ASSUME NEW wider, IsRows(wider), NEW rows \in SUBSET wider, IsRows(rows), NEW hits
    PROVE  Outlasts(MergeRows(rows, hits, TopK), MergeRows(wider, hits, TopK))
<1> DEFINE few == Boosted(BestPerSurface(rows), hits)
           many == Boosted(BestPerSurface(wider), hits)
           first == TopRows(few, TopK)
           then == TopRows(many, TopK)
           after == {then[i] : i \in DOMAIN then}
<1>1. /\ few \in Scores /\ many \in Scores
      /\ DOMAIN few = SurfacesOf(rows) /\ DOMAIN many = SurfacesOf(wider)
  BY BestScores
<1>2. TopK \in Nat
  BY AnswerAssumption
<1>3. first = MergeRows(rows, hits, TopK) /\ then = MergeRows(wider, hits, TopK)
  BY DEF MergeRows
<1>4. \A s \in SurfacesOf(rows) : s \in DOMAIN many /\ many[s] \geq few[s]
  BY <1>1, MoreRowsScoreMore
<1> HIDE DEF few, many
<1>5. ASSUME NEW i \in DOMAIN first
      PROVE  \/ \E r \in after : r.surface = first[i].surface /\ r.score \geq first[i].score
             \/ Cardinality(after) = TopK /\ \A r \in after : r.score \geq first[i].score
  <2> DEFINE s == first[i].surface
  <2>1. s \in Kept(few, TopK) /\ first[i].score = few[s]
    BY <1>1, <1>2, TopRowsRanked
  <2>2. s \in DOMAIN few /\ s \in DOMAIN many /\ many[s] \geq few[s]
    BY <1>1, <1>4, <2>1 DEF Kept
  <2> HIDE DEF s, first
  <2>3. few[s] \in Int /\ many[s] \in Int
    BY <1>1, <2>2, ScoresTyped
  <2>4. CASE s \in Kept(many, TopK)
    <3>1. PICK k \in DOMAIN then : then[k].surface = s /\ then[k].score = many[then[k].surface]
      BY <1>1, <1>2, <2>4, TopRowsRanked
    <3>2. then[k] \in after /\ then[k].score \geq first[i].score
      BY <2>1, <2>2, <3>1
    <3>3. QED
      BY <3>1, <3>2 DEF s
  <2>5. CASE s \notin Kept(many, TopK)
    <3>1. /\ Cardinality(after) = TopK
          /\ \A k \in DOMAIN then : then[k].score \geq many[s]
      BY <1>1, <1>2, <2>2, <2>5, FullWithoutIt
    <3>2. ASSUME NEW k \in DOMAIN then PROVE then[k].score \geq first[i].score
      <4>1. then[k].surface \in Kept(many, TopK) /\ then[k].score = many[then[k].surface]
        BY <1>1, <1>2, TopRowsRanked
      <4>2. then[k].score \in Int
        BY <1>1, <4>1, ScoresTyped DEF Kept
      <4>3. then[k].score \geq many[s]
        BY <3>1
      <4> HIDE DEF then
      <4>4. QED
        BY <2>1, <2>2, <2>3, <4>2, <4>3
    <3>3. QED
      BY <3>1, <3>2
  <2>6. QED
    BY <2>4, <2>5
<1>6. QED
  BY <1>3, <1>5 DEF Outlasts

\* What the first ranking was made of is still in the thread's hands, with the
\* model's rows at most added to it.
GrowAt(id) ==
    /\ thread[id] \in {"pushed", "model"} /\ sent[id] # <<>>
         => sent[id][1].list = MergeRows(found[id].rows, found[id].hits, TopK)
    /\ thread[id] \in {"answered", "pushAgain"} /\ sent[id] # <<>>
         => \E rows \in FirstRows : /\ rows \subseteq found[id].rows
                                    /\ sent[id][1].list = MergeRows(rows, found[id].hits, TopK)
    /\ Len(sent[id]) = 2 => Outlasts(sent[id][1].list, sent[id][2].list)

GrowInv == \A id \in RequestIds : GrowAt(id)

\* A thread that stands still, whether or not its sink is dropped.
LEMMA GrowAtRest ==
    ASSUME RInv, NEW id \in RequestIds, GrowAt(id),
           thread'[id] = thread[id], found'[id] = found[id],
           sent'[id] = sent[id] \/ sent'[id] = <<>>
    PROVE  GrowAt(id)'
<1>1. Len(<<>>) = 0
  OBVIOUS
<1>2. CASE sent'[id] = sent[id]
  BY <1>2 DEF GrowAt, Outlasts
<1>3. CASE sent'[id] = <<>>
  BY <1>1, <1>3 DEF GrowAt
<1>4. QED
  BY <1>2, <1>3

LEMMA StepGrow == RInv /\ GrowInv /\ [Next]_vars => GrowInv'
<1> SUFFICES ASSUME RInv, GrowInv, [Next]_vars, NEW id \in RequestIds PROVE GrowAt(id)'
  BY DEF GrowInv
<1>0. /\ thread \in [RequestIds -> ThreadStates] /\ found \in [RequestIds -> Finding]
      /\ sent \in [RequestIds -> Seq(Ranking)] /\ late \in [RequestIds -> Nat]
      /\ GrowAt(id) /\ FoundAt(id) /\ PushAt(id)
  BY DEF RInv, ThreadTypes, GrowInv, FoundInv, PushInv
<1>1. CASE EngineSide /\ UNCHANGED rankerVars
  BY <1>0, <1>1, GrowAtRest DEF rankerVars
<1>2. CASE WorkerRunsOn
  BY <1>0, <1>2, GrowAtRest DEF WorkerRunsOn, CloseSink
<1>3. CASE RankSpawns
  <2>1. /\ thread' = [thread EXCEPT ![job.id] = "entry"] /\ sent' = sent
        /\ phase = "rank" /\ found' = [found EXCEPT ![job.id].kana = job.kana]
    BY <1>3 DEF RankSpawns, RankReturns
  <2>2. CASE job.id = id
    <3>1. thread[id] = "none" /\ thread'[id] = "entry"
      BY <1>0, <2>1, <2>2 DEF RInv, StartInv
    <3>2. sent[id] = <<>> /\ Len(sent'[id]) = 0
      BY <1>0, <2>1, <3>1 DEF PushAt, BeforeFirst
    <3>3. QED
      BY <3>1, <3>2 DEF GrowAt
  <2>3. CASE job.id # id
    BY <1>0, <2>1, <2>3, GrowAtRest
  <2>4. QED
    BY <2>2, <2>3
<1>4. CASE DrainSink
  BY <1>0, <1>4, GrowAtRest DEF DrainSink, rankerVars
<1>5. ASSUME NEW other \in RequestIds, other # id, ThreadStep(other) PROVE GrowAt(id)'
  <2>1. thread'[id] = thread[id] /\ found'[id] = found[id] /\ sent'[id] = sent[id]
    BY <1>0, <1>5
    DEF ThreadStep, CheckToken, AskDictionaries, PushDictionaries, AskModel, ModelFails,
        PushCombined, ThreadPanics, GoOn, Leave, Push, SinkOf
  <2>2. QED
    BY <1>0, <2>1, GrowAtRest
<1>6. ASSUME thread'[id] \notin {"pushed", "model", "answered", "pushAgain"}, sent'[id] = sent[id]
      PROVE  GrowAt(id)'
  BY <1>0, <1>6 DEF GrowAt, Outlasts
<1>7. CASE CheckToken(id)
  <2>1. sent' = sent
    BY <1>7 DEF CheckToken
  <2>2. CASE IsCancelled(id)
    BY <1>0, <1>6, <1>7, <2>1, <2>2 DEF CheckToken, Leave
  <2>3. CASE ~ IsCancelled(id)
    <3>1. /\ found' = found /\ thread[id] \in {"entry", "asked", "merged", "pushed", "answered"}
          /\ thread' = [thread EXCEPT ![id] = Continue[thread[id]]]
      BY <1>7, <2>3 DEF CheckToken, GoOn, Continue
    <3>2. /\ thread[id] = "pushed" => thread'[id] = "model"
          /\ thread[id] = "answered" => thread'[id] = "pushAgain"
          /\ thread[id] \in {"entry", "asked", "merged"}
               => thread'[id] \in {"dictionaries", "merged", "push"}
      BY <1>0, <3>1 DEF Continue
    <3>3. CASE thread[id] \in {"entry", "asked", "merged"}
      BY <1>6, <2>1, <3>2, <3>3
    <3>4. CASE thread[id] \in {"pushed", "answered"}
      <4>1. Len(sent'[id]) = 2 => Outlasts(sent'[id][1].list, sent'[id][2].list)
        BY <1>0, <2>1 DEF GrowAt
      <4>2. thread[id] = "pushed" /\ sent[id] # <<>>
              => sent[id][1].list = MergeRows(found[id].rows, found[id].hits, TopK)
        BY <1>0 DEF GrowAt
      <4>3. thread[id] = "answered" /\ sent[id] # <<>>
              => \E rows \in FirstRows : /\ rows \subseteq found[id].rows
                                         /\ sent[id][1].list = MergeRows(rows, found[id].hits, TopK)
        BY <1>0 DEF GrowAt
      <4>4. QED
        BY <2>1, <3>1, <3>2, <3>4, <4>1, <4>2, <4>3 DEF GrowAt, Outlasts
    <3>5. QED
      BY <3>1, <3>3, <3>4
  <2>4. QED
    BY <2>2, <2>3
<1>8. CASE AskDictionaries(id)
  BY <1>0, <1>6, <1>8 DEF AskDictionaries
<1>9. CASE ModelFails(id) \/ ThreadPanics(id)
  BY <1>0, <1>6, <1>9 DEF ModelFails, ThreadPanics, Leave
<1>10. CASE AskModel(id)
  <2>1. PICK llm \in Answers["model"] : found' = [found EXCEPT ![id].rows = WithModelRows(@, llm)]
    BY <1>10 DEF AskModel
  <2>2. /\ thread[id] = "model" /\ thread'[id] = "answered" /\ sent' = sent
        /\ found[id].rows \in FirstRows
    BY <1>0, <1>10 DEF AskModel, FoundAt
  <2>3. found[id] \in Finding
    BY <1>0
  <2>4. found'[id].rows = WithModelRows(found[id].rows, llm) /\ found'[id].hits = found[id].hits
    BY <1>0, <2>1, <2>3 DEF Finding
  <2>5. found[id].rows \subseteq found'[id].rows
    BY <2>2, <2>4, CollectedRows
  <2>6. ASSUME sent[id] # <<>>
        PROVE  /\ found[id].rows \subseteq found'[id].rows
               /\ sent'[id][1].list = MergeRows(found[id].rows, found'[id].hits, TopK)
    BY <1>0, <2>2, <2>4, <2>5, <2>6 DEF GrowAt
  <2>7. Len(sent'[id]) = 2 => Outlasts(sent'[id][1].list, sent'[id][2].list)
    BY <1>0, <2>2 DEF GrowAt
  <2>8. QED
    BY <2>2, <2>6, <2>7 DEF GrowAt, Outlasts
<1>11. CASE PushDictionaries(id)
  <2>1. thread[id] = "push" /\ sent[id] = <<>>
    BY <1>0, <1>11 DEF PushDictionaries, PushAt, BeforeFirst
  <2>2. CASE SinkOpen(id)
    <3> DEFINE ranking == [kana |-> found[id].kana,
                           list |-> MergeRows(found[id].rows, found[id].hits, TopK)]
    <3>1. sent'[id] = Append(sent[id], ranking)
      BY <1>0, <1>11, <2>2 DEF PushDictionaries, Push, SinkOf
    <3>2. sent'[id] = <<ranking>> /\ Len(sent'[id]) = 1 /\ sent'[id][1] = ranking
      BY <2>1, <3>1
    <3>3. \/ thread'[id] = "pushed" /\ found' = found
          \/ thread'[id] = "ended"
      BY <1>0, <1>11 DEF PushDictionaries, GoOn, Leave
    <3>4. QED
      BY <3>2, <3>3 DEF GrowAt
  <2>3. CASE ~ SinkOpen(id)
    BY <1>0, <1>6, <1>11, <2>3 DEF PushDictionaries, Leave
  <2>4. QED
    BY <2>2, <2>3
<1>12. CASE PushCombined(id)
  <2>1. thread[id] = "pushAgain" /\ thread'[id] = "ended"
    BY <1>0, <1>12 DEF PushCombined, Leave
  <2>2. CASE SinkOpen(id)
    <3> DEFINE ranking == [kana |-> found[id].kana,
                           list |-> MergeRows(found[id].rows, found[id].hits, TopK)]
    <3>1. sent'[id] = Append(sent[id], ranking)
      BY <1>0, <1>12, <2>2 DEF PushCombined, Push, SinkOf
    <3> HIDE DEF ranking
    <3>2. ASSUME Len(sent'[id]) = 2 PROVE Outlasts(sent'[id][1].list, sent'[id][2].list)
      <4>1. sent[id] \in Seq(Ranking) /\ Len(sent[id]) \in Nat
        BY <1>0
      <4>2. Len(sent[id]) = 1
        <5>1. Len(sent'[id]) = Len(sent[id]) + 1
          BY <3>1, <4>1
        <5>2. ASSUME NEW n \in Nat, n + 1 = 2 PROVE n = 1
          BY <5>2
        <5>3. Len(sent[id]) + 1 = 2
          BY <3>2, <5>1
        <5>4. QED
          BY <4>1, <5>2, <5>3
      <4>3. sent'[id][1] = sent[id][1] /\ sent'[id][2] = ranking /\ sent[id] # <<>>
        BY <3>1, <4>1, <4>2
      <4>4. PICK rows \in FirstRows : /\ rows \subseteq found[id].rows
                                      /\ sent[id][1].list = MergeRows(rows, found[id].hits, TopK)
        BY <1>0, <2>1, <4>3 DEF GrowAt
      <4>5. found[id].rows \in AllRows
        BY <1>0, <2>1 DEF FoundAt
      <4>6. IsRows(rows) /\ IsRows(found[id].rows)
        BY <4>5, CollectedRows
      <4>7. ranking.list = MergeRows(found[id].rows, found[id].hits, TopK)
        BY DEF ranking
      <4>8. Outlasts(MergeRows(rows, found[id].hits, TopK),
                     MergeRows(found[id].rows, found[id].hits, TopK))
        BY <4>4, <4>6, MoreRowsOutlast
      <4>9. QED
        BY <4>3, <4>4, <4>7, <4>8
    <3>3. QED
      BY <2>1, <3>2 DEF GrowAt, Outlasts
  <2>3. CASE ~ SinkOpen(id)
    BY <1>0, <1>6, <1>12, <2>1, <2>3 DEF PushCombined
  <2>4. QED
    BY <2>2, <2>3
<1>13. CASE UNCHANGED vars
  BY <1>0, <1>13, GrowAtRest DEF vars, rankerVars
<1>14. QED
  BY <1>1, <1>2, <1>3, <1>4, <1>5, <1>7, <1>8, <1>9, <1>10, <1>11, <1>12, <1>13
  DEF Next, ThreadStep

\* The model's answer takes no candidate away from the user, unless as many as
\* fit are better (lib.rs: the second push carries the rows of the first).
THEOREM ModelTakesNothingAway == Spec => []NothingVanishes
<1>1. Init => GrowInv
  <2> SUFFICES ASSUME Init, NEW id \in RequestIds PROVE GrowAt(id)
    BY DEF GrowInv
  <2>1. thread[id] = "none" /\ sent[id] = <<>> /\ Len(<<>>) = 0
    BY DEF Init, RankerInit
  <2>2. QED
    BY <2>1 DEF GrowAt
<1>2. GrowInv => NothingVanishes
  BY DEF GrowInv, GrowAt, NothingVanishes, Outlasts
<1>3. QED
  BY <1>1, <1>2, StepGrow, RankerInvariance, PTL DEF Spec

=============================================================================
