------------------------ MODULE ConversionPipeline ------------------------
(***************************************************************************)
(* A request on its way from the engine to the worker and its answers on   *)
(* their way back, for every number of requests, every ranker and every    *)
(* interleaving of the two threads: who may still answer a request, whose   *)
(* token must have fired, and for which preedit its candidates are.         *)
(***************************************************************************)
EXTENDS ConversionTypes

-----------------------------------------------------------------------------
(***************************************************************************)
(* What the steps do to the pipeline.                                      *)
(***************************************************************************)

\* The elements of a channel after a send: the old ones where they were.
LEMMA AppendElements ==
    ASSUME NEW S, NEW s \in Seq(S), NEW e
    PROVE  \A i \in DOMAIN Append(s, e) :
             \/ i \in DOMAIN s /\ i \in Nat /\ i <= Len(s) /\ Append(s, e)[i] = s[i]
             \/ i = Len(s) + 1 /\ i \in Nat /\ Append(s, e)[i] = e
<1>1. Len(s) \in Nat /\ DOMAIN s = 1..Len(s)
  OBVIOUS
<1>2. DOMAIN Append(s, e) = 1..(Len(s) + 1)
  BY AppendProperties
<1>3. QED
  BY <1>1, <1>2

\* The elements of a channel after a receive: one place to the front.
LEMMA TailElements ==
    ASSUME NEW S, NEW s \in Seq(S), s # <<>>
    PROVE  /\ 1 \in DOMAIN s /\ Head(s) = s[1]
           /\ \A i \in DOMAIN Tail(s) :
                i \in Nat /\ i > 0 /\ i + 1 \in DOMAIN s /\ Tail(s)[i] = s[i + 1]
<1>1. Len(s) \in Nat /\ Len(s) > 0 /\ DOMAIN s = 1..Len(s)
  BY EmptySeq
<1>2. /\ Tail(s) \in Seq(S) /\ Len(Tail(s)) = Len(s) - 1
      /\ \A i \in 1..(Len(s) - 1) : Tail(s)[i] = s[i + 1]
  BY HeadTailProperties
<1>3. DOMAIN Tail(s) = 1..(Len(s) - 1)
  BY <1>2
<1>4. QED
  BY <1>1, <1>2, <1>3

\* The engine asks, gives up, looks on, or takes an event.
Ends ==
    /\ preedit' = <<>> /\ active' = None
    /\ cancelled' = CancelActive
    /\ UNCHANGED <<seed, connected, requests, events>>

LooksOn == UNCHANGED <<preedit, active, seed, channelVars>>

Receives ==
    /\ ReceiveOutput
    /\ UNCHANGED seed
    /\ \/ UNCHANGED <<preedit, active>>
       \/ IsCurrent /\ NextOutput.payload = "Error" /\ preedit' = <<>> /\ active' = None

\* Every step of the engine is one of the four as far as the pipeline sees it.
LEMMA EngineEffects ==
    ASSUME TInv, EngineStep
    PROVE  /\ UNCHANGED workerVars
           /\ \/ \E mode \in Modes : \E kana \in KanaString : Dispatch(mode, kana)
              \/ Ends
              \/ LooksOn
              \/ Receives
<1>1. UNCHANGED workerVars /\ EngineNext
  BY DEF EngineStep
<1>2. "Live" \in Modes /\ "Commit" \in Modes /\ <<>> \in KanaString /\ preedit \in KanaString
  BY DEF Modes, KanaString, TInv, TypeOK, EngineTypeOK
<1>3. ASSUME NEW stroke \in Strokes, HandleTyping(stroke)
      PROVE  (\E kana \in KanaString : Dispatch("Live", kana)) \/ LooksOn
  <2>1. preedit \o stroke \in KanaString
    <3>1. stroke \in Seq(Kana) /\ preedit \in Seq(Kana)
      BY StrokesAssumption, <1>2 DEF KanaString
    <3>2. QED
      BY <3>1, ConcatProperties DEF KanaString
  <2>2. QED
    BY <1>3, <2>1 DEF HandleTyping, LooksOn
<1>4. ASSUME HandleBackspace
      PROVE  (\E kana \in KanaString : Dispatch("Live", kana)) \/ Ends
  <2> DEFINE kana == IF preedit = <<>> THEN <<>> ELSE SubSeq(preedit, 1, Len(preedit) - 1)
  <2>1. ASSUME preedit # <<>> PROVE SubSeq(preedit, 1, Len(preedit) - 1) \in KanaString
    <3>1. preedit \in Seq(Kana) /\ Len(preedit) \in Nat \ {0}
      BY <1>2, <2>1, EmptySeq DEF KanaString
    <3>2. Len(preedit) - 1 \in 0..Len(preedit) /\ 1 \in 1..(Len(preedit) + 1)
      BY <3>1
    <3>3. QED
      BY <3>1, <3>2, SubSeqProperties DEF KanaString
  <2>2. kana \in KanaString
    BY <1>2, <2>1
  <2>3. Dispatch("Live", kana) \/ Ends
    BY <1>4 DEF HandleBackspace, Ends
  <2> HIDE DEF kana
  <2>4. QED
    BY <2>2, <2>3
<1>5. HandleSpace => Dispatch("Commit", preedit)
  BY DEF HandleSpace
<1>6. NavigateForward \/ NavigateBack => LooksOn
  BY DEF NavigateForward, NavigateBack, HandleNavigation, LooksOn
<1>7. HandleReturn => Ends
  BY DEF HandleReturn, ForgetConversion, Ends
<1>8. HandleEscape => Dispatch("Live", preedit) \/ Ends
  BY DEF HandleEscape, ForgetConversion, Ends
<1>9. HostCall => Ends \/ LooksOn
  BY DEF HostCall, FocusIn, FocusOut, Reset, Enable, Disable, EndConversion,
         ForgetConversion, Ends, LooksOn
<1>10. HandleOutput => Receives
  BY DEF HandleOutput, DiscardStaleOutput, ApplyCandidates, DegradeToIdle,
         ForgetConversion, Receives, engineVars
<1>11. QED
  BY <1>1, <1>2, <1>3, <1>4, <1>5, <1>6, <1>7, <1>8, <1>9, <1>10 DEF EngineNext, HandleKey

\* The worker collects, offers what the first window found, or finishes.
Collects ==
    /\ Working /\ Working'
    /\ UNCHANGED <<job, requests, events, cancelled>>
    /\ phase' = phase \/ (phase = "rank" /\ phase' = "first")
    /\ phase' = "second" => buffer' = buffer
    /\ AllRead(buffer, job.kana) => AllRead(buffer', job.kana)
    /\ AllRead(second, job.kana) => AllRead(second', job.kana)

Offers ==
    /\ phase = "first" /\ phase' = "second"
    /\ events' = Append(events, CandidatesEvent(job.id, buffer))
    /\ UNCHANGED <<job, buffer, second, requests, cancelled>>

Finishes ==
    /\ Working /\ ~Working'
    /\ UNCHANGED <<requests, cancelled>>
    /\ buffer' = <<>> /\ second' = <<>>
    /\ \/ events' = events
       \/ events' = Append(events, ErrorEvent(job.id))
       \/ /\ phase = "first"
          /\ events' = Append(events, CandidatesEvent(job.id, buffer))
       \/ /\ phase = "second"
          /\ events' = Append(events, CandidatesEvent(job.id, buffer \o second))

Leaves ==
    /\ ~Working /\ ~Working'
    /\ requests' = <<>>
    /\ UNCHANGED <<events, cancelled, buffer, second>>

\* Every step of the worker receives a request or is one of the four above.
LEMMA WorkerEffects ==
    ASSUME TInv, WorkerStep
    PROVE  /\ UNCHANGED engineVars
           /\ WorkerReceive \/ Collects \/ Offers \/ Finishes \/ Leaves
<1>1. UNCHANGED engineVars /\ WorkerNext
  BY DEF WorkerStep
<1>2. RankReturns => Collects
  BY DEF RankReturns, Collects, Working, channelVars
<1>3. RankFails => Finishes
  BY DEF RankFails, Finish, DropJob, Finishes, Working
<1>4. ASSUME TakePush PROVE Collects
  <2>1. /\ Working /\ Working' /\ phase' = phase
        /\ UNCHANGED <<job, requests, events, cancelled>>
    BY <1>4 DEF TakePush, Working, channelVars
  <2>2. job.kana \in KanaString /\ buffer \in Seq(Candidate) /\ second \in Seq(Candidate)
    BY <2>1 DEF TInv, TypeOK, WorkerTypeOK, RankRequest
  <2>3. PICK push \in Pushes :
          LET update == [kind |-> push.kind, from |-> push.from, to |-> push.to,
                         list |-> CandidatesFor(job.kana, push.rows)]
          IN  IF phase = "first"
              THEN buffer' = Applied(buffer, update) /\ UNCHANGED second
              ELSE second' = Applied(second, update) /\ UNCHANGED buffer
    BY <1>4 DEF TakePush
  <2> DEFINE update == [kind |-> push.kind, from |-> push.from, to |-> push.to,
                        list |-> CandidatesFor(job.kana, push.rows)]
  <2>4. update.list \in Seq(Candidate) /\ AllRead(update.list, job.kana)
    BY <2>2, PushAssumption, CandidatesForRead
  <2>5. /\ update.kind \in {"Replace", "Append", "Remove", "Clear"}
        /\ update.from \in Nat /\ update.to \in Nat
    BY PushAssumption
  <2> HIDE DEF update
  <2>6. \A list \in Seq(Candidate) :
          AllRead(list, job.kana) => AllRead(Applied(list, update), job.kana)
    BY <2>4, <2>5, AppliedReads
  <2>7. IF phase = "first"
        THEN buffer' = Applied(buffer, update) /\ UNCHANGED second
        ELSE second' = Applied(second, update) /\ UNCHANGED buffer
    BY <2>3 DEF update
  <2>8. phase = "first" \/ phase = "second"
    BY <1>4 DEF TakePush
  <2>9. phase' = "second" => buffer' = buffer
    BY <2>1, <2>7, <2>8
  <2>10. AllRead(buffer, job.kana) => AllRead(buffer', job.kana)
    <3>1. buffer' = buffer \/ buffer' = Applied(buffer, update)
      BY <2>7
    <3>2. QED
      BY <2>2, <2>6, <3>1
  <2>11. AllRead(second, job.kana) => AllRead(second', job.kana)
    <3>1. second' = second \/ second' = Applied(second, update)
      BY <2>7
    <3>2. QED
      BY <2>2, <2>6, <3>1
  <2>12. phase' = phase \/ (phase = "rank" /\ phase' = "first")
    BY <2>1
  <2>13. QED
    BY <2>1, <2>9, <2>10, <2>11, <2>12, Zenon DEF Collects
<1>5. CloseFirstWindow => Offers \/ Finishes
  BY DEF CloseFirstWindow, Finish, DropJob, Offers, Finishes, Working
<1>6. CloseSecondWindow => Finishes
  BY DEF CloseSecondWindow, Finish, DropJob, Finishes, Working
<1>7. WorkerPanics => Finishes
  BY DEF WorkerPanics, DropJob, Finishes, Working
<1>8. WorkerExits => Leaves
  BY DEF WorkerExits, Leaves, Working
<1>9. QED
  BY <1>1, <1>2, <1>3, <1>4, <1>5, <1>6, <1>7, <1>8 DEF WorkerNext

-----------------------------------------------------------------------------
(***************************************************************************)
(* Who may still answer a request.                                         *)
(***************************************************************************)

\* Ids are handed out in order, so a new one is on no request, job or event.
IdsIssued ==
    /\ \A i \in DOMAIN requests : requests[i].id <= seed
    /\ Working => job.id <= seed
    /\ \A i \in DOMAIN events : events[i].id <= seed
    /\ active <= seed

\* A request is in one place: queued, or with the worker, and it has no answer
\* before its first window closes.
IdsDistinct ==
    /\ \A i, j \in DOMAIN requests : requests[i].id = requests[j].id => i = j
    /\ Working => \A i \in DOMAIN requests : requests[i].id # job.id
    /\ \A i \in DOMAIN requests : \A j \in DOMAIN events : requests[i].id # events[j].id
    /\ phase \in {"rank", "first"} => \A j \in DOMAIN events : events[j].id # job.id

\* Facts on the types that the proofs below share.
LEMMA PipelineTypes ==
    ASSUME TInv
    PROVE  /\ requests \in Seq(RankRequest) /\ events \in Seq(WorkerOutput)
           /\ \A i \in DOMAIN requests : requests[i].id \in Nat \ {0}
           /\ \A i \in DOMAIN events : events[i].id \in Nat \ {0}
           /\ Working => job.id \in Nat \ {0}
           /\ seed \in Nat /\ active \in Nat /\ None = 0
           /\ Len(events) \in Nat
<1>1. requests \in Seq(RankRequest) /\ events \in Seq(WorkerOutput)
  BY DEF TInv, TypeOK, ChannelsTypeOK
<1>2. \A id \in RequestIds : id \in Nat \ {0}
  BY RequestBound DEF RequestIds
<1>3. \A i \in DOMAIN requests : requests[i].id \in RequestIds
  <2>1. \A i \in DOMAIN requests : requests[i] \in RankRequest
    BY <1>1
  <2>2. \A r \in RankRequest : r.id \in RequestIds
    BY DEF RankRequest
  <2>3. QED
    BY <2>1, <2>2
<1>4. \A i \in DOMAIN events : events[i].id \in RequestIds
  <2>1. \A i \in DOMAIN events : events[i] \in WorkerOutput
    BY <1>1
  <2>2. \A e \in WorkerOutput : e.id \in RequestIds
    BY DEF WorkerOutput
  <2>3. QED
    BY <2>1, <2>2
<1>5. Working => job.id \in RequestIds
  BY DEF TInv, TypeOK, WorkerTypeOK, RankRequest
<1>6. seed \in Nat /\ active \in RequestIds \cup {0} /\ None = 0
  BY RequestBound DEF TInv, TypeOK, EngineTypeOK, None
<1>7. QED
  BY <1>1, <1>2, <1>3, <1>4, <1>5, <1>6

\* What is queued after a dispatch, and the id it has taken.
LEMMA DispatchEffects ==
    ASSUME TInv, NEW mode \in Modes, NEW kana \in KanaString, Dispatch(mode, kana)
    PROVE  /\ seed' = seed + 1 /\ UNCHANGED events
           /\ \A i \in DOMAIN requests' :
                \/ i \in DOMAIN requests /\ i \in Nat /\ i <= Len(requests)
                   /\ requests'[i] = requests[i]
                \/ /\ i = Len(requests) + 1
                   /\ requests'[i].id = seed + 1 /\ requests'[i].kana = preedit'
           /\ active' = seed + 1 \/ (active' = None /\ UNCHANGED requests)
           /\ active \in cancelled' \/ active = None
           /\ cancelled \subseteq cancelled'
<1>1. requests \in Seq(RankRequest)
  BY DEF TInv, TypeOK, ChannelsTypeOK
<1>2. seed' = seed + 1 /\ UNCHANGED events
  BY DEF Dispatch
<1>3. /\ active \in cancelled' \/ active = None
      /\ cancelled \subseteq cancelled'
  BY DEF Dispatch, CancelActive
<1>4. CASE connected
  <2>1. /\ requests' = Append(requests, [id |-> seed + 1, kana |-> kana, mode |-> mode])
        /\ preedit' = kana /\ active' = seed + 1
    BY <1>4 DEF Dispatch
  <2> DEFINE new == [id |-> seed + 1, kana |-> kana, mode |-> mode]
  <2>2. new.id = seed + 1 /\ new.kana = preedit'
    BY <2>1
  <2>3. requests' = Append(requests, new)
    BY <2>1
  <2> HIDE DEF new
  <2>4. \A i \in DOMAIN requests' :
          \/ i \in DOMAIN requests /\ i \in Nat /\ i <= Len(requests)
             /\ requests'[i] = requests[i]
          \/ i = Len(requests) + 1 /\ requests'[i] = new
    BY <1>1, <2>3, AppendElements
  <2>5. QED
    BY <1>2, <1>3, <2>1, <2>2, <2>4
<1>5. CASE ~connected
  <2>1. UNCHANGED requests /\ active' = None
    BY <1>5 DEF Dispatch, ForgetConversion
  <2>2. \A i \in DOMAIN requests : i \in Nat /\ i <= Len(requests)
    BY <1>1
  <2>3. QED
    BY <1>2, <1>3, <2>1, <2>2
<1>6. QED
  BY <1>4, <1>5

\* What the worker appends is about its job, and nothing else changes.
LEMMA ReportEffects ==
    ASSUME TInv, Offers \/ Finishes
    PROVE  \A i \in DOMAIN events' :
             \/ i \in DOMAIN events /\ i \in Nat /\ i <= Len(events) /\ events'[i] = events[i]
             \/ /\ i = Len(events) + 1 /\ i \in Nat
                /\ events'[i].id = job.id
                /\ \/ Finishes /\ events'[i] = ErrorEvent(job.id)
                   \/ /\ phase = "first"
                      /\ events'[i] = CandidatesEvent(job.id, buffer)
                   \/ /\ phase = "second"
                      /\ events'[i] = CandidatesEvent(job.id, buffer \o second)
<1>1. events \in Seq(WorkerOutput)
  BY DEF TInv, TypeOK, ChannelsTypeOK
<1>2. \A i \in DOMAIN events : i \in Nat /\ i <= Len(events)
  BY <1>1
<1>3. \A list : CandidatesEvent(job.id, list).id = job.id
  BY DEF CandidatesEvent
<1>4. ErrorEvent(job.id).id = job.id
  BY DEF ErrorEvent
<1>5. CASE events' = events
  BY <1>2, <1>5
<1>6. CASE Finishes /\ events' = Append(events, ErrorEvent(job.id))
  BY <1>1, <1>4, <1>6, AppendElements
<1>7. CASE phase = "first" /\ events' = Append(events, CandidatesEvent(job.id, buffer))
  BY <1>1, <1>3, <1>7, AppendElements
<1>8. CASE /\ phase = "second"
           /\ events' = Append(events, CandidatesEvent(job.id, buffer \o second))
  BY <1>1, <1>3, <1>8, AppendElements
<1>9. QED
  BY <1>5, <1>6, <1>7, <1>8 DEF Offers, Finishes

\* Both facts about ids are inductive, given the types.
LEMMA IdsKept ==
    ASSUME TInv, TInv', [Next]_vars, IdsIssued, IdsDistinct
    PROVE  IdsIssued' /\ IdsDistinct'
<1> USE PipelineTypes
<1>1. CASE EngineStep
  <2>1. /\ UNCHANGED workerVars
        /\ \/ \E mode \in Modes : \E kana \in KanaString : Dispatch(mode, kana)
           \/ Ends
           \/ LooksOn
           \/ Receives
    BY <1>1, EngineEffects
  <2>2. UNCHANGED <<phase, job, Working>>
    BY <2>1 DEF workerVars, Working
  <2>3. ASSUME NEW mode \in Modes, NEW kana \in KanaString, Dispatch(mode, kana)
        PROVE  IdsIssued' /\ IdsDistinct'
    <3>1. /\ seed' = seed + 1 /\ UNCHANGED events
          /\ \A i \in DOMAIN requests' :
                \/ i \in DOMAIN requests /\ i \in Nat /\ i <= Len(requests)
                   /\ requests'[i] = requests[i]
                \/ /\ i = Len(requests) + 1 /\ requests'[i].id = seed + 1
          /\ active' = seed + 1 \/ active' = None
      BY <2>3, DispatchEffects
    <3>2. IdsIssued'
      BY <2>2, <3>1 DEF IdsIssued
    <3>3. IdsDistinct'
      BY <2>2, <3>1 DEF IdsIssued, IdsDistinct
    <3>4. QED
      BY <3>2, <3>3
  <2>4. CASE Ends \/ LooksOn
    <3>1. UNCHANGED <<seed, requests, events>> /\ (active' = None \/ active' = active)
      BY <2>4 DEF Ends, LooksOn, channelVars
    <3>2. QED
      BY <2>2, <3>1 DEF IdsIssued, IdsDistinct
  <2>5. CASE Receives
    <3>1. /\ UNCHANGED <<seed, requests>> /\ (active' = None \/ active' = active)
          /\ events # <<>> /\ events' = Tail(events)
      BY <2>5 DEF Receives, ReceiveOutput
    <3>2. \A i \in DOMAIN events' : i + 1 \in DOMAIN events /\ events'[i] = events[i + 1]
      BY <3>1, TailElements
    <3>3. IdsIssued'
      BY <2>2, <3>1, <3>2 DEF IdsIssued
    <3>4. IdsDistinct'
      BY <2>2, <3>1, <3>2 DEF IdsDistinct
    <3>5. QED
      BY <3>3, <3>4
  <2>6. QED
    BY <2>1, <2>3, <2>4, <2>5
<1>2. CASE WorkerStep
  <2>1. /\ UNCHANGED engineVars
        /\ WorkerReceive \/ Collects \/ Offers \/ Finishes \/ Leaves
    BY <1>2, WorkerEffects
  <2>2. UNCHANGED <<seed, active>>
    BY <2>1 DEF engineVars
  <2>3. CASE WorkerReceive
    <3>1. /\ requests # <<>> /\ job' = Head(requests) /\ requests' = Tail(requests)
          /\ Working' /\ UNCHANGED events
      BY <2>3 DEF WorkerReceive, Working
    <3>2. /\ 1 \in DOMAIN requests /\ job' = requests[1]
          /\ \A i \in DOMAIN requests' : /\ i \in Nat /\ i > 0 /\ i + 1 \in DOMAIN requests
                                         /\ requests'[i] = requests[i + 1]
      BY <3>1, TailElements
    <3>3. IdsIssued'
      BY <2>2, <3>1, <3>2 DEF IdsIssued
    <3>4. \A i \in DOMAIN requests' : requests'[i].id # job'.id
      BY <3>2 DEF IdsDistinct
    <3>5. \A i, j \in DOMAIN requests' : requests'[i].id = requests'[j].id => i = j
      <4>1. ASSUME NEW i \in DOMAIN requests', NEW j \in DOMAIN requests',
                   requests'[i].id = requests'[j].id
            PROVE  i = j
        <5>1. i + 1 = j + 1
          BY <3>2, <4>1 DEF IdsDistinct
        <5>2. QED
          BY <3>2, <5>1
      <4>2. QED
        BY <4>1
    <3>6. \A j \in DOMAIN events : events[j].id # job'.id
      BY <3>2 DEF IdsDistinct
    <3>7. \A i \in DOMAIN requests' : \A j \in DOMAIN events : requests'[i].id # events[j].id
      BY <3>2 DEF IdsDistinct
    <3>8. IdsDistinct'
      BY <3>1, <3>4, <3>5, <3>6, <3>7 DEF IdsDistinct
    <3>9. QED
      BY <3>3, <3>8
  <2>4. CASE Collects
    <3>1. /\ Working /\ Working' /\ UNCHANGED <<job, requests, events>>
          /\ phase' \in {"rank", "first"} => phase \in {"rank", "first"}
      BY <2>4 DEF Collects
    <3>2. QED
      BY <2>2, <3>1 DEF IdsIssued, IdsDistinct
  <2>5. CASE Offers \/ Finishes
    <3>1. /\ Working /\ UNCHANGED requests
          /\ Working' => job' = job
          /\ phase' \notin {"rank", "first"}
      BY <2>5 DEF Offers, Finishes, Working
    <3>2. \A i \in DOMAIN events' :
             \/ i \in DOMAIN events /\ events'[i] = events[i]
             \/ events'[i].id = job.id
      BY <2>5, ReportEffects
    <3>3. IdsIssued'
      BY <2>2, <3>1, <3>2 DEF IdsIssued
    <3>4. IdsDistinct'
      BY <3>1, <3>2 DEF IdsDistinct
    <3>5. QED
      BY <3>3, <3>4
  <2>6. CASE Leaves
    <3>1. ~Working' /\ requests' = <<>> /\ UNCHANGED events /\ phase' \notin {"rank", "first"}
      BY <2>6 DEF Leaves, Working
    <3>2. QED
      BY <2>2, <3>1 DEF IdsIssued, IdsDistinct
  <2>7. QED
    BY <2>1, <2>3, <2>4, <2>5, <2>6
<1>3. CASE UNCHANGED vars
  BY <1>3 DEF vars, engineVars, channelVars, workerVars, IdsIssued, IdsDistinct, Working
<1>4. QED
  BY <1>1, <1>2, <1>3 DEF Next

\* The worker works off what it was given and never takes on anything else.
LEMMA WorkerTakesNoMore ==
    ASSUME TInv, WorkerStep
    PROVE  PendingIds' \subseteq PendingIds
<1> USE PipelineTypes
<1>0. WorkerReceive \/ Collects \/ Offers \/ Finishes \/ Leaves
  BY WorkerEffects
<1>1. CASE WorkerReceive
  <2>1. /\ requests # <<>> /\ job' = Head(requests) /\ requests' = Tail(requests)
        /\ ~Working
    BY <1>1 DEF WorkerReceive, Working
  <2>2. /\ 1 \in DOMAIN requests /\ job' = requests[1]
        /\ \A i \in DOMAIN requests' : i + 1 \in DOMAIN requests
                                       /\ requests'[i] = requests[i + 1]
    BY <2>1, TailElements
  <2>3. QED
    BY <2>2 DEF PendingIds
<1>2. CASE Collects
  BY <1>2 DEF Collects, PendingIds
<1>3. CASE Offers \/ Finishes
  <2>1. Working /\ UNCHANGED requests /\ (Working' => job' = job)
    BY <1>3 DEF Offers, Finishes, Working
  <2>2. QED
    BY <2>1 DEF PendingIds
<1>4. CASE Leaves
  BY <1>4 DEF Leaves, PendingIds
<1>5. QED
  BY <1>0, <1>1, <1>2, <1>3, <1>4

\* An error comes from a job that ends with it, so nothing can follow it.
LEMMA ErrorStaysLast ==
    ASSUME TInv, [Next]_vars, IdsIssued, IdsDistinct, ErrorIsLast
    PROVE  ErrorIsLast'
<1> USE PipelineTypes
<1>1. CASE EngineStep
  <2>1. /\ UNCHANGED workerVars
        /\ \/ \E mode \in Modes : \E kana \in KanaString : Dispatch(mode, kana)
           \/ Ends
           \/ LooksOn
           \/ Receives
    BY <1>1, EngineEffects
  <2>2. UNCHANGED <<job, Working>>
    BY <2>1 DEF workerVars, Working
  <2>3. ASSUME NEW mode \in Modes, NEW kana \in KanaString, Dispatch(mode, kana)
        PROVE  ErrorIsLast'
    <3>1. /\ UNCHANGED events
          /\ \A i \in DOMAIN requests' :
                \/ i \in DOMAIN requests /\ requests'[i] = requests[i]
                \/ requests'[i].id = seed + 1
      BY <2>3, DispatchEffects
    <3>2. \A id : id \in PendingIds' => id \in PendingIds \/ id = seed + 1
      BY <2>2, <3>1 DEF PendingIds
    <3>3. \A i \in DOMAIN events : events[i].id # seed + 1
      BY DEF IdsIssued
    <3>4. QED
      BY <3>1, <3>2, <3>3 DEF ErrorIsLast
  <2>4. CASE Ends \/ LooksOn
    <3>1. UNCHANGED <<requests, events>>
      BY <2>4 DEF Ends, LooksOn, channelVars
    <3>2. PendingIds' = PendingIds
      BY <2>2, <3>1 DEF PendingIds
    <3>3. QED
      BY <3>1, <3>2 DEF ErrorIsLast
  <2>5. CASE Receives
    <3>1. UNCHANGED requests /\ events # <<>> /\ events' = Tail(events)
      BY <2>5 DEF Receives, ReceiveOutput
    <3>2. \A i \in DOMAIN events' : i \in Nat /\ i + 1 \in DOMAIN events
                                    /\ events'[i] = events[i + 1]
      BY <3>1, TailElements
    <3>3. PendingIds' = PendingIds
      BY <2>2, <3>1 DEF PendingIds
    <3>4. ASSUME NEW i \in DOMAIN events', events'[i].payload = "Error"
          PROVE  /\ events'[i].id \notin PendingIds
                 /\ \A j \in DOMAIN events' : j > i => events'[j].id # events'[i].id
      <4>1. events[i + 1].payload = "Error" /\ i + 1 \in DOMAIN events
        BY <3>2, <3>4
      <4>2. \A j \in DOMAIN events' : j > i => j + 1 > i + 1
        BY <3>2
      <4>3. QED
        BY <3>2, <4>1, <4>2 DEF ErrorIsLast
    <3>5. QED
      BY <3>3, <3>4 DEF ErrorIsLast
  <2>6. QED
    BY <2>1, <2>3, <2>4, <2>5
<1>2. CASE WorkerStep
  <2>1. WorkerReceive \/ Collects \/ Offers \/ Finishes \/ Leaves
    BY <1>2, WorkerEffects
  <2>2. CASE WorkerReceive \/ Collects \/ Leaves
    <3>1. UNCHANGED events
      BY <2>2 DEF WorkerReceive, Collects, Leaves
    <3>2. PendingIds' \subseteq PendingIds
      BY <1>2, WorkerTakesNoMore
    <3>3. QED
      BY <3>1, <3>2 DEF ErrorIsLast
  <2>3. CASE Offers \/ Finishes
    <3>1. Working /\ UNCHANGED requests /\ (Working' => job' = job)
      BY <2>3 DEF Offers, Finishes, Working
    <3>2. PendingIds' \subseteq PendingIds /\ job.id \in PendingIds
      BY <3>1 DEF PendingIds
    <3>3. \A i \in DOMAIN events' :
             \/ i \in DOMAIN events /\ i \in Nat /\ i <= Len(events) /\ events'[i] = events[i]
             \/ /\ i = Len(events) + 1 /\ events'[i].id = job.id
                /\ events'[i].payload = "Error" => Finishes
      BY <2>3, ReportEffects DEF CandidatesEvent
    <3>4. ASSUME NEW i \in DOMAIN events', events'[i].payload = "Error"
          PROVE  /\ events'[i].id \notin PendingIds'
                 /\ \A j \in DOMAIN events' : j > i => events'[j].id # events'[i].id
      <4>1. CASE i \in DOMAIN events /\ i \in Nat /\ events'[i] = events[i]
        <5>1. /\ events[i].id \notin PendingIds
              /\ \A j \in DOMAIN events : j > i => events[j].id # events[i].id
          BY <3>4, <4>1 DEF ErrorIsLast
        <5>2. QED
          BY <3>2, <3>3, <4>1, <5>1
      <4>2. CASE i = Len(events) + 1 /\ events'[i].id = job.id /\ Finishes
        <5>1. ~Working' /\ (\A k \in DOMAIN requests' : requests'[k].id # job.id)
          BY <3>1, <4>2 DEF Finishes, IdsDistinct
        <5>2. job.id \notin PendingIds'
          BY <5>1 DEF PendingIds
        <5>3. \A j \in DOMAIN events' : ~(j > i)
          BY <3>3, <4>2
        <5>4. QED
          BY <4>2, <5>2, <5>3
      <4>3. QED
        BY <3>3, <3>4, <4>1, <4>2
    <3>5. QED
      BY <3>4 DEF ErrorIsLast
  <2>4. QED
    BY <2>1, <2>2, <2>3
<1>3. CASE UNCHANGED vars
  <2>1. UNCHANGED <<events, requests, job, Working>>
    BY <1>3 DEF vars, channelVars, workerVars, Working
  <2>2. PendingIds' = PendingIds
    BY <2>1 DEF PendingIds
  <2>3. QED
    BY <2>1, <2>2 DEF ErrorIsLast
<1>4. QED
  BY <1>1, <1>2, <1>3 DEF Next

\* No conversion is abandoned without a word to the worker.  The token that
\* degrade_to_idle does not fire is that of a request with an error for an
\* answer, which ErrorIsLast says is out of the worker's hands.
LEMMA UnwantedStayCancelled ==
    ASSUME TInv, [Next]_vars, ErrorIsLast, UnwantedAreCancelled
    PROVE  UnwantedAreCancelled'
<1> USE PipelineTypes
<1>0. \A id \in PendingIds : id # None
  BY DEF PendingIds
<1>1. CASE EngineStep
  <2>1. /\ UNCHANGED workerVars
        /\ \/ \E mode \in Modes : \E kana \in KanaString : Dispatch(mode, kana)
           \/ Ends
           \/ LooksOn
           \/ Receives
    BY <1>1, EngineEffects
  <2>2. UNCHANGED <<job, Working>>
    BY <2>1 DEF workerVars, Working
  <2>3. ASSUME NEW mode \in Modes, NEW kana \in KanaString, Dispatch(mode, kana)
        PROVE  UnwantedAreCancelled'
    <3>1. /\ \A i \in DOMAIN requests' :
                \/ i \in DOMAIN requests /\ requests'[i] = requests[i]
                \/ requests'[i].id = seed + 1
          /\ active' = seed + 1 \/ UNCHANGED requests
          /\ active \in cancelled' \/ active = None
          /\ cancelled \subseteq cancelled'
      BY <2>3, DispatchEffects
    <3>2. PendingIds' \subseteq PendingIds \cup {active'}
      BY <2>2, <3>1 DEF PendingIds
    <3>3. QED
      BY <1>0, <3>1, <3>2 DEF UnwantedAreCancelled, IsCancelled
  <2>4. CASE Ends \/ LooksOn
    <3>1. UNCHANGED <<requests, events>>
      BY <2>4 DEF Ends, LooksOn, channelVars
    <3>2. PendingIds' = PendingIds
      BY <2>2, <3>1 DEF PendingIds
    <3>3. \A id \in PendingIds : id = active \/ id \in cancelled
      BY DEF UnwantedAreCancelled, IsCancelled
    <3>4. \A id \in PendingIds : id = active' \/ id \in cancelled'
      BY <1>0, <2>4, <3>3 DEF Ends, CancelActive, LooksOn, channelVars
    <3>5. QED
      BY <3>2, <3>4 DEF UnwantedAreCancelled, IsCancelled
  <2>5. CASE Receives
    <3>1. /\ UNCHANGED <<requests, cancelled>> /\ events # <<>>
          /\ \/ active' = active
             \/ Head(events).id = active /\ Head(events).payload = "Error"
      BY <2>5 DEF Receives, ReceiveOutput, IsCurrent, NextOutput
    <3>2. 1 \in DOMAIN events /\ Head(events) = events[1]
      BY <3>1, TailElements
    <3>3. PendingIds' = PendingIds
      BY <2>2, <3>1 DEF PendingIds
    <3>4. active' = active \/ active \notin PendingIds
      BY <3>1, <3>2 DEF ErrorIsLast
    <3>5. QED
      BY <3>1, <3>3, <3>4 DEF UnwantedAreCancelled, IsCancelled
  <2>6. QED
    BY <2>1, <2>3, <2>4, <2>5
<1>2. CASE WorkerStep
  <2>1. UNCHANGED engineVars /\ (WorkerReceive \/ Collects \/ Offers \/ Finishes \/ Leaves)
    BY <1>2, WorkerEffects
  <2>2. UNCHANGED <<active, cancelled>>
    BY <2>1 DEF engineVars, WorkerReceive, Collects, Offers, Finishes, Leaves
  <2>3. PendingIds' \subseteq PendingIds
    BY <1>2, WorkerTakesNoMore
  <2>4. QED
    BY <2>2, <2>3 DEF UnwantedAreCancelled, IsCancelled
<1>3. CASE UNCHANGED vars
  <2>1. UNCHANGED <<active, cancelled, requests, job, Working>>
    BY <1>3 DEF vars, channelVars, workerVars, engineVars, Working
  <2>2. PendingIds' = PendingIds
    BY <2>1 DEF PendingIds
  <2>3. QED
    BY <2>1, <2>2 DEF UnwantedAreCancelled, IsCancelled
<1>4. QED
  BY <1>1, <1>2, <1>3 DEF Next

-----------------------------------------------------------------------------
(***************************************************************************)
(* For which preedit an answer was computed.                               *)
(***************************************************************************)

\* The active request was issued for the present preedit, and so are, all the
\* way back to the engine, the candidates found for it.
ReadingsMatch ==
    /\ \A i \in DOMAIN requests : requests[i].id = active => requests[i].kana = preedit
    /\ Working /\ job.id = active => job.kana = preedit
    /\ Working => AllRead(buffer, job.kana) /\ AllRead(second, job.kana)
    /\ ~Working => buffer = <<>> /\ second = <<>>
    /\ \A i \in DOMAIN events : events[i].id = active => AllRead(events[i].list, preedit)

\* A dispatch takes a new id with the new preedit, and every way to change the
\* preedit without one gives up the active request.
LEMMA ReadingsKept ==
    ASSUME TInv, [Next]_vars, IdsIssued, ReadingsMatch
    PROVE  ReadingsMatch'
<1> USE PipelineTypes
<1>1. CASE EngineStep
  <2>1. /\ UNCHANGED workerVars
        /\ \/ \E mode \in Modes : \E kana \in KanaString : Dispatch(mode, kana)
           \/ Ends
           \/ LooksOn
           \/ Receives
    BY <1>1, EngineEffects
  <2>2. UNCHANGED <<job, buffer, second, Working>>
    BY <2>1 DEF workerVars, Working
  <2>3. /\ Working' => AllRead(buffer', job'.kana) /\ AllRead(second', job'.kana)
        /\ ~Working' => buffer' = <<>> /\ second' = <<>>
    BY <2>2 DEF ReadingsMatch
  <2> SUFFICES
        /\ \A i \in DOMAIN requests' :
             requests'[i].id = active' => requests'[i].kana = preedit'
        /\ Working /\ job.id = active' => job.kana = preedit'
        /\ \A i \in DOMAIN events' :
             events'[i].id = active' => AllRead(events'[i].list, preedit')
    BY <2>2, <2>3 DEF ReadingsMatch
  <2>4. ASSUME NEW mode \in Modes, NEW kana \in KanaString, Dispatch(mode, kana)
        PROVE  /\ \A i \in DOMAIN requests' :
                    requests'[i].id = active' => requests'[i].kana = preedit'
               /\ Working /\ job.id = active' => job.kana = preedit'
               /\ \A i \in DOMAIN events' :
                    events'[i].id = active' => AllRead(events'[i].list, preedit')
    <3>1. /\ UNCHANGED events
          /\ \A i \in DOMAIN requests' :
                \/ i \in DOMAIN requests /\ requests'[i] = requests[i]
                \/ requests'[i].kana = preedit'
          /\ active' = seed + 1 \/ active' = None
      BY <2>4, DispatchEffects
    <3>2. /\ \A i \in DOMAIN requests : requests[i].id # active'
          /\ \A i \in DOMAIN events : events[i].id # active'
          /\ Working => job.id # active'
      BY <3>1 DEF IdsIssued
    <3>3. QED
      BY <3>1, <3>2
  <2>5. CASE Ends
    <3>1. UNCHANGED <<requests, events>> /\ active' = 0
      BY <2>5 DEF Ends, None
    <3>2. QED
      BY <3>1
  <2>6. CASE LooksOn
    BY <2>6 DEF LooksOn, channelVars, ReadingsMatch
  <2>7. CASE Receives
    <3>1. /\ UNCHANGED requests /\ events # <<>> /\ events' = Tail(events)
          /\ \/ UNCHANGED <<preedit, active>>
             \/ active' = 0
      BY <2>7 DEF Receives, ReceiveOutput, None
    <3>2. \A i \in DOMAIN events' : i + 1 \in DOMAIN events /\ events'[i] = events[i + 1]
      BY <3>1, TailElements
    <3>3. CASE UNCHANGED <<preedit, active>>
      BY <3>1, <3>2, <3>3 DEF ReadingsMatch
    <3>4. CASE active' = 0
      BY <3>1, <3>2, <3>4
    <3>5. QED
      BY <3>1, <3>3, <3>4
  <2>8. QED
    BY <2>1, <2>4, <2>5, <2>6, <2>7
<1>2. CASE WorkerStep
  <2>1. UNCHANGED engineVars /\ (WorkerReceive \/ Collects \/ Offers \/ Finishes \/ Leaves)
    BY <1>2, WorkerEffects
  <2>2. UNCHANGED <<active, preedit>>
    BY <2>1 DEF engineVars
  <2>3. CASE WorkerReceive
    <3>1. /\ requests # <<>> /\ job' = Head(requests) /\ requests' = Tail(requests)
          /\ Working' /\ ~Working /\ UNCHANGED <<events, buffer, second>>
      BY <2>3 DEF WorkerReceive, Working
    <3>2. /\ 1 \in DOMAIN requests /\ job' = requests[1]
          /\ \A i \in DOMAIN requests' : i + 1 \in DOMAIN requests
                                         /\ requests'[i] = requests[i + 1]
      BY <3>1, TailElements
    <3>3. AllRead(buffer', job'.kana) /\ AllRead(second', job'.kana)
      BY <3>1 DEF ReadingsMatch, AllRead
    <3>4. /\ \A i \in DOMAIN requests' :
               requests'[i].id = active' => requests'[i].kana = preedit'
          /\ job'.id = active' => job'.kana = preedit'
      BY <2>2, <3>2 DEF ReadingsMatch
    <3>5. \A i \in DOMAIN events' :
               events'[i].id = active' => AllRead(events'[i].list, preedit')
      BY <2>2, <3>1 DEF ReadingsMatch
    <3>6. QED
      BY <3>1, <3>3, <3>4, <3>5 DEF ReadingsMatch
  <2>4. CASE Collects
    <3>1. Working /\ Working' /\ UNCHANGED <<job, requests, events>>
      BY <2>4 DEF Collects
    <3>2. AllRead(buffer', job'.kana)
      BY <2>4, <3>1 DEF Collects, ReadingsMatch
    <3>3. AllRead(second', job'.kana)
      BY <2>4, <3>1 DEF Collects, ReadingsMatch
    <3>4. /\ \A i \in DOMAIN requests' :
               requests'[i].id = active' => requests'[i].kana = preedit'
          /\ job'.id = active' => job'.kana = preedit'
      BY <2>2, <3>1 DEF ReadingsMatch
    <3>5. \A i \in DOMAIN events' :
               events'[i].id = active' => AllRead(events'[i].list, preedit')
      BY <2>2, <3>1 DEF ReadingsMatch
    <3>6. QED
      BY <3>1, <3>2, <3>3, <3>4, <3>5 DEF ReadingsMatch
  <2>5. CASE Offers \/ Finishes
    <3>1. Working /\ UNCHANGED requests
      BY <2>5 DEF Offers, Finishes, Working
    <3>2. /\ Working' => job' = job /\ buffer' = buffer /\ second' = second
          /\ ~Working' => buffer' = <<>> /\ second' = <<>>
      BY <2>5 DEF Offers, Finishes, Working
    <3>3. /\ buffer \in Seq(Candidate) /\ second \in Seq(Candidate)
          /\ AllRead(buffer, job.kana) /\ AllRead(second, job.kana)
      BY <3>1 DEF TInv, TypeOK, WorkerTypeOK, ReadingsMatch
    <3>4. AllRead(buffer \o second, job.kana) /\ AllRead(<<>>, job.kana)
      BY <3>3, ConcatReads DEF AllRead
    <3>5. \A i \in DOMAIN events' :
             \/ i \in DOMAIN events /\ events'[i] = events[i]
             \/ events'[i].id = job.id /\ events'[i].list \in {buffer, buffer \o second, <<>>}
      BY <2>5, ReportEffects DEF CandidatesEvent, ErrorEvent
    <3>6. ASSUME NEW i \in DOMAIN events', events'[i].id = active
          PROVE  AllRead(events'[i].list, preedit)
      <4>1. CASE i \in DOMAIN events /\ events'[i] = events[i]
        BY <3>6, <4>1 DEF ReadingsMatch
      <4>2. CASE /\ events'[i].id = job.id
                 /\ events'[i].list \in {buffer, buffer \o second, <<>>}
        <5>1. job.kana = preedit
          BY <3>1, <3>6, <4>2 DEF ReadingsMatch
        <5>2. CASE events'[i].list = buffer
          BY <3>3, <5>1, <5>2
        <5>3. CASE events'[i].list = buffer \o second
          BY <3>4, <5>1, <5>3
        <5>4. CASE events'[i].list = <<>>
          BY <3>4, <5>1, <5>4
        <5>5. QED
          BY <4>2, <5>2, <5>3, <5>4
      <4>3. QED
        BY <3>5, <4>1, <4>2
    <3>7. \A i \in DOMAIN events' :
               events'[i].id = active' => AllRead(events'[i].list, preedit')
      BY <2>2, <3>6
    <3>8. Working' => AllRead(buffer', job'.kana) /\ AllRead(second', job'.kana)
      BY <3>2, <3>3
    <3>9. /\ \A i \in DOMAIN requests' :
               requests'[i].id = active' => requests'[i].kana = preedit'
          /\ Working' /\ job'.id = active' => job'.kana = preedit'
      BY <2>2, <3>1, <3>2 DEF ReadingsMatch
    <3>10. QED
      BY <3>2, <3>7, <3>8, <3>9 DEF ReadingsMatch
  <2>6. CASE Leaves
    <3>1. ~Working /\ ~Working' /\ requests' = <<>> /\ UNCHANGED <<events, buffer, second>>
      BY <2>6 DEF Leaves
    <3>2. \A i \in DOMAIN events' :
               events'[i].id = active' => AllRead(events'[i].list, preedit')
      BY <2>2, <3>1 DEF ReadingsMatch
    <3>3. buffer' = <<>> /\ second' = <<>>
      BY <3>1 DEF ReadingsMatch
    <3>4. \A i \in DOMAIN requests' : requests'[i].id = active' => requests'[i].kana = preedit'
      BY <3>1
    <3>5. QED
      BY <3>1, <3>2, <3>3, <3>4 DEF ReadingsMatch
  <2>7. QED
    BY <2>1, <2>3, <2>4, <2>5, <2>6
<1>3. CASE UNCHANGED vars
  <2>1. UNCHANGED <<active, preedit, requests, events, job, buffer, second, Working>>
    BY <1>3 DEF vars, channelVars, workerVars, engineVars, Working
  <2>2. QED
    BY <2>1 DEF ReadingsMatch
<1>4. QED
  BY <1>1, <1>2, <1>3 DEF Next

=============================================================================
